------------------------ MODULE DocumentUploadProofs ------------------------
(***************************************************************************)
(* What the fresh storage keys buy, for any number of concurrent requests, *)
(* keys, files and declarations.  The argument: a key belongs to exactly   *)
(* one upload (FreshInv), so whoever remembers the key of the row - a      *)
(* handler that has read it, a URL that was signed for it - remembers the  *)
(* declaration of the row as well (AgreeInv), and no object is stored      *)
(* under a key before the row has it (StoreInv).                           *)
(***************************************************************************)
EXTENDS DocumentUpload, TLAPS

Claiming(h) == handlers[h].pc = "claim"

Claimed(h) == handlers[h].pc \in {"remove", "sign"}

Completing(h) == handlers[h].pc \in {"head", "ready", "reject", "drop"}

\* A key that is still to be claimed is known to nobody else, and stays so.
FreshInv ==
    /\ doc.key \in issued \union {NoKey}
    /\ doc.status \in {"UPLOADING", "READY", "FAILED"} => doc.key # NoKey
    /\ \A u \in urls : u.key \in issued
    /\ \A k \in Keys : objects[k] # NoBody => k \in issued
    /\ \A h \in Handlers :
          /\ handlers[h].current.key \in issued \union {NoKey}
          /\ handlers[h].key \in issued \union {NoKey}
          /\ Claiming(h) \/ Claimed(h) => handlers[h].key # NoKey
          /\ Claimed(h) => handlers[h].current.key # doc.key /\ doc.key # NoKey
          /\ handlers[h].pc = "remove" => handlers[h].current.key # NoKey
          /\ Completing(h) => handlers[h].current.key # NoKey
    /\ \A h \in Handlers : Claiming(h) =>
          /\ handlers[h].key # doc.key
          /\ \A u \in urls : handlers[h].key # u.key
          /\ objects[handlers[h].key] = NoBody
          /\ \A g \in Handlers : handlers[g].current.key # handlers[h].key
          /\ \A g \in Handlers : g # h => handlers[g].key # handlers[h].key

\* Whoever knows the key of the row knows its declaration.
AgreeInv ==
    /\ \A u \in urls : u.key = doc.key => u.size = doc.size /\ u.type = doc.type
    /\ \A h \in Handlers :
          /\ Claimed(h) /\ handlers[h].key = doc.key =>
                handlers[h].size = doc.size /\ handlers[h].type = doc.type
          /\ Completing(h) /\ handlers[h].current.key = doc.key =>
                handlers[h].current.size = doc.size /\ handlers[h].current.type = doc.type

\* A handler about to mark the document READY has seen an object that fits.
VerifiedInv ==
    \A h \in Handlers : handlers[h].pc = "ready" =>
        /\ handlers[h].head \in Bodies
        /\ ~HasProblems(handlers[h].current, handlers[h].head, handlers[h].etag)

\* The object of the row, if it is there, is as declared.
StoreInv ==
    enforced => \A k \in Keys : k = doc.key /\ objects[k] # NoBody =>
        objects[k].size = doc.size /\ objects[k].type = doc.type

Inv == TypeOK /\ FreshInv /\ AgreeInv /\ VerifiedInv /\ StoreInv

-----------------------------------------------------------------------------
(* Steps of one handler *)

\* The record of a handler after a step.
LEMMA HandlerRecords ==
    ASSUME TypeOK, NEW h \in Handlers
    PROVE  /\ IdleHandler \in Handler
           /\ handlers[h] \in Handler
           /\ \A p \in {"idle", "claim", "remove", "sign", "head", "ready", "reject", "drop"} :
                 [handlers[h] EXCEPT !.pc = p] \in Handler
           /\ \A q \in Handler : [handlers EXCEPT ![h] = q] \in [Handlers -> Handler]
  <1>1. NewRow \in Row
    BY DEF NewRow, Row, Uploadable, Types
  <1>2. IdleHandler \in Handler
    BY <1>1 DEF IdleHandler, Handler, Types
  <1>3. handlers[h] \in Handler
    BY DEF TypeOK
  <1>4. \A p \in {"idle", "claim", "remove", "sign", "head", "ready", "reject", "drop"} :
            [handlers[h] EXCEPT !.pc = p] \in Handler
    BY <1>3 DEF Handler
  <1>5. \A q \in Handler : [handlers EXCEPT ![h] = q] \in [Handlers -> Handler]
    BY DEF TypeOK
  <1>6. QED
    BY <1>2, <1>3, <1>4, <1>5

\* A handler that ends its request, or moves on to a step that relies on
\* nothing more than the last one did, while nothing else changes except that
\* URLs expire or objects disappear.
LEMMA FrameStep ==
    ASSUME Inv, NEW h \in Handlers, NEW q \in Handler,
           handlers' = [handlers EXCEPT ![h] = q],
           \/ q = IdleHandler
           \/ handlers[h].pc = "remove" /\ q = [handlers[h] EXCEPT !.pc = "sign"]
           \/ Completing(h) /\ q = [handlers[h] EXCEPT !.pc = "reject"]
           \/ Completing(h) /\ q = [handlers[h] EXCEPT !.pc = "drop"],
           doc' = doc, issued' = issued, enforced' = enforced, urls' \subseteq urls,
           objects' \in [Keys -> Bodies \union {NoBody}],
           \A k \in Keys : objects'[k] \in {objects[k], NoBody}
    PROVE  Inv'
  <1>1. TypeOK'
    BY HandlerRecords DEF Inv, TypeOK
  <1>2. \A g \in Handlers : handlers'[g] = IF g = h THEN q ELSE handlers[g]
    BY DEF Inv, TypeOK
  <1>3. \/ q.current = handlers[h].current /\ q.key = handlers[h].key
           /\ q.size = handlers[h].size /\ q.type = handlers[h].type
           /\ q.head = handlers[h].head /\ q.etag = handlers[h].etag
           /\ \/ handlers[h].pc = "remove" /\ q.pc = "sign"
              \/ Completing(h) /\ q.pc \in {"reject", "drop"}
        \/ q.pc = "idle" /\ q.current.key = NoKey /\ q.key = NoKey
    BY DEF IdleHandler, NewRow, Inv, TypeOK, Handler
  <1>4. FreshInv'
    BY <1>1, <1>2, <1>3, UploadAssumption
    DEF Inv, TypeOK, FreshInv, Claiming, Claimed, Completing
  <1>5. AgreeInv'
    BY <1>2, <1>3 DEF Inv, AgreeInv, Claimed, Completing
  <1>6. VerifiedInv'
    BY <1>2, <1>3 DEF Inv, VerifiedInv, Completing
  <1>7. StoreInv'
    BY DEF Inv, StoreInv
  <1>8. QED
    BY <1>1, <1>4, <1>5, <1>6, <1>7 DEF Inv

\* upload-url reads the row and makes a key nobody knows.
LEMMA BeginUploadStep ==
    ASSUME Inv, NEW h \in Handlers, NEW k \in Keys, NEW size \in Sizes,
           NEW type \in AllowedTypes, BeginUpload(h, k, size, type)
    PROVE  Inv'
  <1> DEFINE q == [IdleHandler EXCEPT !.pc = "claim", !.current = doc, !.key = k,
                                      !.size = size, !.type = type]
  <1>1. /\ q.pc = "claim" /\ q.current = doc /\ q.key = k
        /\ handlers' = [handlers EXCEPT ![h] = q]
        /\ k \notin issued /\ issued' = issued \union {k}
        /\ UNCHANGED <<doc, objects, urls, enforced>>
    BY DEF BeginUpload, IdleHandler
  <1>2. q \in Handler
    <2>1. size \in Nat
      BY UploadAssumption DEF Sizes
    <2>2. type \in Types /\ doc \in Row
      BY DEF Types, Inv, TypeOK
    <2>3. IdleHandler \in Handler
      BY HandlerRecords DEF Inv
    <2>4. QED
      BY <2>1, <2>2, <2>3 DEF Handler
  <1> HIDE DEF q
  <1>3. TypeOK'
    BY <1>1, <1>2, HandlerRecords DEF Inv, TypeOK
  <1>4. \A g \in Handlers : handlers'[g] = IF g = h THEN q ELSE handlers[g]
    BY <1>1 DEF Inv, TypeOK
  <1>5. k # NoKey
    BY UploadAssumption
  <1>6. \A g \in Handlers : Claiming(g)' =>
            /\ handlers'[g].key # doc.key
            /\ \A u \in urls : handlers'[g].key # u.key
            /\ objects[handlers'[g].key] = NoBody
    BY <1>1, <1>4, <1>5 DEF Inv, FreshInv, Claiming
  <1>7. \A g \in Handlers : Claiming(g)' =>
            \A f \in Handlers : handlers'[f].current.key # handlers'[g].key
    BY <1>1, <1>4, <1>5 DEF Inv, FreshInv, Claiming
  <1>8. \A g \in Handlers : Claiming(g)' =>
            \A f \in Handlers : f # g => handlers'[f].key # handlers'[g].key
    BY <1>1, <1>4, <1>5 DEF Inv, FreshInv, Claiming
  <1>9. FreshInv'
    <2>1. \A g \in Handlers :
             /\ handlers'[g].current.key \in issued' \union {NoKey}
             /\ handlers'[g].key \in issued' \union {NoKey}
             /\ (Claiming(g) \/ Claimed(g))' => handlers'[g].key # NoKey
      BY <1>1, <1>4, <1>5 DEF Inv, FreshInv, Claiming, Claimed
    <2>2. \A g \in Handlers :
             /\ Claimed(g)' => handlers'[g].current.key # doc.key /\ doc.key # NoKey
             /\ handlers'[g].pc = "remove" => handlers'[g].current.key # NoKey
             /\ Completing(g)' => handlers'[g].current.key # NoKey
      BY <1>1, <1>4 DEF Inv, FreshInv, Claimed, Completing
    <2>3. /\ doc.key \in issued' \union {NoKey}
          /\ \A u \in urls : u.key \in issued'
          /\ \A x \in Keys : objects[x] # NoBody => x \in issued'
      BY <1>1 DEF Inv, FreshInv
    <2>4. QED
      BY <1>1, <1>6, <1>7, <1>8, <2>1, <2>2, <2>3 DEF Inv, FreshInv
  <1>10. AgreeInv' /\ VerifiedInv' /\ StoreInv'
    BY <1>1, <1>4 DEF Inv, AgreeInv, VerifiedInv, StoreInv, Claimed, Completing
  <1>11. QED
    BY <1>3, <1>9, <1>10 DEF Inv

\* The row takes the key of handler h, which no other handler, URL or object
\* knows; the key as read differs from it.
LEMMA ClaimUploadStep ==
    ASSUME Inv, NEW h \in Handlers, ClaimUpload(h)
    PROVE  Inv'
  <1>1. CASE doc.status \notin Uploadable
    BY <1>1, FrameStep, HandlerRecords DEF ClaimUpload, Inv, TypeOK
  <1>2. CASE doc.status \in Uploadable
    <2> DEFINE q == [handlers[h] EXCEPT !.pc =
                        IF handlers[h].current.key = NoKey THEN "sign" ELSE "remove"]
    <2>1. /\ Claiming(h)
          /\ doc' = [status |-> "UPLOADING", key |-> handlers[h].key,
                     size |-> handlers[h].size, type |-> handlers[h].type]
          /\ handlers' = [handlers EXCEPT ![h] = q]
          /\ UNCHANGED <<objects, urls, issued, enforced>>
      BY <1>2 DEF ClaimUpload, Claiming
    <2>2. q \in Handler /\ handlers[h] \in Handler
      BY HandlerRecords DEF Inv
    <2>3. /\ q.pc \in {"sign", "remove"} /\ (q.pc = "remove" => q.current.key # NoKey)
          /\ q.current = handlers[h].current /\ q.key = handlers[h].key
          /\ q.size = handlers[h].size /\ q.type = handlers[h].type
      BY <2>2 DEF Handler
    <2> HIDE DEF q
    <2>4. /\ doc'.status = "UPLOADING" /\ doc'.key = handlers[h].key
          /\ doc'.size = handlers[h].size /\ doc'.type = handlers[h].type
      BY <2>1
    <2>5. doc' \in Row
      BY <2>1, <2>2 DEF Handler, Row, Uploadable
    <2>6. TypeOK'
      BY <2>1, <2>2, <2>5, HandlerRecords DEF Inv, TypeOK
    <2>7. \A g \in Handlers : handlers'[g] = IF g = h THEN q ELSE handlers[g]
      BY <2>1 DEF Inv, TypeOK
    <2>8. /\ handlers[h].key # NoKey /\ handlers[h].key \in issued
          /\ \A u \in urls : u.key # handlers[h].key
          /\ objects[handlers[h].key] = NoBody
          /\ \A g \in Handlers : handlers[g].current.key # handlers[h].key
          /\ \A g \in Handlers : g # h => handlers[g].key # handlers[h].key
      BY <2>1 DEF Inv, FreshInv, Claiming
    <2>9. FreshInv'
      <3>1. \A g \in Handlers :
               /\ handlers'[g].current.key \in issued \union {NoKey}
               /\ handlers'[g].key \in issued \union {NoKey}
               /\ (Claiming(g) \/ Claimed(g))' => handlers'[g].key # NoKey
               /\ handlers'[g].pc = "remove" => handlers'[g].current.key # NoKey
               /\ Completing(g)' => handlers'[g].current.key # NoKey
        BY <2>3, <2>7, <2>8 DEF Inv, FreshInv, Claiming, Claimed, Completing
      <3>2. \A g \in Handlers : handlers'[g].current.key # doc'.key /\ doc'.key # NoKey
        BY <2>3, <2>4, <2>7, <2>8
      <3>3. \A g \in Handlers : Claiming(g)' => g # h /\ Claiming(g)
        BY <2>3, <2>7 DEF Claiming
      <3>4. \A g \in Handlers : Claiming(g)' =>
               /\ handlers'[g].key # doc'.key
               /\ \A u \in urls : handlers'[g].key # u.key
               /\ objects[handlers'[g].key] = NoBody
               /\ \A f \in Handlers : handlers'[f].current.key # handlers'[g].key
               /\ \A f \in Handlers : f # g => handlers'[f].key # handlers'[g].key
        BY <2>3, <2>4, <2>7, <2>8, <3>3 DEF Inv, FreshInv
      <3>5. QED
        BY <2>1, <2>4, <2>8, <3>1, <3>2, <3>4 DEF Inv, FreshInv
    <2>10. AgreeInv'
      BY <2>1, <2>3, <2>4, <2>7, <2>8 DEF Inv, AgreeInv, Claimed, Completing
    <2>11. VerifiedInv' /\ StoreInv'
      BY <2>1, <2>3, <2>4, <2>7, <2>8 DEF Inv, VerifiedInv, StoreInv
    <2>12. QED
      BY <2>6, <2>9, <2>10, <2>11 DEF Inv
  <1>3. QED
    BY <1>1, <1>2

\* The object of the key as read is removed, or not.
LEMMA DeletionSteps ==
    ASSUME Inv, NEW h \in Handlers, NEW gone \in BOOLEAN,
           RemoveSuperseded(h, gone) \/ DropRejected(h, gone)
    PROVE  Inv'
  <1>1. objects' \in [Keys -> Bodies \union {NoBody}]
    BY DEF RemoveSuperseded, DropRejected, DeleteObject, Inv, TypeOK
  <1>2. \A k \in Keys : objects'[k] \in {objects[k], NoBody}
    BY DEF RemoveSuperseded, DropRejected, DeleteObject, Inv, TypeOK
  <1>3. CASE RemoveSuperseded(h, gone)
    <2> DEFINE q == [handlers[h] EXCEPT !.pc = "sign"]
    <2>1. handlers' = [handlers EXCEPT ![h] = q]
      BY <1>3 DEF RemoveSuperseded
    <2>2. q \in Handler
      BY HandlerRecords DEF Inv
    <2>3. /\ handlers[h].pc = "remove" /\ doc' = doc /\ issued' = issued /\ enforced' = enforced
          /\ urls' \subseteq urls
      BY <1>3 DEF RemoveSuperseded
    <2>4. QED
      BY <1>1, <1>2, <2>1, <2>2, <2>3, FrameStep
  <1>4. CASE DropRejected(h, gone)
    BY <1>1, <1>2, <1>4, FrameStep, HandlerRecords DEF DropRejected, Inv
  <1>5. QED
    BY <1>3, <1>4

\* A URL is signed for the key of handler h.
LEMMA SignUrlStep ==
    ASSUME Inv, NEW h \in Handlers, SignUrl(h)
    PROVE  Inv'
  <1> DEFINE url == [key |-> handlers[h].key, size |-> handlers[h].size,
                     type |-> handlers[h].type]
  <1>1. /\ Claimed(h) /\ urls' \subseteq urls \union {url}
        /\ handlers' = [handlers EXCEPT ![h] = IdleHandler]
        /\ UNCHANGED <<doc, objects, issued, enforced>>
    BY DEF SignUrl, Claimed
  <1>2. handlers[h].key \in issued /\ handlers[h].key \in Keys
    BY <1>1 DEF Inv, FreshInv, TypeOK
  <1>3. url \in Url
    <2>1. handlers[h].size \in Nat /\ handlers[h].type \in Types
      BY DEF Inv, TypeOK, Handler
    <2>2. QED
      BY <1>2, <2>1 DEF Url
  <1>4. /\ url.key = handlers[h].key /\ url.size = handlers[h].size
        /\ url.type = handlers[h].type
    OBVIOUS
  <1> HIDE DEF url
  <1>5. TypeOK'
    BY <1>1, <1>3, HandlerRecords DEF Inv, TypeOK
  <1>6. \A g \in Handlers : handlers'[g] = IF g = h THEN IdleHandler ELSE handlers[g]
    BY <1>1 DEF Inv, TypeOK
  <1>7. IdleHandler.pc = "idle" /\ IdleHandler.key = NoKey /\ IdleHandler.current.key = NoKey
    BY DEF IdleHandler, NewRow
  <1>8. \A g \in Handlers : Claiming(g)' =>
            /\ g # h /\ Claiming(g) /\ handlers'[g] = handlers[g]
            /\ handlers[g].key # handlers[h].key /\ handlers[g].key # NoKey
    BY <1>6, <1>7 DEF Inv, FreshInv, Claiming
  <1>9. FreshInv'
    <2>1. \A g \in Handlers :
             /\ handlers'[g].current.key \in issued \union {NoKey}
             /\ handlers'[g].key \in issued \union {NoKey}
             /\ (Claiming(g) \/ Claimed(g))' => handlers'[g].key # NoKey
             /\ Claimed(g)' => handlers'[g].current.key # doc.key /\ doc.key # NoKey
             /\ handlers'[g].pc = "remove" => handlers'[g].current.key # NoKey
             /\ Completing(g)' => handlers'[g].current.key # NoKey
      BY <1>6, <1>7 DEF Inv, FreshInv, Claiming, Claimed, Completing
    <2>2. \A g \in Handlers : Claiming(g)' =>
             /\ handlers'[g].key # doc.key
             /\ \A u \in urls' : handlers'[g].key # u.key
             /\ objects[handlers'[g].key] = NoBody
      BY <1>1, <1>4, <1>8 DEF Inv, FreshInv
    <2>3. \A g \in Handlers : Claiming(g)' =>
             /\ \A f \in Handlers : handlers'[f].current.key # handlers'[g].key
             /\ \A f \in Handlers : f # g => handlers'[f].key # handlers'[g].key
      BY <1>6, <1>7, <1>8 DEF Inv, FreshInv
    <2>4. \A u \in urls' : u.key \in issued
      BY <1>1, <1>2, <1>4 DEF Inv, FreshInv
    <2>5. QED
      BY <1>1, <2>1, <2>2, <2>3, <2>4 DEF Inv, FreshInv
  <1>10. AgreeInv'
    BY <1>1, <1>4, <1>6, <1>7 DEF Inv, AgreeInv, Claimed, Completing
  <1>11. VerifiedInv' /\ StoreInv'
    BY <1>1, <1>6, <1>7 DEF Inv, VerifiedInv, StoreInv
  <1>12. QED
    BY <1>5, <1>9, <1>10, <1>11 DEF Inv

\* upload-complete reads the row of an upload in progress, and looks at its
\* object.
LEMMA CompletionSteps ==
    ASSUME Inv, NEW h \in Handlers, NEW q \in Handler,
           handlers' = [handlers EXCEPT ![h] = q],
           UNCHANGED <<doc, objects, urls, issued, enforced>>,
           \/ q.pc = "head" /\ q.current = doc /\ q.key = NoKey /\ doc.status = "UPLOADING"
           \/ /\ handlers[h].pc = "head" /\ q.pc = "ready"
              /\ q.current = handlers[h].current /\ q.key = handlers[h].key
              /\ q.head \in Bodies /\ ~HasProblems(q.current, q.head, q.etag)
    PROVE  Inv'
  <1>1. TypeOK'
    BY HandlerRecords DEF Inv, TypeOK
  <1>2. \A g \in Handlers : handlers'[g] = IF g = h THEN q ELSE handlers[g]
    BY DEF Inv, TypeOK
  <1>3. /\ q.pc \in {"head", "ready"} /\ q.key \in issued \union {NoKey}
        /\ q.current.key \in issued \union {NoKey} /\ q.current.key # NoKey
        /\ q.current.key = doc.key => q.current.size = doc.size /\ q.current.type = doc.type
        /\ q.current = doc \/ q.current = handlers[h].current
        /\ q.key \in {NoKey, handlers[h].key}
    BY DEF Inv, FreshInv, AgreeInv, Completing
  <1>4. \A g \in Handlers : Claiming(g)' =>
            /\ g # h /\ Claiming(g) /\ handlers'[g] = handlers[g] /\ handlers[g].key # NoKey
    BY <1>2, <1>3 DEF Inv, FreshInv, Claiming
  <1>5. FreshInv'
    <2>1. \A g \in Handlers :
             /\ handlers'[g].current.key \in issued \union {NoKey}
             /\ handlers'[g].key \in issued \union {NoKey}
             /\ (Claiming(g) \/ Claimed(g))' => handlers'[g].key # NoKey
             /\ Claimed(g)' => handlers'[g].current.key # doc.key /\ doc.key # NoKey
             /\ handlers'[g].pc = "remove" => handlers'[g].current.key # NoKey
             /\ Completing(g)' => handlers'[g].current.key # NoKey
      BY <1>2, <1>3 DEF Inv, FreshInv, Claiming, Claimed, Completing
    <2>2. \A g \in Handlers : Claiming(g)' =>
             /\ \A f \in Handlers : handlers'[f].current.key # handlers'[g].key
             /\ \A f \in Handlers : f # g => handlers'[f].key # handlers'[g].key
      BY <1>2, <1>3, <1>4 DEF Inv, FreshInv
    <2>3. \A g \in Handlers : Claiming(g)' =>
             /\ handlers'[g].key # doc.key
             /\ \A u \in urls : handlers'[g].key # u.key
             /\ objects[handlers'[g].key] = NoBody
      BY <1>4 DEF Inv, FreshInv
    <2>4. QED
      BY <2>1, <2>2, <2>3 DEF Inv, FreshInv
  <1>6. AgreeInv'
    BY <1>2, <1>3 DEF Inv, AgreeInv, Claimed, Completing
  <1>7. VerifiedInv' /\ StoreInv'
    BY <1>2, <1>3 DEF Inv, VerifiedInv, StoreInv
  <1>8. QED
    BY <1>1, <1>5, <1>6, <1>7 DEF Inv

\* The two steps CompletionSteps is about.
LEMMA CompleteStep ==
    ASSUME Inv, NEW h \in Handlers,
           \/ \E etag \in Etags \union {NoEtag} : BeginComplete(h, etag)
           \/ HeadObject(h)
    PROVE  Inv'
  <1>1. ASSUME NEW etag \in Etags \union {NoEtag}, BeginComplete(h, etag)
        PROVE  Inv'
    <2> DEFINE q == [IdleHandler EXCEPT !.pc = "head", !.current = doc, !.etag = etag]
    <2>1. /\ handlers' = [handlers EXCEPT ![h] = q] /\ doc.status = "UPLOADING"
          /\ UNCHANGED <<doc, objects, urls, issued, enforced>>
      BY <1>1 DEF BeginComplete
    <2>2. q.pc = "head" /\ q.current = doc /\ q.key = NoKey
      BY DEF IdleHandler
    <2>3. q \in Handler
      <3>1. IdleHandler \in Handler /\ doc \in Row
        BY HandlerRecords DEF Inv, TypeOK
      <3>2. QED
        BY <3>1 DEF Handler
    <2> HIDE DEF q
    <2>4. QED
      BY <2>1, <2>2, <2>3, CompletionSteps
  <1>2. ASSUME HeadObject(h)
        PROVE  Inv'
    <2> DEFINE row == handlers[h].current
               head == objects[row.key]
               ready == [handlers[h] EXCEPT !.pc = "ready", !.head = head]
               reject == [handlers[h] EXCEPT !.pc = "reject"]
    <2>1. /\ handlers[h].pc = "head" /\ UNCHANGED <<doc, objects, urls, issued, enforced>>
          /\ row.key \in Keys
      BY <1>2, HandlerRecords DEF HeadObject, Inv, TypeOK, FreshInv, Completing
    <2>2. head \in Bodies \union {NoBody}
      BY <2>1 DEF Inv, TypeOK
    <2>3. \A k \in Keys : objects'[k] \in {objects[k], NoBody}
      BY <2>1
    <2>4. objects' \in [Keys -> Bodies \union {NoBody}]
      BY <2>1 DEF Inv, TypeOK
    <2>5. CASE head = NoBody
      BY <2>1, <2>3, <2>4, <2>5, <1>2, FrameStep, HandlerRecords DEF HeadObject, Inv
    <2>6. CASE head # NoBody /\ HasProblems(row, head, handlers[h].etag)
      <3>1. handlers' = [handlers EXCEPT ![h] = reject]
        BY <1>2, <2>6 DEF HeadObject
      <3>2. reject \in Handler
        BY HandlerRecords DEF Inv
      <3>3. Completing(h)
        BY <2>1 DEF Completing
      <3>4. QED
        BY <2>1, <2>3, <2>4, <3>1, <3>2, <3>3, FrameStep
    <2>7. CASE head # NoBody /\ ~HasProblems(row, head, handlers[h].etag)
      <3>1. handlers' = [handlers EXCEPT ![h] = ready]
        BY <1>2, <2>7 DEF HeadObject
      <3>2. head \in Bodies
        BY <2>2, <2>7
      <3>3. handlers[h] \in Handler
        BY DEF Inv, TypeOK
      <3>4. ready \in Handler
        BY <3>2, <3>3 DEF Handler
      <3>5. /\ ready.pc = "ready" /\ ready.current = row /\ ready.key = handlers[h].key
            /\ ready.head = head /\ ready.etag = handlers[h].etag
        BY <3>3 DEF Handler
      <3> HIDE DEF ready
      <3>6. QED
        BY <2>1, <2>7, <3>1, <3>2, <3>4, <3>5, CompletionSteps
    <2>8. QED
      BY <2>5, <2>6, <2>7
  <1>3. QED
    BY <1>1, <1>2

-----------------------------------------------------------------------------
(* Steps that change the row and keep its key *)

\* The row moves to another status and keeps key and declaration.
LEMMA StatusStep ==
    ASSUME Inv, NEW s \in Row, doc' = s, s.key = doc.key, s.size = doc.size, s.type = doc.type,
           s.status \in {"UPLOADING", "READY", "FAILED"} => doc.key # NoKey,
           UNCHANGED <<objects, urls, issued, handlers, enforced>>
    PROVE  Inv'
  <1>1. TypeOK'
    BY DEF Inv, TypeOK
  <1>2. FreshInv'
    BY DEF Inv, FreshInv, Claiming, Claimed, Completing
  <1>3. AgreeInv' /\ VerifiedInv' /\ StoreInv'
    BY DEF Inv, AgreeInv, VerifiedInv, StoreInv, Claimed, Completing
  <1>4. QED
    BY <1>1, <1>2, <1>3 DEF Inv

\* Completing an upload records what was declared for it.
LEMMA ReadyAsDeclared ==
    ASSUME Inv, NEW h \in Handlers, MarkReady(h), doc' # doc
    PROVE  doc' = [doc EXCEPT !.status = "READY"] /\ doc.status = "UPLOADING"
  <1> DEFINE head == handlers[h].head
             row == handlers[h].current
             type == IF head.type = NoType THEN row.type ELSE head.type
  <1>1. /\ handlers[h].pc = "ready" /\ StillUploading(h)
        /\ doc' = [doc EXCEPT !.status = "READY", !.size = head.size, !.type = type]
    BY DEF MarkReady
  <1>2. doc.status = "UPLOADING" /\ row.size = doc.size /\ row.type = doc.type
    BY <1>1 DEF Inv, AgreeInv, Completing, StillUploading
  <1>3. ~HasProblems(row, head, handlers[h].etag)
    BY <1>1 DEF Inv, VerifiedInv
  <1>4. head.size = doc.size /\ type = doc.type
    BY <1>2, <1>3 DEF HasProblems
  <1> HIDE DEF type, head
  <1>5. doc' = [doc EXCEPT !.status = "READY", !.size = doc.size, !.type = doc.type]
    BY <1>1, <1>4
  <1>6. QED
    BY <1>2, <1>5 DEF Inv, TypeOK, Row

\* upload-complete decides.
LEMMA DecisionSteps ==
    ASSUME Inv, NEW h \in Handlers, MarkReady(h) \/ MarkFailed(h)
    PROVE  Inv'
  <1> DEFINE q == IF MarkReady(h) THEN IdleHandler ELSE [handlers[h] EXCEPT !.pc = "drop"]
             Moved(s) == [doc EXCEPT !.status = s]
  <1>1. /\ handlers' = [handlers EXCEPT ![h] = q] /\ UNCHANGED <<objects, urls, issued, enforced>>
        /\ \/ q = IdleHandler
           \/ Completing(h) /\ q = [handlers[h] EXCEPT !.pc = "drop"]
    BY DEF MarkReady, MarkFailed, Completing
  <1>2. doc' = doc \/ (doc.status = "UPLOADING" /\ \E s \in {"READY", "FAILED"} : doc' = Moved(s))
    <2>1. CASE MarkReady(h)
      <3>1. CASE doc' # doc
        <4>1. doc' = Moved("READY") /\ doc.status = "UPLOADING"
          BY <2>1, <3>1, ReadyAsDeclared
        <4>2. QED
          BY <4>1
      <3>2. QED
        BY <3>1
    <2>2. CASE MarkFailed(h)
      <3>1. doc' = doc \/ (doc.status = "UPLOADING" /\ doc' = Moved("FAILED"))
        BY <2>2 DEF MarkFailed, StillUploading
      <3>2. QED
        BY <3>1
    <2>3. QED
      BY <2>1, <2>2
  <1>3. q \in Handler
    BY HandlerRecords DEF Inv
  <1> HIDE DEF q
  <1>4. doc' \in Row /\ doc'.key = doc.key /\ doc'.size = doc.size /\ doc'.type = doc.type
    BY <1>2 DEF Inv, TypeOK, Row, Uploadable
  <1>5. doc'.status \in {"UPLOADING", "READY", "FAILED"} => doc.key # NoKey
    BY <1>2 DEF Inv, FreshInv, TypeOK, Row
  <1>6. \A g \in Handlers : handlers'[g] = IF g = h THEN q ELSE handlers[g]
    BY <1>1 DEF Inv, TypeOK
  <1>7. \/ q.current = handlers[h].current /\ q.key = handlers[h].key
           /\ Completing(h) /\ q.pc = "drop"
        \/ q.pc = "idle" /\ q.current.key = NoKey /\ q.key = NoKey
    BY <1>1 DEF IdleHandler, NewRow, Inv, TypeOK, Handler
  <1>8. TypeOK'
    BY <1>1, <1>3, <1>4, HandlerRecords DEF Inv, TypeOK
  <1>9. FreshInv'
    BY <1>1, <1>4, <1>5, <1>6, <1>7, <1>8, UploadAssumption
    DEF Inv, TypeOK, FreshInv, Claiming, Claimed, Completing
  <1>10. AgreeInv'
    BY <1>1, <1>4, <1>6, <1>7 DEF Inv, AgreeInv, Claimed, Completing
  <1>11. VerifiedInv' /\ StoreInv'
    BY <1>1, <1>4, <1>6, <1>7 DEF Inv, VerifiedInv, StoreInv
  <1>12. QED
    BY <1>8, <1>9, <1>10, <1>11 DEF Inv

\* DocumentsService.remove.
LEMMA RemoveStep ==
    ASSUME Inv, Remove
    PROVE  Inv'
  <1> DEFINE s == [doc EXCEPT !.status = "DELETED"]
  <1>1. s \in Row /\ s.key = doc.key /\ s.size = doc.size /\ s.type = doc.type
        /\ s.status = "DELETED"
    BY DEF Inv, TypeOK, Row
  <1>2. doc' = s /\ UNCHANGED <<objects, urls, issued, handlers, enforced>>
    BY DEF Remove
  <1> HIDE DEF s
  <1>3. QED
    BY <1>1, <1>2, StatusStep

\* A PUT stores a file under the key of its URL, whose declaration it fits if
\* the store enforces the signed headers.
LEMMA PutObjectStep ==
    ASSUME Inv, NEW url \in urls, NEW body \in Bodies, PutObject(url, body)
    PROVE  Inv'
  <1>1. url \in Url /\ url.key \in Keys /\ url.key \in issued
    BY DEF Inv, TypeOK, FreshInv, Url
  <1>2. /\ objects' = [objects EXCEPT ![url.key] = body] /\ body # NoBody
        /\ enforced => body.size = url.size /\ body.type = url.type
        /\ UNCHANGED <<doc, urls, issued, handlers, enforced>>
    BY UploadAssumption DEF PutObject
  <1>3. \A k \in Keys : objects'[k] = IF k = url.key THEN body ELSE objects[k]
    BY <1>2 DEF Inv, TypeOK
  <1>4. TypeOK'
    BY <1>1, <1>2 DEF Inv, TypeOK
  <1>5. FreshInv'
    <2>1. \A h \in Handlers : Claiming(h) => handlers[h].key \in Keys
      BY DEF Inv, FreshInv, TypeOK
    <2>2. \A h \in Handlers : Claiming(h) => objects'[handlers[h].key] = NoBody
      BY <1>3, <2>1 DEF Inv, FreshInv
    <2>3. QED
      BY <1>1, <1>2, <1>3, <2>2 DEF Inv, FreshInv, Claiming, Claimed, Completing
  <1>6. AgreeInv' /\ VerifiedInv'
    BY <1>2 DEF Inv, AgreeInv, VerifiedInv, Claimed, Completing
  <1>7. StoreInv'
    BY <1>2, <1>3 DEF Inv, StoreInv, AgreeInv
  <1>8. QED
    BY <1>4, <1>5, <1>6, <1>7 DEF Inv

-----------------------------------------------------------------------------
(* Theorems *)

\* Every step preserves the inductive invariant.
LEMMA NextStep ==
    ASSUME Inv, [Next]_vars
    PROVE  Inv'
  <1>1. CASE UNCHANGED vars
    BY <1>1 DEF vars, Inv, TypeOK, FreshInv, AgreeInv, VerifiedInv, StoreInv,
                Claiming, Claimed, Completing
  <1>2. ASSUME NEW h \in Handlers, AnswerAtOnce(h)
        PROVE  Inv'
    BY <1>1, <1>2 DEF AnswerAtOnce
  <1>3. ASSUME NEW h \in Handlers, HandlerFails(h)
        PROVE  Inv'
    BY <1>3, FrameStep, HandlerRecords DEF HandlerFails, Inv, TypeOK
  <1>4. ASSUME NEW url \in urls, UrlExpires(url)
        PROVE  Inv'
    <2>1. urls' \subseteq urls /\ UNCHANGED <<doc, objects, issued, handlers, enforced>>
      BY <1>4 DEF UrlExpires
    <2>2. QED
      BY <2>1 DEF Inv, TypeOK, FreshInv, AgreeInv, VerifiedInv, StoreInv,
                  Claiming, Claimed, Completing
  <1>5. QED
    BY <1>1, <1>2, <1>3, <1>4, BeginUploadStep, ClaimUploadStep, DeletionSteps, SignUrlStep,
       CompleteStep, DecisionSteps, RemoveStep, PutObjectStep DEF Next

\* The inductive invariant holds in every reachable state.
THEOREM UploadInvariance == Spec => []Inv
  <1>1. Init => Inv
    <2>1. ASSUME Init
          PROVE  Inv
      <3>1. NewRow \in Row /\ IdleHandler \in Handler
        <4>1. NewRow \in Row
          BY DEF NewRow, Row, Uploadable, Types
        <4>2. QED
          BY <4>1 DEF IdleHandler, Handler, Types
      <3>2. TypeOK
        BY <2>1, <3>1 DEF Init, TypeOK
      <3>3. /\ doc.key = NoKey /\ doc.status = "DRAFT"
            /\ \A h \in Handlers : /\ handlers[h].pc = "idle" /\ handlers[h].key = NoKey
                                   /\ handlers[h].current.key = NoKey
        BY <2>1 DEF Init, NewRow, IdleHandler
      <3>4. FreshInv
        BY <2>1, <3>3 DEF Init, FreshInv, Claiming, Claimed, Completing
      <3>5. AgreeInv /\ VerifiedInv /\ StoreInv
        BY <2>1, <3>3, UploadAssumption DEF Init, AgreeInv, VerifiedInv, StoreInv, Claimed,
                                            Completing
      <3>6. QED
        BY <3>2, <3>4, <3>5 DEF Inv
    <2>2. QED
      BY <2>1
  <1>2. QED
    BY <1>1, NextStep, PTL DEF Spec

\* TypeOK: the row, the bucket, the URLs and the requests keep their types, for any
\* number of requests, keys and files.
THEOREM UploadTyped == Spec => []TypeOK
  <1>1. Inv => TypeOK
    BY DEF Inv
  <1>2. QED
    BY <1>1, UploadInvariance, PTL

\* upload-url never removes the object of the key the document has by then.
THEOREM OnlySupersededRemoved == Spec => []RemovesOnlySuperseded
  <1>1. Inv => RemovesOnlySuperseded
    BY DEF Inv, FreshInv, Claimed, RemovesOnlySuperseded
  <1>2. QED
    BY <1>1, UploadInvariance, PTL

\* If the store enforces the signed headers, what a download serves has the
\* size and the type of the row.
THEOREM DownloadsFit == Spec => []DownloadFitsRow
  <1>1. Inv => DownloadFitsRow
    BY DEF Inv, TypeOK, Row, StoreInv, Downloadable, DownloadFitsRow
  <1>2. QED
    BY <1>1, UploadInvariance, PTL

\* A stale upload-complete cannot complete, or describe, another upload.
THEOREM CompletionsAsDeclared == Spec => CompletedAsDeclared
  <1> DEFINE A == doc.status = "UPLOADING" /\ doc'.status = "READY" =>
                     doc' = [doc EXCEPT !.status = "READY"]
  <1>1. ASSUME Inv, [Next]_vars
        PROVE  [A]_vars
    <2>1. ASSUME NEW h \in Handlers, MarkReady(h)
          PROVE  A
      BY <2>1, <1>1, ReadyAsDeclared
    <2>2. ASSUME NEW h \in Handlers, ClaimUpload(h)
          PROVE  A
      BY <2>2 DEF ClaimUpload
    <2>3. ASSUME NEW h \in Handlers, MarkFailed(h)
          PROVE  A
      BY <2>3, <1>1 DEF MarkFailed, Inv, TypeOK, Row
    <2>4. CASE Remove
      BY <2>4, <1>1 DEF Remove, Inv, TypeOK, Row
    <2>5. QED
      BY <1>1, <2>1, <2>2, <2>3, <2>4
      DEF Next, vars, BeginUpload, RemoveSuperseded, SignUrl, AnswerAtOnce, BeginComplete,
          HeadObject, DropRejected, HandlerFails, PutObject, UrlExpires
  <1>2. QED
    BY <1>1, UploadInvariance, PTL DEF Spec, CompletedAsDeclared

\* The row of a READY document changes only by its deletion, that of a deleted
\* document never.
THEOREM SettledRowsStay == Spec => SettledRowsKept
  <1> DEFINE A == /\ doc.status = "READY" => doc' \in {doc, [doc EXCEPT !.status = "DELETED"]}
                  /\ doc.status = "DELETED" => doc' = doc
  <1>1. ASSUME [Next]_vars
        PROVE  [A]_vars
    <2>1. ASSUME NEW h \in Handlers, MarkReady(h) \/ MarkFailed(h)
          PROVE  A
      BY <2>1 DEF MarkReady, MarkFailed, StillUploading
    <2>2. ASSUME NEW h \in Handlers, ClaimUpload(h)
          PROVE  A
      BY <2>2 DEF ClaimUpload, Uploadable
    <2>3. CASE Remove
      BY <2>3 DEF Remove
    <2>4. QED
      BY <1>1, <2>1, <2>2, <2>3
      DEF Next, vars, BeginUpload, RemoveSuperseded, SignUrl, AnswerAtOnce, BeginComplete,
          HeadObject, DropRejected, HandlerFails, PutObject, UrlExpires
  <1>2. QED
    BY <1>1, PTL DEF Spec, SettledRowsKept

=============================================================================

----------------------------- MODULE FolderTree -----------------------------
(***************************************************************************)
(* The folder hierarchy of one user (FoldersService) and the placement of  *)
(* documents in it (DocumentsService.create and update).  Every query is   *)
(* scoped by the user, so users do not interact.  Folder mutations run in  *)
(* a transaction under the advisory lock of the user, one query per step;  *)
(* documents are placed without that lock.  The writes of a transaction    *)
(* appear when it commits.                                                 *)
(***************************************************************************)
EXTENDS Naturals, FiniteSets

CONSTANTS
    Folders,            \* folder ids the database can generate
    NoFolder,           \* NULL: the root
    Docs,
    Handlers,           \* concurrent requests of the user
    NoHandler,
    MaxFolderDepth,     \* MAX_FOLDER_DEPTH
    RecursionLimit      \* RECURSION_LIMIT of the recursive queries

ASSUME FolderAssumption ==
    /\ NoFolder \notin Folders
    /\ NoHandler \notin Handlers
    /\ MaxFolderDepth \in Nat \ {0}
    /\ RecursionLimit \in Nat /\ RecursionLimit > MaxFolderDepth

VARIABLES
    folders,    \* rows of `folders`
    parent,     \* parent_id of each row (NoFolder for an id without a row)
    folderOf,   \* folder_id of each document
    used,       \* ids generated so far
    lock,       \* holder of the advisory lock of the user
    handlers

vars == <<folders, parent, folderOf, used, lock, handlers>>

\* id is the folder (or the document) of the request, target its new parent,
\* current the parent as read, depth the length of the chain of the target.
Handler ==
    [ pc      : {"idle", "lock", "check", "insert", "read", "chain", "height",
                 "move", "delete", "place"},
      op      : {"create", "update", "remove", "place"},
      id      : Folders \union Docs \union {NoFolder},
      target  : Folders \union {NoFolder},
      current : Folders \union {NoFolder},
      depth   : Nat ]

IdleHandler ==
    [pc |-> "idle", op |-> "create", id |-> NoFolder, target |-> NoFolder,
     current |-> NoFolder, depth |-> 0]

Init ==
    /\ folders = {}
    /\ parent = [f \in Folders |-> NoFolder]
    /\ folderOf = [d \in Docs |-> NoFolder]
    /\ used = {}
    /\ lock = NoHandler
    /\ handlers = [h \in Handlers |-> IdleHandler]

-----------------------------------------------------------------------------
(* The recursive queries *)

\* The ancestor of f at each distance; NoFolder beyond the root, or when f
\* has no row.
Ancestor(par, f) ==
    LET up[n \in 0..RecursionLimit] ==
            IF n = 0 THEN f
            ELSE IF up[n - 1] = NoFolder THEN NoFolder ELSE par[up[n - 1]]
    IN  up

\* ancestorChain: f and its ancestors; empty when f has no row.
AncestorChain(f) ==
    IF f \in folders
    THEN {n \in 0..(RecursionLimit - 1) : Ancestor(parent, f)[n] # NoFolder}
    ELSE {}

InChain(g, f) == \E n \in AncestorChain(f) : Ancestor(parent, f)[n] = g

\* subtreeHeight: the folder alone has height 1.
SubtreeHeight(f) ==
    LET levels == {n \in 0..(RecursionLimit - 1) :
                      \E g \in folders : Ancestor(parent, g)[n] = f}
    IN  Cardinality(levels)

-----------------------------------------------------------------------------
(* Requests *)

Begin(h, r) ==
    /\ handlers[h].pc = "idle"
    /\ handlers' = [handlers EXCEPT ![h] = r]
    /\ UNCHANGED <<folders, parent, folderOf, used, lock>>

BeginCreate(h, p) ==
    Begin(h, [IdleHandler EXCEPT !.pc = "lock", !.target = p])

BeginUpdate(h, f, p) ==
    Begin(h, [IdleHandler EXCEPT !.pc = "lock", !.op = "update", !.id = f, !.target = p])

BeginRemove(h, f) ==
    Begin(h, [IdleHandler EXCEPT !.pc = "lock", !.op = "remove", !.id = f])

\* Mutant: the lock does not exclude.
LockShared(h) ==
    /\ handlers[h].pc = "lock"
    /\ lock' = h
    /\ handlers' = [handlers EXCEPT ![h].pc =
                       IF handlers[h].op = "create" THEN "check" ELSE "read"]
    /\ UNCHANGED <<folders, parent, folderOf, used>>

LockUserHierarchy(h) ==
    /\ handlers[h].pc = "lock"
    /\ lock = NoHandler
    /\ lock' = h
    /\ handlers' = [handlers EXCEPT ![h].pc =
                       IF handlers[h].op = "create" THEN "check" ELSE "read"]
    /\ UNCHANGED <<folders, parent, folderOf, used>>

\* Commit or rollback; the advisory lock goes with the transaction.
EndTransaction(h) ==
    /\ lock' = NoHandler
    /\ handlers' = [handlers EXCEPT ![h] = IdleHandler]

\* The transaction goes on at pc when ok holds and is rolled back otherwise.
Proceed(h, ok, r) ==
    IF ok
    THEN handlers' = [handlers EXCEPT ![h] = r] /\ UNCHANGED lock
    ELSE EndTransaction(h)

\* create: the parent exists and leaves room for one more level.
CheckCreate(h) ==
    LET p     == handlers[h].target
        chain == Cardinality(AncestorChain(p))
    IN  /\ handlers[h].pc = "check"
        /\ Proceed(h, p = NoFolder \/ (chain > 0 /\ chain + 1 <= MaxFolderDepth),
                   [handlers[h] EXCEPT !.pc = "insert"])
        /\ UNCHANGED <<folders, parent, folderOf, used>>

InsertFolder(h, f) ==
    LET p == handlers[h].target
    IN  /\ handlers[h].pc = "insert"
        /\ f \notin used
        /\ used' = used \union {f}
        /\ IF p = NoFolder \/ p \in folders      \* the foreign key
           THEN /\ folders' = folders \union {f}
                /\ parent' = [parent EXCEPT ![f] = p]
           ELSE UNCHANGED <<folders, parent>>
        /\ EndTransaction(h)
        /\ UNCHANGED folderOf

\* getOwned of update and remove.  An update that keeps the parent only
\* renames; a folder cannot be its own parent.
ReadFolder(h) ==
    LET f == handlers[h].id
        p == handlers[h].target
    IN  /\ handlers[h].pc = "read"
        /\ IF handlers[h].op = "remove"
           THEN Proceed(h, f \in folders,
                        [handlers[h] EXCEPT !.pc = "delete", !.current = parent[f]])
           ELSE Proceed(h, f \in folders /\ p # parent[f] /\ p # f,
                        [handlers[h] EXCEPT !.pc = "chain"])
        /\ UNCHANGED <<folders, parent, folderOf, used>>

\* Mutant: the levels above the target are counted from zero.
ReadChainFromZero(h) ==
    LET f == handlers[h].id
        p == handlers[h].target
    IN  /\ handlers[h].pc = "chain"
        /\ Proceed(h, p = NoFolder \/ (p \in folders /\ ~InChain(f, p)),
                   [handlers[h] EXCEPT !.pc = "height",
                                       !.depth = Cardinality(AncestorChain(p)) - 1])
        /\ UNCHANGED <<folders, parent, folderOf, used>>

\* assertValidMove: the new parent exists and is not below the folder ...
ReadChain(h) ==
    LET f == handlers[h].id
        p == handlers[h].target
    IN  /\ handlers[h].pc = "chain"
        /\ Proceed(h, p = NoFolder \/ (p \in folders /\ ~InChain(f, p)),
                   [handlers[h] EXCEPT !.pc = "height",
                                       !.depth = Cardinality(AncestorChain(p))])
        /\ UNCHANGED <<folders, parent, folderOf, used>>

\* ... and the subtree fits below it.
ReadHeight(h) ==
    /\ handlers[h].pc = "height"
    /\ Proceed(h, handlers[h].depth + SubtreeHeight(handlers[h].id) <= MaxFolderDepth,
               [handlers[h] EXCEPT !.pc = "move"])
    /\ UNCHANGED <<folders, parent, folderOf, used>>

MoveFolder(h) ==
    LET f == handlers[h].id
        p == handlers[h].target
    IN  /\ handlers[h].pc = "move"
        /\ parent' = IF f \in folders /\ (p = NoFolder \/ p \in folders)
                     THEN [parent EXCEPT ![f] = p] ELSE parent
        /\ EndTransaction(h)
        /\ UNCHANGED <<folders, folderOf, used>>

\* Mutant: the children of a deleted folder move to the root.
DeleteFolderToRoot(h) ==
    LET f == handlers[h].id
    IN  /\ handlers[h].pc = "delete"
        /\ IF f \in folders
           THEN /\ folders' = folders \ {f}
                /\ parent' = [g \in Folders |->
                                 IF g = f \/ parent[g] = f THEN NoFolder ELSE parent[g]]
                /\ folderOf' = [d \in Docs |->
                                   IF folderOf[d] = f THEN NoFolder ELSE folderOf[d]]
           ELSE UNCHANGED <<folders, parent, folderOf>>
        /\ EndTransaction(h)
        /\ UNCHANGED used

\* remove: documents to the root, children to the parent as read, the row
\* goes.  A document placed after the first statement is moved by the
\* foreign key (ON DELETE SET NULL).
DeleteFolder(h) ==
    LET f == handlers[h].id
    IN  /\ handlers[h].pc = "delete"
        /\ IF f \in folders
           THEN /\ folders' = folders \ {f}
                /\ parent' = [g \in Folders |->
                                 IF g = f THEN NoFolder
                                 ELSE IF parent[g] = f THEN handlers[h].current
                                 ELSE parent[g]]
                /\ folderOf' = [d \in Docs |->
                                   IF folderOf[d] = f THEN NoFolder ELSE folderOf[d]]
           ELSE UNCHANGED <<folders, parent, folderOf>>
        /\ EndTransaction(h)
        /\ UNCHANGED used

\* A query throws, the transaction times out or the API process dies.
Abort(h) ==
    /\ handlers[h].pc # "idle"
    /\ handlers' = [handlers EXCEPT ![h] = IdleHandler]
    /\ lock' = IF lock = h THEN NoHandler ELSE lock
    /\ UNCHANGED <<folders, parent, folderOf, used>>

-----------------------------------------------------------------------------
(* Documents *)

\* create and update of a document look the folder up first ...
BeginPlace(h, d, f) ==
    /\ f \in folders \union {NoFolder}
    /\ Begin(h, [IdleHandler EXCEPT !.pc = "place", !.op = "place", !.id = d, !.target = f])

\* Mutant: no foreign key between documents and folders.
PlaceDocumentUnchecked(h) ==
    /\ handlers[h].pc = "place"
    /\ folderOf' = [folderOf EXCEPT ![handlers[h].id] = handlers[h].target]
    /\ handlers' = [handlers EXCEPT ![h] = IdleHandler]
    /\ UNCHANGED <<folders, parent, used, lock>>

\* ... and write it later; the foreign key refuses a folder that is gone.
PlaceDocument(h) ==
    LET f == handlers[h].target
    IN  /\ handlers[h].pc = "place"
        /\ folderOf' = IF f \in folders \union {NoFolder}
                       THEN [folderOf EXCEPT ![handlers[h].id] = f] ELSE folderOf
        /\ handlers' = [handlers EXCEPT ![h] = IdleHandler]
        /\ UNCHANGED <<folders, parent, used, lock>>

-----------------------------------------------------------------------------

HandlerStep(h) ==
    \/ LockUserHierarchy(h)
    \/ CheckCreate(h) \/ \E f \in Folders : InsertFolder(h, f)
    \/ ReadFolder(h) \/ ReadChain(h) \/ ReadHeight(h) \/ MoveFolder(h)
    \/ DeleteFolder(h)
    \/ PlaceDocument(h)

Next ==
    \E h \in Handlers :
        \/ \E p \in used \union {NoFolder} :
              \/ BeginCreate(h, p)
              \/ \E f \in used : BeginUpdate(h, f, p)
              \/ \E d \in Docs : BeginPlace(h, d, p)
        \/ \E f \in used : BeginRemove(h, f)
        \/ HandlerStep(h)
        \/ Abort(h)

Spec == Init /\ [][Next]_vars

-----------------------------------------------------------------------------
(* Properties *)

\* Every variable holds what the code can put into it; the depth of a target, read
\* before the height of the subtree, is a number of levels.
TypeOK ==
    /\ folders \subseteq used /\ used \subseteq Folders
    /\ parent \in [Folders -> Folders \union {NoFolder}]
    /\ folderOf \in [Docs -> Folders \union {NoFolder}]
    /\ lock \in Handlers \union {NoHandler}
    /\ handlers \in [Handlers -> Handler]

\* Every folder reaches the root within MaxFolderDepth levels, so there is no
\* cycle, whatever moves, creations and deletions run concurrently.
DepthBounded ==
    \A f \in folders : Ancestor(parent, f)[MaxFolderDepth] = NoFolder

\* No folder and no document refers to a folder that was deleted while it was
\* being moved, created or placed.
NothingDangles ==
    /\ \A f \in folders : parent[f] \in folders \union {NoFolder}
    /\ \A d \in Docs : folderOf[d] \in folders \union {NoFolder}

Below(par, g, f) == \E n \in 1..RecursionLimit : Ancestor(par, g)[n] = f

\* Deleting a folder leaves the rest of the hierarchy as it was: of the folders
\* that stay, those below each other before are below each other after, and a
\* document stays where it is unless its folder is the one deleted.
DeletionKeepsOrder ==
    [][folders' # folders /\ folders' \subseteq folders =>
          /\ \A f, g \in folders' : Below(parent, g, f) <=> Below(parent', g, f)
          /\ \A d \in Docs : folderOf[d] \in folders' => folderOf'[d] = folderOf[d]]_vars

=============================================================================

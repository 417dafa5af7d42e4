-------------------------- MODULE MCDocumentUpload --------------------------
(* Small instances of DocumentUpload for TLC. *)
EXTENDS DocumentUpload, TLC

CONSTANTS pdf, e1, e2

\* Two files of one size and type.
PdfBodies ==
    { [size |-> 1, type |-> pdf, etag |-> e1],
      [size |-> 1, type |-> pdf, etag |-> e2] }

\* Two files that fit a declaration, of different sizes, and, for a store that
\* does not enforce the signed headers, one of no known type or etag.
MixedBodies ==
    { [size |-> 1, type |-> pdf, etag |-> e1],
      [size |-> 2, type |-> pdf, etag |-> e2],
      [size |-> 2, type |-> NoType, etag |-> NoEtag] }

UploadSymmetry == Permutations(Handlers) \union Permutations(Keys)
=============================================================================

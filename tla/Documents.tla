----------------------------- MODULE Documents -----------------------------
(***************************************************************************)
(* services/document-service: uploads (ingest.py) and deletions (main.py)  *)
(* of documents, which live in two stores without a common transaction:    *)
(* the file in MinIO, the document and chunk rows in PostgreSQL.  A handler *)
(* is split at its awaits, and it ends at any of them when its process is  *)
(* killed.  Both stores are external: a call may fail, and a call that     *)
(* fails may have taken effect.                                            *)
(***************************************************************************)
EXTENDS Chunker

CONSTANTS
    Uploads,    \* upload requests; each makes its own uuid, the document's id
    Deletes,    \* delete requests
    Texts       \* the texts of the files

ASSUME TextsAreStrings == Texts \subseteq Str

VARIABLES
    upload,     \* where the handler of each upload is, or how it ended
    delete,     \* the same for each delete
    target,     \* the document each delete names
    text,       \* the text of each upload's file
    objects,    \* MinIO: the documents whose file is stored
    documents,  \* PostgreSQL: the ids in table documents
    chunks      \* PostgreSQL: the rows of document_chunks, by document and index

vars == <<upload, delete, target, text, objects, documents, chunks>>

UploadStates == {"new", "stored", "embedded", "committed", "done", "failed", "lost"}
DeleteStates == {"new", "found", "removed", "deleted", "not_found", "failed", "lost"}

DocTypeOK ==
    /\ upload \in [Uploads -> UploadStates]
    /\ delete \in [Deletes -> DeleteStates]
    /\ target \in [Deletes -> Uploads]
    /\ text \in [Uploads -> Texts]
    /\ objects \subseteq Uploads
    /\ documents \subseteq Uploads
    /\ DOMAIN chunks = Uploads

Init ==
    /\ upload = [u \in Uploads |-> "new"]
    /\ delete = [d \in Deletes |-> "new"]
    /\ target \in [Deletes -> Uploads]
    /\ text \in [Uploads -> Texts]
    /\ objects = {} /\ documents = {}
    /\ chunks = [u \in Uploads |-> <<>>]

(***************************************************************************)
(* Upload                                                                  *)
(***************************************************************************)
UploadMoves(u, from, to) ==
    /\ upload[u] = from
    /\ upload' = [upload EXCEPT ![u] = to]
    /\ UNCHANGED <<delete, target, text>>

\* Slip: a failed put is only logged.
PutObject_Swallows(u) ==
    /\ UploadMoves(u, "new", "stored")
    /\ objects' \in {objects, objects \union {u}}
    /\ UNCHANGED <<documents, chunks>>

\* 1. The raw file goes to MinIO, under a key with the new id; the text is
\* extracted and chunked before the next await.
PutObject(u) ==
    /\ UploadMoves(u, "new", "stored")
    /\ objects' = objects \union {u}
    /\ UNCHANGED <<documents, chunks>>

PutFails(u) ==
    /\ UploadMoves(u, "new", "failed")
    /\ objects' \in {objects, objects \union {u}}
    /\ UNCHANGED <<documents, chunks>>

\* 4. Embeddings; an unreachable endpoint is replaced by the hash fallback.
Embed(u) ==
    /\ UploadMoves(u, "stored", "embedded")
    /\ UNCHANGED <<objects, documents, chunks>>

\* A reply of the endpoint that is not JSON raises.
EmbedFails(u) ==
    /\ UploadMoves(u, "stored", "failed")
    /\ UNCHANGED <<objects, documents, chunks>>

\* 5. One transaction with the document and all its chunks.
Insert(u) ==
    /\ documents' = documents \union {u}
    /\ chunks' = [chunks EXCEPT ![u] = ChunkText(text[u])]

Commit(u) ==
    /\ UploadMoves(u, "embedded", "committed")
    /\ Insert(u)
    /\ UNCHANGED objects

CommitFails(u) ==
    /\ UploadMoves(u, "embedded", "failed")
    /\ Insert(u) \/ UNCHANGED <<documents, chunks>>
    /\ UNCHANGED objects

\* Slip: the document is merged into the session instead, which inserts it
\* again when it is gone.
Refresh_Merges(u) ==
    /\ UploadMoves(u, "committed", "done")
    /\ Insert(u)
    /\ UNCHANGED objects

\* The document is read back for the response.
Refresh(u) ==
    /\ u \in documents
    /\ UploadMoves(u, "committed", "done")
    /\ UNCHANGED <<objects, documents, chunks>>

\* The read fails, always so when the document has been deleted meanwhile: the
\* client gets an error for a document that was stored.
RefreshFails(u) ==
    /\ UploadMoves(u, "committed", "failed")
    /\ UNCHANGED <<objects, documents, chunks>>

UploadLost(u) ==
    /\ \E from \in {"new", "stored", "embedded", "committed"} : UploadMoves(u, from, "lost")
    /\ UNCHANGED <<objects, documents, chunks>>

(***************************************************************************)
(* Delete                                                                  *)
(***************************************************************************)
DeleteMoves(d, from, to) ==
    /\ delete[d] = from
    /\ delete' = [delete EXCEPT ![d] = to]
    /\ UNCHANGED <<upload, target, text>>

FindDocument(d) ==
    /\ DeleteMoves(d, "new", IF target[d] \in documents THEN "found" ELSE "not_found")
    /\ UNCHANGED <<objects, documents, chunks>>

\* Best effort: an exception of MinIO is passed over.
RemoveObject(d) ==
    /\ DeleteMoves(d, "found", "removed")
    /\ objects' \in {objects, objects \ {target[d]}}
    /\ UNCHANGED <<documents, chunks>>

\* Slip: the chunk rows are not deleted with their document.
DeleteRows_NoCascade(u) ==
    /\ documents' = documents \ {u}
    /\ chunks' = chunks

\* The document's row and, by the cascade, its chunks.
DeleteRows(u) ==
    /\ documents' = documents \ {u}
    /\ chunks' = [chunks EXCEPT ![u] = <<>>]

\* Also when another delete has removed the rows first: SQLAlchemy only warns.
CommitDelete(d) ==
    /\ DeleteMoves(d, "removed", "deleted")
    /\ DeleteRows(target[d])
    /\ UNCHANGED objects

\* The commit raises, or the process dies before it answered.
CommitDeleteFails(d) ==
    /\ DeleteMoves(d, "removed", "failed")
    /\ DeleteRows(target[d]) \/ UNCHANGED <<documents, chunks>>
    /\ UNCHANGED objects

DeleteLost(d) ==
    /\ \E from \in {"new", "found"} : DeleteMoves(d, from, "lost")
    /\ UNCHANGED <<objects, documents, chunks>>

Next ==
    \/ \E u \in Uploads :
          \/ PutObject(u)
          \/ PutFails(u)
          \/ Embed(u)
          \/ EmbedFails(u)
          \/ Commit(u)
          \/ CommitFails(u)
          \/ Refresh(u)
          \/ RefreshFails(u)
          \/ UploadLost(u)
    \/ \E d \in Deletes :
          \/ FindDocument(d)
          \/ RemoveObject(d)
          \/ CommitDelete(d)
          \/ CommitDeleteFails(d)
          \/ DeleteLost(d)

Spec == Init /\ [][Next]_vars

(***************************************************************************)
(* Properties                                                              *)
(***************************************************************************)
\* The deletes of u that have asked MinIO to remove its file.
Removing(u) == {d \in Deletes : target[d] = u /\ delete[d] \in {"removed", "deleted", "failed"}}

\* Whatever fails, dies or overlaps, the database holds a document with all of
\* its chunks or nothing of it (one transaction in ingest, the cascade in
\* models.py): search never finds half a document or chunks of a deleted one.
RowsWhole == \A u \in Uploads : chunks[u] = IF u \in documents THEN ChunkText(text[u]) ELSE <<>>

\* A document that is listed has its file, unless a delete has got as far as
\* MinIO: the upload stores the file first, and only a delete that then fails
\* can leave a document without it.
FileBehindRow == \A u \in documents : u \in objects \/ Removing(u) # {}

\* An upload that was answered with success stays, file and rows, until
\* somebody's delete reaches MinIO.
Durable ==
    \A u \in Uploads : upload[u] = "done" /\ Removing(u) = {} => u \in objects \intersect documents

\* Once a delete has been answered with success the document never comes back,
\* although its upload may still be running (it was listed before it answered).
DeletedIsGone == \A d \in Deletes : delete[d] = "deleted" => target[d] \notin documents

\* Search loses and reorders nothing: the chunks of every document in the
\* database, read one after the other, show all letters of its text, each for the
\* first time in the text's order, whichever separators split it (ingest.py,
\* _recursive_split on all four levels).
TextSearchable == \A u \in documents : Spells(chunks[u], text[u])

\* No chunk exceeds the chunk size by more than one overlap and its space per
\* level of separators: the overlaps of nested splits add up.
ChunksBounded ==
    \A u \in documents : \A i \in DOMAIN chunks[u] :
       Len(chunks[u][i]) <= ChunkSize + Len(Separators) * (Overlap + 1)

\* tests/unit/test_ingest.py:44, "No chunk exceeds chunk_size + overlap".
ChunksWithinLimit ==
    \A u \in documents : \A i \in DOMAIN chunks[u] :
       Len(chunks[u][i]) <= ChunkSize + Overlap
=============================================================================

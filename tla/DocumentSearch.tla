--------------------------- MODULE DocumentSearch ---------------------------
(***************************************************************************)
(* The full-text index of documents (services/search.py, tasks/search.py), *)
(* kept up to date by tasks that are queued after an upload, after a       *)
(* document has been given another type (services/documents.py) and run at *)
(* the end of a virus scan (tasks/document_scanning.py).                   *)
(*                                                                         *)
(* An indexing reads the document without a lock, extracts its text and    *)
(* writes the entry; it may be overtaken by a change of the document, by   *)
(* another indexing, or be lost with its worker.  The text of a document   *)
(* never changes, so that its type stands for all the words it has.        *)
(***************************************************************************)
EXTENDS Naturals, FiniteSets

CONSTANTS
    SearchDocs,     \* documents
    WordTypes,      \* document types
    NoEntry,        \* a document without an index entry
    IndexTasks,     \* workers that run indexing tasks
    Searchers,      \* users: [id, role]; the manager of the documents is "m"
    SearchLimit,    \* limit of a search, 20 in the code
    MaxQueued,      \* bound: indexing messages at a time
    MaxRetypes      \* bound: changes of type

ASSUME SearchAssumption ==
    /\ IsFiniteSet(SearchDocs) /\ SearchLimit \in Nat \ {0} /\ MaxQueued \in Nat

VARIABLES
    docRow,         \* [uploaded documents -> type, is_deleted, scan_status]
    entry,          \* [SearchDocs -> type the indexed words are from, or NoEntry]
    queued,         \* bag of indexing messages: [SearchDocs -> count]
    scanDue,        \* documents whose scan is to come
    indexJob,
    members,        \* ids of the members of the sub-project
    retypes,        \* changes of type so far
    lost,           \* history: documents an indexing was lost for
    late            \* history: documents written from an outdated reading

searchVars == <<docRow, entry, queued, scanDue, indexJob, members, retypes, lost, late>>

NoIndexJob == [at |-> "idle"]
IndexWrite(s, j) == indexJob' = [indexJob EXCEPT ![s] = j]
IndexSame == UNCHANGED <<docRow, members, retypes, scanDue>>
Uploaded == DOMAIN docRow

-----------------------------------------------------------------------------
(* Documents *)

\* _enqueue_search_index: a broker that does not answer is only logged.
Enqueue(d) ==
    \/ /\ queued[d] < MaxQueued
       /\ queued' = [queued EXCEPT ![d] = @ + 1] /\ UNCHANGED lost
    \/ lost' = lost \cup {d} /\ UNCHANGED queued

UploadDocument(d, t) ==
    /\ d \notin Uploaded
    /\ docRow' = [x \in Uploaded \cup {d} |->
          IF x = d THEN [type |-> t, is_deleted |-> FALSE, scan_status |-> "pending"]
          ELSE docRow[x]]
    /\ scanDue' = scanDue \cup {d}
    /\ Enqueue(d)
    /\ UNCHANGED <<entry, indexJob, members, retypes, late>>

\* Mutant of _move_document_to_doc_type: the index is not told.
MoveWithoutIndex(d, t) ==
    /\ d \in Uploaded /\ ~docRow[d].is_deleted /\ docRow[d].type # t
    /\ retypes < MaxRetypes /\ retypes' = retypes + 1
    /\ docRow' = [docRow EXCEPT ![d].type = t]
    /\ UNCHANGED <<entry, queued, scanDue, indexJob, members, lost, late>>

\* confirm_document_type of a current document.
_move_document_to_doc_type(d, t) ==
    /\ d \in Uploaded /\ ~docRow[d].is_deleted /\ docRow[d].type # t
    /\ retypes < MaxRetypes /\ retypes' = retypes + 1
    /\ docRow' = [docRow EXCEPT ![d].type = t]
    /\ Enqueue(d)
    /\ UNCHANGED <<entry, scanDue, indexJob, members, late>>

\* A deletion leaves the entry where it is.
DeleteDocument(d) ==
    /\ d \in Uploaded /\ ~docRow[d].is_deleted
    /\ docRow' = [docRow EXCEPT ![d].is_deleted = TRUE]
    /\ UNCHANGED <<entry, queued, scanDue, indexJob, members, retypes, lost, late>>

\* scan_document; the indexing follows in the same task, unless the scan's
\* notifications raise.
ScanDocument(s, d, result) ==
    /\ indexJob[s] = NoIndexJob /\ d \in scanDue
    /\ docRow' = [docRow EXCEPT ![d].scan_status = result]
    /\ scanDue' = scanDue \ {d}
    /\ IndexWrite(s, [at |-> "read", doc |-> d])
    /\ UNCHANGED <<entry, queued, members, retypes, lost, late>>

MembersChange(u) ==
    /\ u.role = "proj_member"
    /\ members' = IF u.id \in members THEN members \ {u.id} ELSE members \cup {u.id}
    /\ UNCHANGED <<docRow, entry, queued, scanDue, indexJob, retypes, lost, late>>

-----------------------------------------------------------------------------
(* index_document *)

TakeMessage(s, d) ==
    /\ indexJob[s] = NoIndexJob /\ queued[d] > 0
    /\ queued' = [queued EXCEPT ![d] = @ - 1]
    /\ IndexWrite(s, [at |-> "read", doc |-> d])
    /\ IndexSame /\ UNCHANGED <<entry, lost, late>>

Indexable(row) == ~row.is_deleted /\ row.scan_status = "clean"

\* The document is read, and with it whether it has an entry.
IndexRead(s) ==
    LET d == indexJob[s].doc
    IN  /\ indexJob[s].at = "read"
        /\ IndexWrite(s, [at |-> "write", doc |-> d, row |-> docRow[d],
                          found |-> entry[d] # NoEntry])
        /\ IndexSame /\ UNCHANGED <<entry, queued, lost, late>>

\* upsert_entry, or delete_entry_for_document.  An UPDATE of a row that is
\* gone and an INSERT of one that is there fail.
IndexCommit(s) ==
    LET j == indexJob[s]
    IN  /\ j.at = "write"
        /\ IF Indexable(j.row)
           THEN /\ j.found = (entry[j.doc] # NoEntry)
                /\ entry' = [entry EXCEPT ![j.doc] = j.row.type]
           ELSE entry' = [entry EXCEPT ![j.doc] = NoEntry]
        /\ late' = IF j.row = docRow[j.doc] THEN late \ {j.doc} ELSE late \cup {j.doc}
        /\ IndexWrite(s, NoIndexJob)
        /\ IndexSame /\ UNCHANGED <<queued, lost>>

\* The text cannot be extracted: an entry with status failed, without words.
IndexFails(s) ==
    LET j == indexJob[s]
    IN  /\ j.at = "write" /\ Indexable(j.row)
        /\ j.found = (entry[j.doc] # NoEntry)
        /\ entry' = [entry EXCEPT ![j.doc] = "failed"]
        /\ lost' = lost \cup {j.doc}
        /\ IndexWrite(s, NoIndexJob)
        /\ IndexSame /\ UNCHANGED <<queued, late>>

\* A collision, an exception in the scan's notifications, a worker that stops:
\* the message was acknowledged when it was taken.
IndexDies(s) ==
    /\ indexJob[s] # NoIndexJob
    /\ lost' = lost \cup {indexJob[s].doc}
    /\ IndexWrite(s, NoIndexJob)
    /\ IndexSame /\ UNCHANGED <<entry, queued, late>>

-----------------------------------------------------------------------------
(* search_documents *)

SEARCH_VIEW_ALL_ROLES == {"admin", "dept_manager", "finance_manager"}

CanSee(u) == u.role \in SEARCH_VIEW_ALL_ROLES \/ u.id = "m" \/ u.id \in members

Hits(u, word) ==
    {d \in Uploaded : entry[d] = word /\ Indexable(docRow[d]) /\ CanSee(u)}

\* The answers there may be: as many of the matches as the limit lets through,
\* those of the highest rank.  Any of them may have it, since the text is left
\* out.
search_entries(u, word) ==
    {answer \in SUBSET Hits(u, word) :
        \/ answer = Hits(u, word) /\ Cardinality(answer) <= SearchLimit
        \/ Cardinality(answer) = SearchLimit}

-----------------------------------------------------------------------------

SearchInit ==
    /\ docRow = <<>>
    /\ entry = [d \in SearchDocs |-> NoEntry]
    /\ queued = [d \in SearchDocs |-> 0]
    /\ scanDue = {}
    /\ indexJob = [s \in IndexTasks |-> NoIndexJob]
    /\ members = {} /\ retypes = 0 /\ lost = {} /\ late = {}

SearchNext ==
    \/ \E d \in SearchDocs :
          \/ \E t \in WordTypes : UploadDocument(d, t) \/ _move_document_to_doc_type(d, t)
          \/ DeleteDocument(d)
          \/ \E s \in IndexTasks :
                TakeMessage(s, d) \/ \E r \in {"clean", "infected", "failed"} : ScanDocument(s, d, r)
    \/ \E u \in Searchers : MembersChange(u)
    \/ \E s \in IndexTasks : IndexRead(s) \/ IndexCommit(s) \/ IndexFails(s) \/ IndexDies(s)

SearchSpec == SearchInit /\ [][SearchNext]_searchVars

-----------------------------------------------------------------------------
(* Properties *)

\* Every variable keeps to its type.
SearchTypeOK ==
    /\ Uploaded \subseteq SearchDocs
    /\ entry \in [SearchDocs -> WordTypes \cup {NoEntry, "failed"}]
    /\ queued \in [SearchDocs -> 0 .. MaxQueued]
    /\ scanDue \subseteq Uploaded

\* Nothing is under way for the document, and its last indexing was neither
\* lost nor overtaken.
Settled(d) ==
    /\ queued[d] = 0 /\ d \notin scanDue \cup lost \cup late
    /\ \A s \in IndexTasks : indexJob[s] = NoIndexJob \/ indexJob[s].doc # d

\* What is found may be opened at any time, so that deleted and infected
\* documents are found by nobody.  Once all is settled a document is found
\* under its present type only, and by every user who may open it, unless the
\* search has found as many as its limit lets through.
SearchIsExact ==
    \A u \in Searchers, t \in WordTypes : \A answer \in search_entries(u, t) :
       \A d \in Uploaded :
         LET readable == Indexable(docRow[d]) /\ CanSee(u)
         IN  /\ d \in answer => readable /\ (Settled(d) => docRow[d].type = t)
             /\ Settled(d) /\ readable /\ docRow[d].type = t =>
                  d \in answer \/ Cardinality(answer) = SearchLimit
=============================================================================

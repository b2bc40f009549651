-------------------------- MODULE DocumentVersions --------------------------
(***************************************************************************)
(* The versions of the documents of one phase (services/documents.py):     *)
(* uploads, deletions and reclassifications, and the deletion of a phase's *)
(* documents when its revocation is approved                               *)
(* (services/revoke_requests.py).  Only document types with one current    *)
(* version are modelled; vouchers and quotes, of which all are current,    *)
(* are not.                                                                *)
(*                                                                         *)
(* A request finds the rows of a document type with SELECT ... FOR UPDATE. *)
(* The rows are those of the moment the statement started (Scan); it then  *)
(* waits for their locks and reads them again, keeping those that still    *)
(* match (Read), so that a row inserted meanwhile is missed.  A row the    *)
(* request had loaded before keeps the values it had then.  At the commit  *)
(* a column is written only if the request changed it from what it read.   *)
(* Uploads and reclassifications also hold an advisory lock on the type;   *)
(* deletions do not.                                                       *)
(*                                                                         *)
(* Whether the phase still accepts documents is checked without a lock     *)
(* before all this, so it does not restrict what follows and is left out.  *)
(***************************************************************************)
EXTENDS Naturals, Sequences, FiniteSets, FiniteSetsExt

CONSTANTS
  Docs,           \* rows of documents, numbered in the order of their commits
  Types,          \* document types
  DocumentSessions, \* requests that may be in flight together
  NoDoc,          \* what a request without a target document refers to
  MaxMoves        \* bound on the documents given another type

\* What a SELECT looks for: the documents of a type, or the current ones.
Current == "current"
Filters == Types \cup {Current}

ASSUME TypesAssumption == Types # {} /\ Current \notin Types
ASSUME DocsAssumption ==
  Docs \subseteq Nat /\ IsFiniteSet(Docs) /\ NoDoc \notin Docs /\ MaxMoves \in Nat

VARIABLES
  doc,            \* documents rows, a function on the ones that exist
  docSession,     \* what each request is doing, and what it has read
  moves           \* documents given another type so far

documentVars == << doc, docSession, moves >>

DocumentRows == [type : Types, version : Nat \ {0}, latest : BOOLEAN, deleted : BOOLEAN]

\* "keys" are the advisory locks held, "todo" the SELECTs still to be made,
\* "scan" the rows the running one has found, "found" the rows each of them
\* has read and locked, "seen" the values of every row loaded.
DocumentIdle(type) == [op |-> "idle", type |-> type, target |-> NoDoc, keys |-> {},
               todo |-> << >>, scanned |-> FALSE, scan |-> {},
               found |-> [f \in Filters |-> {}], seen |-> << >>]

AtRest == DocumentIdle(CHOOSE type \in Types : TRUE)

DocumentInit ==
  /\ doc = << >>
  /\ docSession = [s \in DocumentSessions |-> AtRest]
  /\ moves = 0

\* Mutant of Locked: the rows are read without FOR UPDATE.
LockedNone(s) == {}

\* The rows a request has locked.
Locked(s) == UNION {docSession[s].found[f] : f \in Filters}

LockedByOthers(s) == UNION {Locked(t) : t \in DocumentSessions \ {s}}

\* Mutant of KeyFree: no advisory lock.
KeyIgnored(s, type) == TRUE

\* lock_document_group.
KeyFree(s, type) == \A t \in DocumentSessions \ {s} : type \notin docSession[t].keys

Matching(filter) ==
  {d \in DOMAIN doc : IF filter = Current THEN doc[d].latest /\ ~ doc[d].deleted
                      ELSE doc[d].type = filter}

-----------------------------------------------------------------------------
(* The requests begin. *)

Upload(s, type) ==
  /\ docSession[s] = AtRest
  /\ KeyFree(s, type)
  /\ docSession' = [docSession EXCEPT ![s] =
       [DocumentIdle(type) EXCEPT !.op = "upload", !.keys = {type}, !.todo = << type >>]]
  /\ UNCHANGED << doc, moves >>

\* Loads the document, without a lock.
Delete(s, d) ==
  /\ docSession[s] = AtRest
  /\ d \in DOMAIN doc /\ ~ doc[d].deleted
  /\ docSession' = [docSession EXCEPT ![s] =
       [DocumentIdle(doc[d].type) EXCEPT !.op = "delete", !.target = d,
                                 !.todo = << doc[d].type >>, !.seen = [x \in {d} |-> doc[x]]]]
  /\ UNCHANGED << doc, moves >>

\* confirm_document_type: only the current document may be given another type.
Move(s, d, type) ==
  /\ docSession[s] = AtRest
  /\ d \in DOMAIN doc /\ doc[d].latest /\ ~ doc[d].deleted
  /\ type # doc[d].type
  /\ docSession' = [docSession EXCEPT ![s] =
       [DocumentIdle(type) EXCEPT !.op = "move", !.target = d,
                          !.todo = << doc[d].type, type >>, !.seen = [x \in {d} |-> doc[x]]]]
  /\ UNCHANGED << doc, moves >>

\* The advisory locks of both types, always taken in the same order.
MoveLock(s) ==
  LET types == {docSession[s].todo[i] : i \in DOMAIN docSession[s].todo}
  IN /\ docSession[s].op = "move" /\ docSession[s].keys = {}
     /\ \A type \in types : KeyFree(s, type)
     /\ docSession' = [docSession EXCEPT ![s].keys = types]
     /\ UNCHANGED << doc, moves >>

\* review_request.
Revoke(s) ==
  /\ docSession[s] = AtRest
  /\ docSession' = [docSession EXCEPT ![s] =
       [AtRest EXCEPT !.op = "revoke", !.todo = << Current >>]]
  /\ UNCHANGED << doc, moves >>

-----------------------------------------------------------------------------
(* SELECT ... FOR UPDATE. *)

Scan(s) ==
  /\ docSession[s].todo # << >> /\ ~ docSession[s].scanned
  /\ docSession[s].op = "move" => docSession[s].keys # {}
  /\ docSession' = [docSession EXCEPT ![s].scanned = TRUE, ![s].scan = Matching(Head(docSession[s].todo))]
  /\ UNCHANGED << doc, moves >>

RowsFree(s) == docSession[s].scan \cap LockedByOthers(s) = {}

Read(s) ==
  LET filter == Head(docSession[s].todo)
      found == docSession[s].scan \cap Matching(filter)
  IN /\ docSession[s].scanned
     /\ RowsFree(s)
     /\ docSession' = [docSession EXCEPT ![s].scanned = FALSE, ![s].scan = {},
                                   ![s].todo = Tail(@),
                                   ![s].found[filter] = found,
                                   ![s].seen = [d \in DOMAIN @ \cup found |->
                                                  IF d \in DOMAIN @ THEN @[d] ELSE doc[d]]]
     /\ UNCHANGED << doc, moves >>

-----------------------------------------------------------------------------
(* The requests commit. *)

Ready(s, op) == docSession[s].op = op /\ docSession[s].todo = << >>

\* Mutant of NextVersion: the first version is 0.
NextVersionFromZero(s, type) ==
  LET group == docSession[s].found[type]
  IN IF group = {} THEN 0 ELSE 1 + Max({docSession[s].seen[d].version : d \in group})

\* One more than the highest version read of a type.
NextVersion(s, type) ==
  1 + Max({0} \cup {docSession[s].seen[d].version : d \in docSession[s].found[type]})

\* Mutant of Replacement: a deleted version may come back.
ReplacementAny(s, type) ==
  LET others == docSession[s].found[type] \ {docSession[s].target}
  IN {d \in others : \A e \in others : docSession[s].seen[e].version <= docSession[s].seen[d].version}

\* The current document of a type, once the target no longer counts: the
\* highest version not deleted.
Replacement(s, type) ==
  LET live == {d \in docSession[s].found[type] \ {docSession[s].target} :
                 ~ docSession[s].seen[d].deleted}
  IN {d \in live : \A e \in live : docSession[s].seen[e].version <= docSession[s].seen[d].version}

\* What the request makes of the rows it has loaded: "current" become the
\* latest, "former" do not stay it.
Changed(s, current, former) ==
  [d \in DOMAIN docSession[s].seen |->
     [docSession[s].seen[d] EXCEPT !.latest = d \in current \/ (@ /\ d \notin former)]]

\* The UPDATE statements: a column is written where the request changed it.
Updated(s, d, new) ==
  LET old == docSession[s].seen[d]
  IN [field \in DOMAIN new |-> IF new[field] = old[field] THEN doc[d][field] ELSE new[field]]

\* Writes the rows that differ from what was read; a row someone else holds
\* is waited for.
Write(s, new, inserted) ==
  /\ \A d \in DOMAIN new : new[d] # docSession[s].seen[d] => d \notin LockedByOthers(s)
  /\ doc' = [d \in DOMAIN doc \cup DOMAIN inserted |->
               IF d \in DOMAIN new THEN Updated(s, d, new[d])
               ELSE IF d \in DOMAIN doc THEN doc[d] ELSE inserted[d]]
  /\ docSession' = [docSession EXCEPT ![s] = AtRest]

\* uq_documents_sub_project_phase_doc_version.
VersionFree(type, version, except) ==
  \A d \in DOMAIN doc \ except : ~ (doc[d].type = type /\ doc[d].version = version)

UploadCommit(s, d) ==
  LET type == docSession[s].type
      version == NextVersion(s, type)
  IN /\ Ready(s, "upload")
     /\ d = Cardinality(DOMAIN doc) + 1
     /\ VersionFree(type, version, {})
     /\ Write(s, Changed(s, {}, docSession[s].found[type]),
              [x \in {d} |-> [type |-> type, version |-> version,
                              latest |-> TRUE, deleted |-> FALSE]])
     /\ UNCHANGED moves

DeleteCommit(s) ==
  LET d == docSession[s].target
      others == Changed(s, Replacement(s, docSession[s].type), {d})
  IN /\ Ready(s, "delete")
     /\ Write(s, [others EXCEPT ![d].deleted = TRUE], << >>)
     /\ UNCHANGED moves

MoveCommit(s) ==
  LET d == docSession[s].target
      type == docSession[s].type
      version == NextVersion(s, type)
      others == Changed(s, {d} \cup Replacement(s, docSession[s].seen[d].type), docSession[s].found[type])
      new == [others[d] EXCEPT !.type = type, !.version = version]
  IN /\ Ready(s, "move")
     /\ moves < MaxMoves
     /\ VersionFree(type, Updated(s, d, new).version, {d})
     /\ Write(s, [others EXCEPT ![d] = new], << >>)
     /\ moves' = moves + 1

\* keep_documents was not asked for.
RevokeCommit(s) ==
  /\ Ready(s, "revoke")
  /\ Write(s, [d \in DOMAIN docSession[s].seen |-> [docSession[s].seen[d] EXCEPT !.deleted = TRUE]],
           << >>)
  /\ UNCHANGED moves

\* A permission or a check denied, a lost connection, a broken deadlock.
DocumentRollback(s) ==
  /\ docSession[s] # AtRest
  /\ docSession' = [docSession EXCEPT ![s] = AtRest]
  /\ UNCHANGED << doc, moves >>

DocumentNext == \E s \in DocumentSessions :
  \/ \E type \in Types : Upload(s, type) \/ \E d \in Docs : Move(s, d, type)
  \/ \E d \in Docs : Delete(s, d) \/ UploadCommit(s, d)
  \/ MoveLock(s) \/ Revoke(s) \/ Scan(s) \/ Read(s)
  \/ DeleteCommit(s) \/ MoveCommit(s) \/ RevokeCommit(s) \/ DocumentRollback(s)

DocumentSpec == DocumentInit /\ [][DocumentNext]_documentVars

-----------------------------------------------------------------------------
(* Properties *)

\* Every variable keeps to its type.
DocumentTypeOK ==
  /\ DOMAIN doc \subseteq Docs /\ doc \in [DOMAIN doc -> DocumentRows]
  /\ moves \in 0 .. MaxMoves
  /\ DOMAIN docSession = DocumentSessions
  /\ \A s \in DocumentSessions :
       LET r == docSession[s]
       IN /\ r.op \in {"idle", "upload", "delete", "move", "revoke"}
          /\ r.type \in Types /\ r.target \in Docs \cup {NoDoc} /\ r.keys \subseteq Types
          /\ r.todo \in Seq(Filters)
          /\ r.scanned \in BOOLEAN /\ r.scan \subseteq DOMAIN doc
          /\ r.found \in [Filters -> SUBSET DOMAIN r.seen]
          /\ DOMAIN r.seen \subseteq DOMAIN doc
          /\ r.seen \in [DOMAIN r.seen -> DocumentRows]

HasCurrent(rows, type) ==
  \E d \in DOMAIN rows : rows[d].type = type /\ rows[d].latest /\ ~ rows[d].deleted

\* The version a request is about to write is free, however uploads and
\* reclassifications of one type overlap: the unique constraint never has to
\* refuse an upload whose file is already stored.
VersionIsFree ==
  \A s \in DocumentSessions :
    /\ Ready(s, "upload") => VersionFree(docSession[s].type, NextVersion(s, docSession[s].type), {})
    /\ Ready(s, "move") => VersionFree(docSession[s].type, NextVersion(s, docSession[s].type),
                                       {docSession[s].target})

UploadSupersedes(d) ==
  \A e \in DOMAIN doc' \ {d} : doc'[e].type = doc'[d].type => ~ doc'[e].latest

\* What a deletion has not read was uploaded after its SELECT began.
Missed(s) == DOMAIN doc \ DOMAIN docSession[s].seen

DeletionKeepsCurrent(s) ==
  LET type == docSession[s].type
  IN HasCurrent(doc, type) =>
       \/ HasCurrent(doc', type)
       \/ \A e \in DOMAIN doc' : doc'[e].type = type => doc'[e].deleted
       \/ \E e \in Missed(s) : doc[e].type = type /\ doc[e].latest /\ doc[e].deleted

\* When an upload is committed its document is the only latest one of the
\* type, whatever was deleted or moved while it waited.  And deleting a
\* document never leaves its type without a current version while an
\* undeleted one is there, if it had one: as long as no document has been
\* given another type, which a deletion that waits does not notice, and
\* unless a revocation has deleted the latest of those uploaded while it
\* waited.
CurrentVersionMoves ==
  [][/\ \A d \in DOMAIN doc' \ DOMAIN doc : UploadSupersedes(d)
     /\ \A s \in DocumentSessions :
          moves = 0 /\ docSession[s].op = "delete" /\ doc' # doc /\ docSession'[s] = AtRest =>
            DeletionKeepsCurrent(s)]_documentVars

\* One current version of a type, at most: what the unique index of the first
\* schema enforced, and what the end-to-end test expects of seven uploads.  An
\* upload committed while a deletion waits for its rows breaks it.
AtMostOneCurrent ==
  \A d, e \in DOMAIN doc :
    /\ doc[d].type = doc[e].type
    /\ doc[d].latest /\ ~ doc[d].deleted
    /\ doc[e].latest /\ ~ doc[e].deleted
    => d = e

=============================================================================

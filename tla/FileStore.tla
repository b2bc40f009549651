----------------------------- MODULE FileStore -----------------------------
(***************************************************************************)
(* The files under the storage root and the rows that name them: uploads   *)
(* and their virus scan (services/documents.py, services/virus_scan.py),   *)
(* database exports and reports (services/database_exports.py,             *)
(* services/reports.py), the weekly cleanup of files                       *)
(* (services/file_cleanup.py) and the daily one of reports.                *)
(*                                                                         *)
(* A storage key is a fresh UUID, so a file is named after the document or *)
(* job it was saved for; the two files of a report are one.  Files and     *)
(* rows are not written together: a process may stop between any two       *)
(* steps.  Celery acknowledges a message when it is taken, so a message    *)
(* that is lost with its worker does not come back.                        *)
(***************************************************************************)
EXTENDS Integers, FiniteSets

CONSTANTS
    StoredDocs,       \* uploads that may happen
    ReportJobs,       \* report jobs that may be created
    ExportJobs,       \* database export jobs that may be created
    Readers,          \* sessions that download
    OrphanRetention,  \* 7 days
    DeletedRetention, \* 90 days
    ReportRetention,  \* 7 days
    LastStoreDay      \* bound: days looked at

\* An orphan is not of today, and keys are never shared.
ASSUME StoreAssumption ==
    /\ OrphanRetention \in Nat \ {0} /\ DeletedRetention \in Nat
    /\ ReportRetention \in Nat /\ LastStoreDay \in Nat
    /\ StoredDocs \cap (ReportJobs \cup ExportJobs) = {}

VARIABLES
    files,     \* [keys of files -> day of the last write]
    storedDoc, \* [StoredDocs -> upload and row of a document]
    fileJob,   \* [jobs -> row of a report or export job]
    reader,    \* [Readers -> the document a download has been allowed, or NoRead]
    cleaner,   \* the weekly cleanup
    reportCleaner,  \* jobs the daily cleanup has listed
    storeDay,
    found,     \* history: documents the scanner found infected
    exposed    \* history: documents served after that

storeVars == <<files, storedDoc, fileJob, reader, cleaner, reportCleaner, storeDay, found, exposed>>

AllJobs == ReportJobs \cup ExportJobs
DocumentScanStatus == {"pending", "clean", "infected", "failed"}

\* A document: its upload is not begun, has saved the file, has the row in
\* the database (and still has to queue or to mark the scan), or is over.
\* "gone" is an upload without a row.  `at' is updated_at, which a scan sets
\* as well as a deletion; deleted_on is a history of the latter.
Document == [upload : {"none", "saved", "row", "marking", "over", "gone"},
             is_deleted : BOOLEAN, scan : DocumentScanStatus, queued : BOOLEAN, at : Nat,
             deleted_on : Nat]
NewDocument == [upload |-> "none", is_deleted |-> FALSE, scan |-> "pending",
                queued |-> FALSE, at |-> 0, deleted_on |-> 0]
HasRow(d) == storedDoc[d].upload \in {"row", "marking", "over"}

\* DatabaseExportJob and ReportJob; "saved" is a running job that has
\* written its file.
FileJob == [status : {"none", "queued", "running", "saved", "completed", "failed"},
            key : BOOLEAN, finished_at : Nat]
NewFileJob == [status |-> "none", key |-> FALSE, finished_at |-> 0]

NoRead == [doc |-> {}, late |-> FALSE]
CleanerIdle == [at |-> "idle", old |-> {}, referenced |-> {}, targets |-> {}]

\* LocalStorageBackend.save and delete; a missing file is no error.
save(k) == files' = [f \in DOMAIN files \cup {k} |-> IF f = k THEN storeDay ELSE files[f]]
delete(k) == files' = [f \in DOMAIN files \ {k} |-> files[f]]

-----------------------------------------------------------------------------
(* Upload, scan, deletion, download *)

StoreRest == UNCHANGED <<fileJob, reader, cleaner, reportCleaner, storeDay>>
DocWrite(d, new) == storedDoc' = [storedDoc EXCEPT ![d] = new]

\* upload_document: the file is saved before the row is committed.
_save_content(d) ==
    /\ storedDoc[d].upload = "none"
    /\ save(d)
    /\ DocWrite(d, [storedDoc[d] EXCEPT !.upload = "saved"])
    /\ StoreRest /\ UNCHANGED <<found, exposed>>

StoreUpload(d) ==
    /\ storedDoc[d].upload = "saved"
    /\ DocWrite(d, [storedDoc[d] EXCEPT !.upload = "row", !.at = storeDay])
    /\ StoreRest /\ UNCHANGED <<files, found, exposed>>

\* The commit fails and the file is deleted.
_delete_saved_content(d) ==
    /\ storedDoc[d].upload = "saved"
    /\ delete(d)
    /\ DocWrite(d, [storedDoc[d] EXCEPT !.upload = "gone"])
    /\ StoreRest /\ UNCHANGED <<found, exposed>>

\* The process stops: the file has no row, or the scan is never queued.
UploadDies(d) ==
    /\ storedDoc[d].upload \in {"saved", "row", "marking"}
    /\ DocWrite(d, [storedDoc[d] EXCEPT !.upload = IF @ = "saved" THEN "gone" ELSE "over"])
    /\ StoreRest /\ UNCHANGED <<files, found, exposed>>

\* _enqueue_scan_or_mark_failed: the scan is queued; an error of the broker
\* may or may not mean that it is not, and is written to the row.
EnqueueScan(d, fails, arrives) ==
    /\ storedDoc[d].upload = "row"
    /\ ~fails => arrives
    /\ DocWrite(d, [storedDoc[d] EXCEPT !.upload = IF fails THEN "marking" ELSE "over",
                                  !.queued = arrives])
    /\ StoreRest /\ UNCHANGED <<files, found, exposed>>

MarkScanFailed(d) ==
    /\ storedDoc[d].upload = "marking"
    /\ DocWrite(d, [storedDoc[d] EXCEPT !.upload = "over", !.scan = "failed", !.at = storeDay])
    /\ StoreRest /\ UNCHANGED <<files, found, exposed>>

\* scan_document, whose row is locked: a missing file or a scanner that does
\* not answer is "failed".  Deleted documents are scanned too.
scan_document(d, result) ==
    /\ storedDoc[d].queued
    /\ d \notin DOMAIN files => result = "failed"
    /\ DocWrite(d, [storedDoc[d] EXCEPT !.queued = FALSE, !.scan = result, !.at = storeDay])
    /\ found' = IF result = "infected" THEN found \cup {d} ELSE found
    /\ StoreRest /\ UNCHANGED <<files, exposed>>

ScanLost(d) ==
    /\ storedDoc[d].queued
    /\ DocWrite(d, [storedDoc[d] EXCEPT !.queued = FALSE])
    /\ StoreRest /\ UNCHANGED <<files, found, exposed>>

\* delete_document and soft_delete_phase_documents, as far as files go.
SoftDelete(d) ==
    /\ HasRow(d) /\ ~storedDoc[d].is_deleted
    /\ DocWrite(d, [storedDoc[d] EXCEPT !.is_deleted = TRUE, !.at = storeDay,
                                  !.deleted_on = storeDay])
    /\ StoreRest /\ UNCHANGED <<files, found, exposed>>

\* Mutant of _ensure_scan_allows_access: only "infected" is refused.
AllowUnlessInfected(d) == storedDoc[d].scan # "infected"

\* A document whose scan has not answered can be read; a deleted one too.
_ensure_scan_allows_access(d) == storedDoc[d].scan \in {"clean", "pending"}

\* download_document, preview_document, preview_office_document: the row is
\* read and judged, then the file is read.
DownloadRead(s, d) ==
    /\ reader[s] = NoRead /\ HasRow(d)
    /\ _ensure_scan_allows_access(d)
    /\ reader' = [reader EXCEPT ![s] = [doc |-> {d}, late |-> d \in found]]
    /\ UNCHANGED <<files, storedDoc, fileJob, cleaner, reportCleaner, storeDay, found, exposed>>

DownloadServe(s) ==
    /\ reader[s] # NoRead
    /\ reader' = [reader EXCEPT ![s] = NoRead]
    /\ exposed' = IF reader[s].late THEN exposed \cup (reader[s].doc \cap DOMAIN files)
                  ELSE exposed
    /\ UNCHANGED <<files, storedDoc, fileJob, cleaner, reportCleaner, storeDay, found>>

-----------------------------------------------------------------------------
(* Reports and exports *)

JobRest == UNCHANGED <<storedDoc, reader, cleaner, reportCleaner, storeDay, found, exposed>>
JobWrite(j, new) == fileJob' = [fileJob EXCEPT ![j] = new]

\* create_report and create_export commit the queued job; a large report and
\* every export wait for a worker, which may never come.
CreateJob(j) ==
    /\ fileJob[j].status = "none"
    /\ JobWrite(j, [fileJob[j] EXCEPT !.status = "queued"])
    /\ JobRest /\ UNCHANGED files

JobRunning(j) ==
    /\ fileJob[j].status = "queued"
    /\ JobWrite(j, [fileJob[j] EXCEPT !.status = "running"])
    /\ JobRest /\ UNCHANGED files

JobSaves(j) ==
    /\ fileJob[j].status = "running"
    /\ save(j)
    /\ JobWrite(j, [fileJob[j] EXCEPT !.status = "saved"])
    /\ JobRest

JobCompletes(j) ==
    /\ fileJob[j].status = "saved"
    /\ JobWrite(j, [status |-> "completed", key |-> TRUE, finished_at |-> storeDay])
    /\ JobRest /\ UNCHANGED files

\* An exception; what has been saved stays, with its key.
JobFails(j) ==
    /\ fileJob[j].status \in {"running", "saved"}
    /\ JobWrite(j, [status |-> "failed", key |-> fileJob[j].status = "saved",
                    finished_at |-> storeDay])
    /\ JobRest /\ UNCHANGED files

-----------------------------------------------------------------------------
(* Cleanup *)

CleanRest == UNCHANGED <<storedDoc, fileJob, reader, reportCleaner, storeDay, found, exposed>>

\* Mutant of OldFiles: the age of a file is not looked at.
AllFilesAreOld == DOMAIN files

\* orphan_cutoff
OldFiles == {f \in DOMAIN files : files[f] + OrphanRetention <= storeDay}

list_referenced_file_paths == {d \in StoredDocs : HasRow(d)}
list_soft_deleted_documents ==
    {d \in StoredDocs : HasRow(d) /\ storedDoc[d].is_deleted /\ storedDoc[d].at + DeletedRetention <= storeDay}

\* FileCleanupService.cleanup: the files, then the rows, then the targets.
CleanupListFiles ==
    /\ cleaner.at = "idle"
    /\ cleaner' = [CleanerIdle EXCEPT !.at = "files", !.old = OldFiles]
    /\ CleanRest /\ UNCHANGED files

CleanupListRows ==
    /\ cleaner.at = "files"
    /\ cleaner' = [cleaner EXCEPT !.at = "rows", !.referenced = list_referenced_file_paths]
    /\ CleanRest /\ UNCHANGED files

CleanupListDeleted ==
    /\ cleaner.at = "rows"
    /\ cleaner' = [CleanerIdle EXCEPT !.at = "targets",
          !.targets = (cleaner.old \ cleaner.referenced) \cup list_soft_deleted_documents]
    /\ CleanRest /\ UNCHANGED files

CleanupDelete(k) ==
    /\ k \in cleaner.targets
    /\ delete(k)
    /\ cleaner' = [cleaner EXCEPT !.targets = @ \ {k}]
    /\ CleanRest

\* No target is left, or the worker stops.
CleanupEnds ==
    /\ cleaner.at # "idle"
    /\ cleaner' = CleanerIdle
    /\ CleanRest /\ UNCHANGED files

ReportCleanRest == UNCHANGED <<storedDoc, reader, cleaner, storeDay, found, exposed>>

list_expired_completed_jobs ==
    {j \in ReportJobs : /\ fileJob[j].status = "completed" /\ fileJob[j].key
                        /\ fileJob[j].finished_at + ReportRetention < storeDay}

\* cleanup_expired_reports: one commit per job; exports are not looked at.
ReportCleanupList ==
    /\ reportCleaner = {} /\ list_expired_completed_jobs # {}
    /\ reportCleaner' = list_expired_completed_jobs
    /\ ReportCleanRest /\ UNCHANGED <<files, fileJob>>

cleanup_expired_reports(j) ==
    /\ j \in reportCleaner
    /\ delete(j)
    /\ JobWrite(j, [fileJob[j] EXCEPT !.key = FALSE])
    /\ reportCleaner' = reportCleaner \ {j}
    /\ ReportCleanRest

ReportCleanupDies ==
    /\ reportCleaner # {}
    /\ reportCleaner' = {}
    /\ ReportCleanRest /\ UNCHANGED <<files, fileJob>>

\* A day is longer than a request, a job or a cleanup.
NextStoreDay ==
    /\ storeDay < LastStoreDay
    /\ \A d \in StoredDocs : storedDoc[d].upload # "saved"
    /\ \A j \in AllJobs : fileJob[j].status # "saved"
    /\ cleaner = CleanerIdle /\ reportCleaner = {}
    /\ storeDay' = storeDay + 1
    /\ UNCHANGED <<files, storedDoc, fileJob, reader, cleaner, reportCleaner, found, exposed>>

StoreInit ==
    /\ files = [f \in {} |-> 0]
    /\ storedDoc = [d \in StoredDocs |-> NewDocument]
    /\ fileJob = [j \in AllJobs |-> NewFileJob]
    /\ reader = [s \in Readers |-> NoRead]
    /\ cleaner = CleanerIdle /\ reportCleaner = {}
    /\ storeDay = 0 /\ found = {} /\ exposed = {}

StoreNext ==
    \/ \E d \in StoredDocs :
          \/ _save_content(d) \/ StoreUpload(d) \/ _delete_saved_content(d) \/ UploadDies(d)
          \/ \E fails, arrives \in BOOLEAN : EnqueueScan(d, fails, arrives)
          \/ MarkScanFailed(d) \/ ScanLost(d) \/ SoftDelete(d)
          \/ \E r \in DocumentScanStatus \ {"pending"} : scan_document(d, r)
          \/ \E s \in Readers : DownloadRead(s, d)
    \/ \E s \in Readers : DownloadServe(s)
    \/ \E j \in AllJobs : \/ CreateJob(j) \/ JobRunning(j) \/ JobSaves(j)
                          \/ JobCompletes(j) \/ JobFails(j)
    \/ CleanupListFiles \/ CleanupListRows \/ CleanupListDeleted \/ CleanupEnds
    \/ \E k \in StoredDocs \cup AllJobs : CleanupDelete(k)
    \/ ReportCleanupList \/ ReportCleanupDies
    \/ \E j \in ReportJobs : cleanup_expired_reports(j)
    \/ NextStoreDay

StoreSpec == StoreInit /\ [][StoreNext]_storeVars

-----------------------------------------------------------------------------
(* Properties *)

\* Every variable keeps to its type.
StoreTypeOK ==
    /\ DOMAIN files \subseteq StoredDocs \cup AllJobs
    /\ \A f \in DOMAIN files : files[f] \in 0..storeDay
    /\ storedDoc \in [StoredDocs -> Document]
    /\ fileJob \in [AllJobs -> FileJob]
    /\ storeDay \in 0..LastStoreDay

\* No cleanup, whatever it overlaps with, takes a file that is still needed:
\* that of a document that is not deleted, or was lately, and that of a
\* report or export younger than its retention.
NeededFilesStay ==
    /\ \A d \in StoredDocs :
          (HasRow(d) /\ (storedDoc[d].is_deleted => storedDoc[d].deleted_on + DeletedRetention > storeDay))
              => d \in DOMAIN files
    /\ \A j \in AllJobs :
          (/\ fileJob[j].status = "completed" /\ fileJob[j].key
           /\ fileJob[j].finished_at + OrphanRetention > storeDay)
              => j \in DOMAIN files

\* A document is not handed out once the scanner has found it infected, also
\* when the error of a scheduling that had succeeded overwrites the result.
InfectedIsNotServed == exposed = {}

\* What the cleanups take and what downloads hand out.
FilesAreSafe == NeededFilesStay /\ InfectedIsNotServed

=============================================================================

------------------------------ MODULE Archives ------------------------------
(***************************************************************************)
(* Archiving of closed main projects and their restoration                 *)
(* (services/archives.py, models/archives.py), and what the weekly cleanup *)
(* of files (services/file_cleanup.py) makes of it.                        *)
(*                                                                         *)
(* A run reads the candidates, then their sub-projects, without a lock and *)
(* makes the snapshots from what it read; it deletes what is there by now. *)
(* A restoration reads a snapshot, then those of the sub-projects, and     *)
(* deletes the snapshots it read by their ids.  original_id is a unique    *)
(* key of the snapshots, identifier and number are unique keys of the      *)
(* projects; a violation rolls the transaction back.                       *)
(***************************************************************************)
EXTENDS Naturals

CONSTANTS
    ArchProjects,      \* main projects
    ArchSubs,          \* sub-projects a main project may have
    ArchJobs,          \* sessions of administrators
    ArchiveRetention,  \* ARCHIVE_RETENTION_DAYS: two years
    LastArchYear,      \* bound: time
    MaxMigrations      \* bound: how often a project is archived or restored

ASSUME ArchiveAssumption ==
    /\ ArchiveRetention \in Nat \ {0}
    /\ LastArchYear \in Nat /\ MaxMigrations \in Nat

VARIABLES
    mainRow,     \* [live main projects -> status, closed_at, migrations]
    subRow,      \* [ArchProjects -> live sub-projects]
    active,      \* projects with a sub-project neither closed nor terminated
    mainArchive, \* [main projects with a snapshot -> the row in it]
    subArchive,  \* [ArchProjects -> sub-projects with a snapshot]
    documents,   \* projects with document rows (phases, tasks, payments alike)
    stored,      \* projects whose document files are on disk
    archJob,
    archYear,
    subsOf,      \* history: [ArchProjects -> sub-projects it was closed with]
    uploadedTo,  \* history: projects documents were uploaded to
    archOutdated     \* history: projects moved by a request after they had been
                 \* moved to and fro since it read them

archVars == <<mainRow, subRow, active, mainArchive, subArchive, documents, stored, archJob, archYear,
              subsOf, uploadedTo, archOutdated>>

\* "migrations" counts how often the project was archived or restored.  It
\* stands for the id of a snapshot, which is a new one each time.
MainRow == [status : {"in_progress", "closed"}, closed_at : Nat, migrations : Nat]

NoSubs == [p \in ArchProjects |-> {}]

\* "rows" are the rows of main projects a request has read, "subs" what it
\* has read of their sub-projects.
NoArchJob == [op |-> "idle", rows |-> [p \in {} |-> 0], subs |-> NoSubs]
Live(p) == p \in DOMAIN mainRow

\* Rows added to a table.
Inserted(new, table) ==
    [p \in DOMAIN new \cup DOMAIN table |-> IF p \in DOMAIN new THEN new[p] ELSE table[p]]

-----------------------------------------------------------------------------
(* Before archiving: sub-projects, documents and closing, in short *)

ArchWork == UNCHANGED <<mainArchive, subArchive, archJob, archYear, archOutdated>>

\* create_sub_project, whose check of the main project may be overtaken by
\* the closing.
AddSub(p, n) ==
    /\ Live(p) /\ (mainRow[p].status = "closed" => mainRow[p].closed_at = archYear)
    /\ n \notin subsOf[p]
    /\ subRow' = [subRow EXCEPT ![p] = @ \cup {n}]
    /\ active' = active \cup {p}
    /\ subsOf' = [subsOf EXCEPT ![p] = @ \cup {n}]
    /\ ArchWork /\ UNCHANGED <<mainRow, documents, stored, uploadedTo>>

AddDocument(p) ==
    /\ p \in active \ uploadedTo
    /\ documents' = documents \cup {p} /\ stored' = stored \cup {p}
    /\ uploadedTo' = uploadedTo \cup {p}
    /\ ArchWork /\ UNCHANGED <<mainRow, subRow, active, subsOf>>

\* close_sub_project and termination.
SubsOver(p) ==
    /\ p \in active
    /\ active' = active \ {p}
    /\ ArchWork /\ UNCHANGED <<mainRow, subRow, documents, stored, subsOf, uploadedTo>>

close_project(p) ==
    /\ Live(p) /\ mainRow[p].status = "in_progress"
    /\ p \notin active
    /\ mainRow' = [mainRow EXCEPT ![p].status = "closed", ![p].closed_at = archYear]
    /\ ArchWork /\ UNCHANGED <<subRow, active, documents, stored, subsOf, uploadedTo>>

-----------------------------------------------------------------------------
(* Archiving *)

ArchWrite(s, j) == archJob' = [archJob EXCEPT ![s] = j]
ArchRest == UNCHANGED <<active, archYear, subsOf, uploadedTo>>
ArchReads == UNCHANGED <<mainRow, subRow, mainArchive, subArchive, documents, stored, archOutdated>>

list_candidate_projects ==
    {p \in DOMAIN mainRow : /\ mainRow[p].status = "closed" /\ p \notin active
                            /\ mainRow[p].closed_at + ArchiveRetention <= archYear}

ArchiveList(s) ==
    /\ archJob[s] = NoArchJob /\ list_candidate_projects # {}
    /\ ArchWrite(s, [op |-> "listed", subs |-> NoSubs,
                       rows |-> [p \in list_candidate_projects |-> mainRow[p]]])
    /\ ArchRest /\ ArchReads

\* list_sub_projects_by_main_project_ids, a statement of its own.
ArchiveListSubs(s) ==
    LET j == archJob[s]
    IN  /\ j.op = "listed"
        /\ ArchWrite(s, [op |-> "archive", rows |-> j.rows,
              subs |-> [p \in ArchProjects |-> IF p \in DOMAIN j.rows THEN subRow[p] ELSE {}]])
        /\ ArchRest /\ ArchReads

\* A row that goes from one table to the other, as it was read.
Migrated(row, current) == [row EXCEPT !.migrations = 1 + current.migrations]

\* delete_project_graph: the projects with all that refers to them.
delete_project_graph(P) ==
    /\ mainRow' = [p \in DOMAIN mainRow \ P |-> mainRow[p]]
    /\ subRow' = [p \in ArchProjects |-> IF p \in P THEN {} ELSE subRow[p]]
    /\ documents' = documents \ P

\* Snapshots of main and sub-projects are added, the projects deleted.
archive_eligible_projects(s) ==
    LET j == archJob[s]
        projects == DOMAIN j.rows
    IN  /\ j.op = "archive"
        /\ projects \cap DOMAIN mainArchive = {}
        /\ \A p \in projects : mainRow[p].migrations < MaxMigrations
        /\ mainArchive' = Inserted([p \in projects |-> Migrated(j.rows[p], mainRow[p])], mainArchive)
        /\ subArchive' = [p \in ArchProjects |-> subArchive[p] \cup j.subs[p]]
        /\ delete_project_graph(projects)
        /\ archOutdated' = archOutdated \cup {p \in projects : j.rows[p] # mainRow[p]}
        /\ ArchWrite(s, NoArchJob)
        /\ ArchRest /\ UNCHANGED stored

\* A snapshot of the project exists, a statement fails or the process stops.
ArchiveRollback(s) ==
    /\ archJob[s] # NoArchJob
    /\ ArchWrite(s, NoArchJob)
    /\ ArchRest /\ ArchReads

-----------------------------------------------------------------------------
(* Restoring *)

RestoreRead(s, p) ==
    /\ archJob[s] = NoArchJob
    /\ p \in DOMAIN mainArchive /\ ~Live(p)
    /\ ArchWrite(s, [op |-> "found", subs |-> NoSubs, rows |-> [q \in {p} |-> mainArchive[q]]])
    /\ ArchRest /\ ArchReads

\* list_archive_sub_projects_for_main, of the batch of the snapshot found.
RestoreReadSubs(s) ==
    LET j == archJob[s]
        kept == {p \in DOMAIN j.rows \cap DOMAIN mainArchive : mainArchive[p] = j.rows[p]}
    IN  /\ j.op = "found"
        /\ ArchWrite(s, [op |-> "restore", rows |-> j.rows,
              subs |-> [p \in ArchProjects |-> IF p \in kept THEN subArchive[p] ELSE {}]])
        /\ ArchRest /\ ArchReads

\* Mutant of delete_archive_project_snapshots: they are not deleted.
KeepSnapshots(P, subs) == UNCHANGED <<mainArchive, subArchive>>

delete_archive_project_snapshots(P, subs) ==
    /\ mainArchive' = [p \in DOMAIN mainArchive \ P |-> mainArchive[p]]
    /\ subArchive' = [p \in ArchProjects |-> IF p \in P THEN subArchive[p] \ subs[p] ELSE subArchive[p]]

\* The rows come back from their snapshots, the snapshots read are deleted
\* if they are still there; a project that is live again is a duplicate key.
\* closed_at is as old as before: the project is a candidate at once.
restore_main_project(s) ==
    LET j == archJob[s]
        projects == DOMAIN j.rows
        kept == {p \in projects : mainArchive[p] = j.rows[p]}
    IN  /\ j.op = "restore"
        /\ \A p \in projects : ~Live(p) /\ mainArchive[p].migrations < MaxMigrations
        /\ mainRow' = Inserted([p \in projects |-> Migrated(j.rows[p], mainArchive[p])], mainRow)
        /\ subRow' = [p \in ArchProjects |-> subRow[p] \cup j.subs[p]]
        /\ delete_archive_project_snapshots(kept, j.subs)
        /\ archOutdated' = archOutdated \cup (projects \ kept)
        /\ ArchWrite(s, NoArchJob)
        /\ ArchRest /\ UNCHANGED <<documents, stored>>

\* cleanup_storage_files: files no document row names, all of them old.
CleanupOrphans ==
    /\ stored \ documents # {}
    /\ stored' = stored \cap documents
    /\ UNCHANGED <<mainRow, subRow, active, mainArchive, subArchive, documents, archJob, archYear,
                   subsOf, uploadedTo, archOutdated>>

NextYear ==
    /\ archYear < LastArchYear
    /\ archYear' = archYear + 1
    /\ \A s \in ArchJobs : archJob[s] = NoArchJob
    /\ UNCHANGED <<mainRow, subRow, active, mainArchive, subArchive, documents, stored, archJob,
                   subsOf, uploadedTo, archOutdated>>

ArchInit ==
    /\ mainRow = [p \in ArchProjects |->
                    [status |-> "in_progress", closed_at |-> 0, migrations |-> 0]]
    /\ subRow = NoSubs
    /\ active = {} /\ mainArchive = [p \in {} |-> 0] /\ subArchive = NoSubs
    /\ documents = {} /\ stored = {}
    /\ archJob = [s \in ArchJobs |-> NoArchJob]
    /\ archYear = 0
    /\ subsOf = NoSubs /\ uploadedTo = {} /\ archOutdated = {}

ArchNext ==
    \/ \E p \in ArchProjects :
          \/ \E n \in ArchSubs : AddSub(p, n)
          \/ AddDocument(p) \/ SubsOver(p) \/ close_project(p)
    \/ \E s \in ArchJobs :
          \/ ArchiveList(s) \/ ArchiveListSubs(s) \/ archive_eligible_projects(s)
          \/ \E p \in ArchProjects : RestoreRead(s, p)
          \/ RestoreReadSubs(s) \/ restore_main_project(s)
          \/ ArchiveRollback(s)
    \/ CleanupOrphans
    \/ NextYear

ArchSpec == ArchInit /\ [][ArchNext]_archVars

-----------------------------------------------------------------------------
(* Properties *)

\* Every variable keeps to its type.
ArchTypeOK ==
    /\ DOMAIN mainRow \subseteq ArchProjects /\ mainRow \in [DOMAIN mainRow -> MainRow]
    /\ DOMAIN mainArchive \subseteq ArchProjects /\ mainArchive \in [DOMAIN mainArchive -> MainRow]
    /\ subRow \in [ArchProjects -> SUBSET ArchSubs]
    /\ subArchive \in [ArchProjects -> SUBSET ArchSubs]
    /\ subsOf \in [ArchProjects -> SUBSET ArchSubs]
    /\ archYear \in 0..LastArchYear
    /\ active \subseteq DOMAIN mainRow /\ documents \subseteq DOMAIN mainRow
    /\ archOutdated \subseteq ArchProjects
    /\ \A s \in ArchJobs :
         /\ archJob[s].op \in {"idle", "listed", "archive", "found", "restore"}
         /\ DOMAIN archJob[s].rows \subseteq ArchProjects
         /\ archJob[s].rows \in [DOMAIN archJob[s].rows -> MainRow]
         /\ archJob[s].subs \in [ArchProjects -> SUBSET ArchSubs]

\* However runs and restorations overlap, a project is never lost; and it is
\* either live or archived, with all the sub-projects it was closed with,
\* unless a request has moved it that had read it before it was moved to the
\* other table and back.
InOnePlaceWithItsSubs ==
    /\ DOMAIN mainRow \cup DOMAIN mainArchive = ArchProjects
    /\ \A p \in ArchProjects \ archOutdated :
         /\ ~ (Live(p) /\ p \in DOMAIN mainArchive)
         /\ subRow[p] = IF Live(p) THEN subsOf[p] ELSE {}
         /\ subArchive[p] = IF Live(p) THEN {} ELSE subsOf[p]

\* The design says that document files stay where they are when a project is
\* archived.  The rows that name them are deleted and no snapshot is made of
\* them, so the next cleanup takes them for orphans.
FilesOutliveArchiving == uploadedTo \subseteq stored
=============================================================================

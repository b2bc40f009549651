--------------------------- MODULE ProjectNumbers ---------------------------
(***************************************************************************)
(* The ways a main project comes into being: the form                      *)
(* (services/main_projects.py), a template                                 *)
(* (services/project_templates.py) and an Excel import                     *)
(* (services/project_imports.py).                                          *)
(*                                                                         *)
(* The first two take a number from a database sequence, an import brings  *)
(* its own.  project_no is a unique key, so a collision fails the whole    *)
(* commit.  A number Z-year-n is the natural n, 0 one of another form.      *)
(***************************************************************************)
EXTENDS Naturals, Sequences

CONSTANTS
    People,         \* [role, dept] of the users
    NumberJobs,     \* requests in flight
    Sheets,         \* the Excel sheets: sequences of SheetRow
    Codes,          \* department codes that exist
    Amounts,        \* budgets
    LastSequence,   \* bound: numbers drawn from main_project_no_seq
    MaxTemplates    \* bound: templates

ASSUME NumbersAssumption ==
    /\ LastSequence \in Nat /\ MaxTemplates \in Nat
    /\ Sheets \subseteq Seq([no : Nat, dept : STRING, fields : {"good", "bad", "nan"}])

VARIABLES
    project,        \* [project_no -> status, total_budget, from]
    template,       \* sequence of project templates
    main_project_no_seq,
    numberJob,
    imports,        \* history: committed imports, with what they made
    collisions      \* history: commits that failed on a number

numberVars == <<project, template, main_project_no_seq, numberJob, imports, collisions>>

\* Cells after _load_rows and the normalisations of text, budget and date:
\* "fields" says whether all but number and department are acceptable.
\* "nan" stands for a budget that Decimal reads and no comparison accepts.
SheetRow(no, dept, fields) == [no |-> no, dept |-> dept, fields |-> fields]

NoNumberJob == [op |-> "idle"]
NumberWrite(s, j) == numberJob' = [numberJob EXCEPT ![s] = j]
NumberReads == UNCHANGED <<project, template, imports, collisions>>

Used == DOMAIN project

-----------------------------------------------------------------------------
(* create_project and instantiate_template *)

\* nextval is not undone by a rollback.
next_project_sequence(s, j) ==
    /\ numberJob[s] = NoNumberJob
    /\ main_project_no_seq < LastSequence
    /\ main_project_no_seq' = main_project_no_seq + 1
    /\ NumberWrite(s, j)
    /\ NumberReads

\* Mutant of DrawnNumber: the highest number in use and one.
HighestPlusOne ==
    1 + Len(SelectSeq([i \in 1 .. LastSequence |-> i], LAMBDA i : i \in Used))

DrawnNumber == main_project_no_seq + 1

create_project(s, p, amount) ==
    /\ p.role = "dept_manager"
    /\ next_project_sequence(s, [op |-> "insert", no |-> DrawnNumber, from |-> "form",
                                 total_budget |-> amount])

can_view(p, t) ==
    \/ p.role = "admin" \/ t.owner = p
    \/ t.scope = "global"
    \/ t.scope = "department" /\ p.dept = t.owner.dept

\* An amount of zero asks for the template's default as no amount does.
instantiate_template(s, p, t, amount) ==
    /\ p.role \in {"dept_manager", "admin"}
    /\ can_view(p, t)
    /\ next_project_sequence(s, [op |-> "insert", no |-> DrawnNumber, from |-> "template",
             total_budget |-> IF amount = 0 THEN t.total_budget ELSE amount])

InsertCommit(s) ==
    LET j == numberJob[s]
    IN  /\ j.op = "insert"
        /\ j.no \notin Used
        /\ project' = [no \in Used \cup {j.no} |-> IF no \in Used THEN project[no] ELSE
              [status |-> "pending_review", from |-> j.from, total_budget |-> j.total_budget]]
        /\ NumberWrite(s, NoNumberJob)
        /\ UNCHANGED <<template, main_project_no_seq, imports, collisions>>

InsertCollides(s) ==
    LET j == numberJob[s]
    IN  /\ j.op = "insert"
        /\ j.no \in Used
        /\ collisions' = collisions \cup {[op |-> "insert", with |-> project[j.no].from]}
        /\ NumberWrite(s, NoNumberJob)
        /\ UNCHANGED <<project, template, main_project_no_seq, imports>>

-----------------------------------------------------------------------------
(* create_template_from_project *)

ScopeAllowed(p, scope) ==
    /\ scope = "global" => p.role = "admin"
    /\ scope = "department" => p.role \in {"admin", "dept_manager"}

create_template_from_project(p, scope, no) ==
    /\ ScopeAllowed(p, scope)
    /\ no \in Used /\ Len(template) < MaxTemplates
    /\ template' = Append(template, [scope |-> scope, owner |-> p,
                                     total_budget |-> project[no].total_budget])
    /\ UNCHANGED <<project, main_project_no_seq, numberJob, imports, collisions>>

-----------------------------------------------------------------------------
(* import_projects *)

ImportLoad(s, p, sheet) ==
    /\ p.role = "admin"
    /\ numberJob[s] = NoNumberJob
    /\ NumberWrite(s, [op |-> "import", sheet |-> sheet,
                       existing |-> Used \cap {sheet[i].no : i \in DOMAIN sheet}])
    /\ NumberReads /\ UNCHANGED main_project_no_seq

\* Mutant of Repeated: rows with errors reserve their number too.
RepeatedInSheet(sheet, valid, i) == \E k \in 1 .. i - 1 : sheet[k].no = sheet[i].no

\* A number in seen_project_nos: an earlier valid row has it.
Repeated(sheet, valid, i) == \E k \in 1 .. i - 1 : valid[k] /\ sheet[k].no = sheet[i].no

\* The row's own errors.
Faulty(row) == row.fields # "good" \/ row.dept \notin Codes

\* _validate_row over the sheet: the rows that will be projects.
validated_rows(sheet, existing) ==
    LET valid[i \in DOMAIN sheet] ==
            /\ ~Faulty(sheet[i])
            /\ sheet[i].no \notin existing
            /\ ~Repeated(sheet, valid, i)
    IN  {i \in DOMAIN sheet : valid[i]}

\* A budget that is not a number raises outside the try.
ValidationRaises(sheet) == \E i \in DOMAIN sheet : sheet[i].fields = "nan"

Importing(s) == numberJob[s].op = "import" /\ ~ValidationRaises(numberJob[s].sheet)

ImportCommit(s) ==
    LET j == numberJob[s]
        rows == validated_rows(j.sheet, j.existing)
        numbers == {j.sheet[i].no : i \in rows}
    IN  /\ Importing(s)
        /\ numbers \cap Used = {}
        /\ \A i, k \in rows : j.sheet[i].no = j.sheet[k].no => i = k
        /\ project' = [no \in Used \cup numbers |-> IF no \in Used THEN project[no] ELSE
              [status |-> "not_started", from |-> "import", total_budget |-> 0]]
        /\ imports' = imports \cup {[sheet |-> j.sheet, existing |-> j.existing,
                                     created |-> numbers]}
        /\ NumberWrite(s, NoNumberJob)
        /\ UNCHANGED <<template, main_project_no_seq, collisions>>

\* One number taken since the sheet was checked fails all of its rows.
ImportCollides(s) ==
    LET j == numberJob[s]
        rows == validated_rows(j.sheet, j.existing)
        taken == {j.sheet[i].no : i \in rows} \cap Used
        twice == \E i, k \in rows : i # k /\ j.sheet[i].no = j.sheet[k].no
    IN  /\ Importing(s)
        /\ taken # {} \/ twice
        /\ collisions' = collisions \cup {[op |-> "import", since |-> taken # {}]}
        /\ NumberWrite(s, NoNumberJob)
        /\ UNCHANGED <<project, template, main_project_no_seq, imports>>

\* The process stops, or the validation of a budget raises.
NumberRollback(s) ==
    /\ numberJob[s] # NoNumberJob
    /\ NumberWrite(s, NoNumberJob)
    /\ NumberReads /\ UNCHANGED main_project_no_seq

-----------------------------------------------------------------------------

NumberInit ==
    /\ project = <<>> /\ template = <<>>
    /\ main_project_no_seq = 0
    /\ numberJob = [s \in NumberJobs |-> NoNumberJob]
    /\ imports = {} /\ collisions = {}

NumberNext ==
    \/ \E s \in NumberJobs :
          \/ \E p \in People :
                \/ \E amount \in Amounts :
                      \/ create_project(s, p, amount)
                      \/ \E i \in DOMAIN template : instantiate_template(s, p, template[i], amount)
                \/ \E sheet \in Sheets : ImportLoad(s, p, sheet)
          \/ InsertCommit(s) \/ InsertCollides(s)
          \/ ImportCommit(s) \/ ImportCollides(s)
          \/ NumberRollback(s)
    \/ \E p \in People, scope \in {"personal", "department", "global"}, no \in Used :
          create_template_from_project(p, scope, no)

NumberSpec == NumberInit /\ [][NumberNext]_numberVars

-----------------------------------------------------------------------------
(* Properties *)

\* Every variable keeps to its type.
NumberTypeOK ==
    /\ \A no \in Used : project[no].status \in {"pending_review", "not_started"}
    /\ Len(template) <= MaxTemplates
    /\ main_project_no_seq \in 0 .. LastSequence

\* An import makes a project of every number that is free and that some row
\* gives with all else in order: neither a faulty row nor a repetition keeps
\* another row of the sheet from being imported.
ImportIsExact ==
    \A m \in imports :
       m.created = {m.sheet[i].no : i \in {i \in DOMAIN m.sheet : ~Faulty(m.sheet[i])}} \ m.existing

\* A commit fails on a number only where an import is involved: a number
\* from the sequence collides with imported ones alone, and an import with
\* numbers taken since it looked, never with its own rows.
CollisionsAreImported ==
    \A c \in collisions : IF c.op = "insert" THEN c.with = "import" ELSE c.since

\* What imports make of their sheets, and what numbers collide with.
NumbersAreSound == ImportIsExact /\ CollisionsAreImported

=============================================================================

----------------------------- MODULE PhaseGates -----------------------------
(***************************************************************************)
(* What the promotion of one phase demands, and the operations that change *)
(* it: procurement type, documents and vouchers, acceptance steps          *)
(* (services/phases.py, services/payments.py, services/acceptance_steps.py)*)
(* and the workflow version the required documents come from               *)
(* (services/workflows.py); those of a sub-project without a version come  *)
(* from the table of templates, which only the seeds write.                *)
(* Module PhaseFlow has the order of the phases; this one has the checks   *)
(* it leaves out.                                                          *)
(*                                                                         *)
(* A promotion keeps the phase it loaded before it locked the rows.  Steps *)
(* and documents, the vouchers of a payment too, are inserted with a       *)
(* foreign key on the phase, and the procurement type is a column of it,   *)
(* so those commits wait for the lock of a promotion; deletions and step   *)
(* updates do not.                                                         *)
(***************************************************************************)
EXTENDS Naturals, FiniteSets

CONSTANTS
    GateJobs,           \* sessions
    GatePhaseNos,       \* the phases looked at: 2, 4 and 5 have checks of their own
    ProcurementTypes,
    DocTypes,           \* with "acceptance_report" and "payment_voucher"
    DocRuleSets,        \* the required_documents of a version, or of the templates
    StepNos,            \* acceptance steps that may be created
    GatePayments,       \* payments that may be made
    MULTI_INSTANCE_DOCUMENT_TYPES,
    MaxUploads,         \* bound: documents of one type
    NoType              \* procurement_type NULL

VARIABLES
    gatePhase,    \* no, status, procurement_type
    version,      \* status and required documents of the workflow version; with
                  \* the status "none" the documents are those of the templates
    uploaded,     \* [DocTypes -> number of latest documents]; the reports of
                  \* steps, which the gate never counts, are not among them
    step,         \* [created steps -> [status, report]]
    paid,         \* normal payments made
    vouchered,    \* payments with a voucher whose document is not deleted
    gateJob,
    raced         \* history: a write that had read the phase (or the version)
                  \* earlier was committed after a promotion's checks

gateVars == <<gatePhase, version, uploaded, step, paid, vouchered, gateJob, raced>>

\* A required document of a phase definition.
DocRule == [doc_type : DocTypes, requirement : {"required", "conditional", "optional"},
            procurement_type : ProcurementTypes \cup {NoType}, qty : Nat, per_payment : BOOLEAN]
ASSUME GatesAssumption ==
    /\ MaxUploads \in Nat
    /\ "payment_voucher" \in DocTypes
    /\ \A rules \in DocRuleSets : rules \subseteq DocRule

StepStatus == {"not_started", "in_progress", "completed"}
AcceptanceStep == [status : StepStatus, report : BOOLEAN]
NoGateJob == [op |-> "idle"]

-----------------------------------------------------------------------------
(* The checks *)

\* _required_documents_from_workflow_version: a conditional document without
\* a procurement type is always demanded.
_required_documents_from_workflow_version(rules, type) ==
    {r \in rules : \/ r.requirement = "required"
                   \/ /\ r.requirement = "conditional"
                      /\ r.procurement_type \in {NoType, type}}

\* list_required_doc_templates: without a procurement type, only what is
\* always required.
list_required_doc_templates(rules, type) ==
    {r \in rules : \/ r.requirement = "required"
                   \/ /\ r.requirement = "conditional"
                      /\ type # NoType /\ r.procurement_type = type}

_required_documents_for_phase(type) ==
    IF version.status = "none" THEN list_required_doc_templates(version.rules, type)
    ELSE _required_documents_from_workflow_version(version.rules, type)

\* get_payment_voucher_coverage and PaymentVoucherCoverage.is_satisfied.
coverage_is_satisfied == paid # {} /\ paid \subseteq vouchered

\* "=n" is read like ">=n"; per_payment without coverage is ">=1".
matches_qty_rule(r) == uploaded[r.doc_type] >= IF r.per_payment THEN 1 ELSE r.qty

required_document_is_satisfied(r) ==
    IF r.doc_type = "payment_voucher" /\ r.per_payment /\ gatePhase.no = 5
    THEN coverage_is_satisfied
    ELSE matches_qty_rule(r)

\* _ensure_acceptance_steps_completed: does the phase have steps, all done?
HasSteps == gatePhase.no = 4 /\ DOMAIN step # {}
AllStepsCompleted == \A n \in DOMAIN step : step[n].status = "completed"

\* All of promote_phase's checks but the order of the phases; finished steps
\* stand for the report of the whole phase.
GateIsOpen(type) ==
    /\ gatePhase.no = 2 => type # NoType
    /\ HasSteps => AllStepsCompleted
    /\ \A r \in _required_documents_for_phase(type) :
          \/ HasSteps /\ r.doc_type = "acceptance_report"
          \/ required_document_is_satisfied(r)

-----------------------------------------------------------------------------
(* Sessions *)

GateIdle(s) == gateJob[s] = NoGateJob
GateBegin(s, j) ==
    /\ GateIdle(s)
    /\ gateJob' = [gateJob EXCEPT ![s] = j]
    /\ UNCHANGED <<gatePhase, version, uploaded, step, paid, vouchered, raced>>
GateEnd(s) == gateJob' = [gateJob EXCEPT ![s] = NoGateJob]

\* Sessions past the checks of a promotion hold the phase rows.
Promoting == {s \in GateJobs : gateJob[s].op = "promote"}
PhaseRowFree == Promoting = {}

\* A commit, after the checks of a promotion, of a session that has not seen
\* the phase completed.
Late(s) == raced' = \/ raced
                    \/ /\ Promoting # {} \/ gatePhase.status = "completed"
                       /\ gateJob[s].seen # "completed"

PromoteStart(s) ==
    /\ gatePhase.status = "in_progress"
    /\ GateBegin(s, [op |-> "check", type |-> gatePhase.procurement_type, seen |-> gatePhase.status])

\* The rows are locked, the checks made on the phase as loaded before.
PromoteGate(s) ==
    /\ gateJob[s].op = "check"
    /\ PhaseRowFree
    /\ gateJob' = [gateJob EXCEPT ![s] =
          IF GateIsOpen(gateJob[s].type) THEN [op |-> "promote"] ELSE NoGateJob]
    /\ raced' = (raced \/ gateJob[s].type # gatePhase.procurement_type)
    /\ UNCHANGED <<gatePhase, version, uploaded, step, paid, vouchered>>

GateCommit(s) ==
    /\ gateJob[s].op = "promote"
    /\ gatePhase' = [gatePhase EXCEPT !.status = "completed"]
    /\ GateEnd(s)
    /\ UNCHANGED <<version, uploaded, step, paid, vouchered, raced>>

-----------------------------------------------------------------------------
(* Procurement type, documents, payments *)

TypeRead(s, t) ==
    /\ gatePhase.no = 2 /\ gatePhase.status # "completed"
    /\ GateBegin(s, [op |-> "type", type |-> t, seen |-> gatePhase.status])

update_procurement_type(s) ==
    /\ gateJob[s].op = "type"
    /\ PhaseRowFree
    /\ gatePhase' = [gatePhase EXCEPT !.procurement_type = gateJob[s].type]
    /\ Late(s) /\ GateEnd(s)
    /\ UNCHANGED <<version, uploaded, step, paid, vouchered>>

\* upload_document and delete_document check the phase, then commit.
DocumentRead(s, d, n) ==
    /\ gatePhase.status # "completed"
    /\ GateBegin(s, [op |-> "document", doc |-> d, up |-> n, seen |-> gatePhase.status])

\* How many documents are the latest of their type afterwards: those of types
\* with many instances all are; of the others one is, and an older version
\* may take the place of a deleted one (module DocumentVersions has which).
UploadedAfter(d, up) ==
    CASE up /\ d \in MULTI_INSTANCE_DOCUMENT_TYPES -> {uploaded[d] + 1}
      [] up /\ d \notin MULTI_INSTANCE_DOCUMENT_TYPES -> {1}
      [] ~up /\ d \in MULTI_INSTANCE_DOCUMENT_TYPES -> {uploaded[d] - 1}
      [] ~up /\ d \notin MULTI_INSTANCE_DOCUMENT_TYPES -> {uploaded[d] - 1, uploaded[d]}

\* The payments with a voucher after one voucher document is deleted: it is
\* the voucher of one of them, unless there are more documents than that.
VoucheredAfter ==
    {vouchered \ {p} : p \in vouchered}
    \cup {v \in {vouchered} : Cardinality(v) < uploaded["payment_voucher"]}

DocumentCommit(s) ==
    LET j == gateJob[s]
    IN  /\ j.op = "document"
        /\ j.up => PhaseRowFree /\ uploaded[j.doc] < MaxUploads
        /\ ~j.up => uploaded[j.doc] > 0
        /\ \E n \in UploadedAfter(j.doc, j.up) : uploaded' = [uploaded EXCEPT ![j.doc] = n]
        /\ vouchered' \in IF ~j.up /\ j.doc = "payment_voucher" /\ gatePhase.no = 5
                          THEN VoucheredAfter ELSE {vouchered}
        /\ Late(s) /\ GateEnd(s)
        /\ UNCHANGED <<gatePhase, version, step, paid>>

\* create_payment asks nothing of the phase's status, but demands a voucher
\* (_clean_voucher_uploads), whose document belongs to phase 5.
PayWithVoucher(p) ==
    /\ gatePhase.no = 5 /\ PhaseRowFree
    /\ p \notin paid /\ uploaded["payment_voucher"] < MaxUploads
    /\ paid' = paid \cup {p}
    /\ vouchered' = vouchered \cup {p}
    /\ uploaded' = [uploaded EXCEPT !["payment_voucher"] = @ + 1]
    /\ UNCHANGED <<gatePhase, version, step, gateJob, raced>>

-----------------------------------------------------------------------------
(* Acceptance steps *)

\* Mutant of StepRead: steps may change whatever the phase's status.
StepReadAnyStatus(s, n, st) ==
    GateBegin(s, [op |-> IF n \in DOMAIN step THEN "step" ELSE "create",
                  no |-> n, status |-> IF n \in DOMAIN step THEN st ELSE "not_started",
                  seen |-> gatePhase.status])

\* _ensure_phase_accepts_steps; completing a step needs its report.
StepRead(s, n, st) ==
    /\ gatePhase.no = 4 /\ gatePhase.status = "in_progress"
    /\ n \in DOMAIN step /\ st = "completed" => step[n].report
    /\ GateBegin(s, [op |-> IF n \in DOMAIN step THEN "step" ELSE "create",
                     no |-> n, status |-> IF n \in DOMAIN step THEN st ELSE "not_started",
                     seen |-> gatePhase.status])

\* The unique key of phase and number refuses a second step.
create_step(s) ==
    LET n == gateJob[s].no
    IN  /\ gateJob[s].op = "create"
        /\ PhaseRowFree
        /\ step' = IF n \in DOMAIN step THEN step
                   ELSE [m \in DOMAIN step \cup {n} |->
                            IF m = n THEN [status |-> "not_started", report |-> FALSE] ELSE step[m]]
        /\ Late(s) /\ GateEnd(s)
        /\ UNCHANGED <<gatePhase, version, uploaded, paid, vouchered>>

update_step(s) ==
    /\ gateJob[s].op = "step"
    /\ step' = [step EXCEPT ![gateJob[s].no].status = gateJob[s].status]
    /\ Late(s) /\ GateEnd(s)
    /\ UNCHANGED <<gatePhase, version, uploaded, paid, vouchered>>

\* upload_document with an acceptance_step_id, and the deletion of the last
\* report of a step.
StepReport(n) ==
    /\ n \in DOMAIN step
    /\ gatePhase.status # "completed"
    /\ step' = [step EXCEPT ![n].report = ~@]
    /\ UNCHANGED <<gatePhase, version, uploaded, paid, vouchered, gateJob, raced>>

-----------------------------------------------------------------------------
(* The workflow version *)

\* A draft is read; replace_phase_definitions refuses a published one.
DefinitionsRead(s, rules) ==
    /\ version.status = "draft"
    /\ GateBegin(s, [op |-> "define", rules |-> rules, seen |-> gatePhase.status])

update_phase_definitions(s) ==
    /\ gateJob[s].op = "define"
    /\ version' = [version EXCEPT !.rules = gateJob[s].rules]
    /\ raced' = (raced \/ version.status # "draft") /\ GateEnd(s)
    /\ UNCHANGED <<gatePhase, uploaded, step, paid, vouchered>>

publish_template_version ==
    /\ version.status = "draft"
    /\ version' = [version EXCEPT !.status = "published"]
    /\ UNCHANGED <<gatePhase, uploaded, step, paid, vouchered, gateJob, raced>>

\* The sub-project is approved, with a published version or with none, and
\* its phase is entered.
PhaseEntered ==
    /\ version.status # "draft" /\ gatePhase.status = "waiting"
    /\ gatePhase' = [gatePhase EXCEPT !.status = "in_progress"]
    /\ UNCHANGED <<version, uploaded, step, paid, vouchered, gateJob, raced>>

GateInit ==
    /\ gatePhase \in [no : GatePhaseNos, status : {"waiting"}, procurement_type : {NoType}]
    /\ version \in [status : {"draft", "none"}, rules : DocRuleSets]
    /\ uploaded = [d \in DocTypes |-> 0]
    /\ step = <<>> /\ paid = {} /\ vouchered = {}
    /\ gateJob = [s \in GateJobs |-> NoGateJob]
    /\ raced = FALSE

GateNext ==
    \/ \E s \in GateJobs :
          \/ PromoteStart(s) \/ PromoteGate(s) \/ GateCommit(s)
          \/ \E t \in ProcurementTypes : TypeRead(s, t)
          \/ update_procurement_type(s)
          \/ \E d \in DocTypes, n \in BOOLEAN : DocumentRead(s, d, n)
          \/ DocumentCommit(s)
          \/ \E n \in StepNos, st \in StepStatus : StepRead(s, n, st)
          \/ create_step(s) \/ update_step(s)
          \/ \E rules \in DocRuleSets : DefinitionsRead(s, rules)
          \/ update_phase_definitions(s)
    \/ \E p \in GatePayments : PayWithVoucher(p)
    \/ \E n \in StepNos : StepReport(n)
    \/ publish_template_version \/ PhaseEntered

GateSpec == GateInit /\ [][GateNext]_gateVars

-----------------------------------------------------------------------------
(* Properties *)

\* Every variable keeps to its type.
GateTypeOK ==
    /\ gatePhase.status \in {"waiting", "in_progress", "completed"}
    /\ gatePhase.procurement_type \in ProcurementTypes \cup {NoType}
    /\ version.rules \subseteq DocRule
    /\ uploaded \in [DocTypes -> 0..MaxUploads]
    /\ DOMAIN step \subseteq StepNos /\ \A n \in DOMAIN step : step[n] \in AcceptanceStep
    /\ vouchered \subseteq paid /\ paid \subseteq GatePayments

\* A completed phase still meets what its promotion demanded: procurement
\* type, acceptance steps, documents and vouchers of the definitions in
\* force, unless a write that had passed its own check of the phase earlier
\* came after the promotion's checks.  A payment made late brings its voucher
\* and does not close the gate.
CompletedMeetsGate ==
    gatePhase.status = "completed" => raced \/ GateIsOpen(gatePhase.procurement_type)
=============================================================================

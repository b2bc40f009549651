-------------------------- MODULE MCProjectRecords --------------------------
(***************************************************************************)
(* The records of projects: payments, documents, phase gates, stored       *)
(* files, the search index, classification, archives, budgets, numbers     *)
(* and memberships.  The components meet in the tables each module leaves  *)
(* nondeterministic, so their instances are checked side by side: each     *)
(* behaviour is one of the component in focus, the others rest in one of   *)
(* their initial states.  Wherever requests overlap there are two of them. *)
(***************************************************************************)
EXTENDS PaymentLedger, DocumentVersions, PhaseGates, FileStore, DocumentSearch,
        DocumentClassification, Archives, Budgets, ProjectNumbers, Memberships, TLC

CONSTANTS Parts, s1, s2, u1, u2, t1, t2, f1, m1, m2, l1, l2, rj, ej, rd

VARIABLE focus    \* the component whose behaviour this is

TwoSessions == {s1, s2}
TwoSubs == {u1, u2}
TwoTypes == {t1, t2}
OneFile == {f1}
TwoMains == {m1, m2}
TwoLeaders == {l1, l2}
OneReader == {rd}
OneReport == {rj}
OneExport == {ej}

\* Two sets of rules of a phase: a report and a voucher for each payment
\* required, and a report required of bids with the voucher a condition of
\* every type, which a version demands and a template does not.
DocRuleOf(doc_type, requirement, procurement_type, per_payment) ==
  [doc_type |-> doc_type, requirement |-> requirement, procurement_type |-> procurement_type,
   qty |-> 1, per_payment |-> per_payment]
TwoRuleSets ==
  {{DocRuleOf("acceptance_report", "required", NoType, FALSE),
    DocRuleOf("payment_voucher", "required", NoType, TRUE)},
   {DocRuleOf("acceptance_report", "conditional", "bid", FALSE),
    DocRuleOf("payment_voucher", "conditional", NoType, TRUE)}}

\* Rules and answers that agree on a type, rank above a hundred and repeat.
FourRules == <<Candidate("contract", 90), Candidate("acceptance_report", 86),
               Candidate("invoice", 86), Candidate("word_document", 42)>>
ThreeAnswers ==
  {<<>>,
   <<Candidate("invoice", 40), Candidate("contract", 120), Candidate("invoice", 70)>>,
   <<Candidate("new", 50)>>}
FourRequiredSets == {{}, {"contract"}, {"contract", "invoice"}, {"budget_document"}}

TwoSearchers == {[id |-> "a", role |-> "admin"], [id |-> "p", role |-> "proj_member"]}
TwoPeople == {[role |-> "admin", dept |-> "d1"], [role |-> "dept_manager", dept |-> "d1"]}

\* Sheets that repeat a number, name a number twice with one row faulty, name
\* an unknown department, and have a budget that is not a number.
TwoSheets ==
  {<<SheetRow(0, "d1", "good"), SheetRow(1, "d1", "bad"), SheetRow(1, "d1", "good"),
     SheetRow(1, "d1", "good"), SheetRow(2, "d2", "good")>>,
   <<SheetRow(2, "d1", "good"), SheetRow(0, "d1", "nan")>>}

-----------------------------------------------------------------------------

recordsVars == <<focus, paymentVars, documentVars, gateVars, storeVars, searchVars,
                 classifyVars, archVars, budgetVars, numberVars, teamVars>>

\* The components with several initial states rest in the same one.
RecordsInit ==
  /\ focus \in Parts
  /\ PaymentInit /\ DocumentInit /\ StoreInit /\ SearchInit
  /\ ArchInit /\ NumberInit /\ TeamInit
  /\ GateInit
  /\ focus # "gates" => /\ gatePhase.no = 2 /\ version.status = "draft"
                        /\ version.rules = CHOOSE rules \in DocRuleSets : TRUE
  /\ BudgetInit
  /\ focus # "budgets" => mainBudget.total_budget = 1
  /\ ClassifyInit
  /\ focus # "classification" => file = [matches |-> {}, required |-> {}, current |-> "none"]

\* All components but the one in focus rest.
OthersRest ==
  /\ UNCHANGED focus
  /\ focus # "payments" => UNCHANGED paymentVars
  /\ focus # "documents" => UNCHANGED documentVars
  /\ focus # "gates" => UNCHANGED gateVars
  /\ focus # "files" => UNCHANGED storeVars
  /\ focus # "search" => UNCHANGED searchVars
  /\ focus # "classification" => UNCHANGED classifyVars
  /\ focus # "archives" => UNCHANGED archVars
  /\ focus # "budgets" => UNCHANGED budgetVars
  /\ focus # "numbers" => UNCHANGED numberVars
  /\ focus # "teams" => UNCHANGED teamVars

RecordsNext ==
  \/ focus = "payments" /\ PaymentNext /\ OthersRest
  \/ focus = "documents" /\ DocumentNext /\ OthersRest
  \/ focus = "gates" /\ GateNext /\ OthersRest
  \/ focus = "files" /\ StoreNext /\ OthersRest
  \/ focus = "search" /\ SearchNext /\ OthersRest
  \/ focus = "classification" /\ ClassifyNext /\ OthersRest
  \/ focus = "archives" /\ ArchNext /\ OthersRest
  \/ focus = "budgets" /\ BudgetNext /\ OthersRest
  \/ focus = "numbers" /\ NumberNext /\ OthersRest
  \/ focus = "teams" /\ TeamNext /\ OthersRest

RecordsSpec == RecordsInit /\ [][RecordsNext]_recordsVars

\* Gates, archives, budgets and memberships are followed up to the first
\* commit decided on outdated values, budgets also until one is revived.
UntilOvertaken ==
  /\ ~raced
  /\ archOutdated = {}
  /\ ~overtaken /\ ~revived
  /\ outdated = {}

\* Requests in flight are interchangeable.
Symmetry == Permutations(TwoSessions)

\* Every variable of every component keeps to its type.
RecordsTypeOK ==
  /\ focus = "payments" => PaymentTypeOK
  /\ focus = "documents" => DocumentTypeOK
  /\ focus = "gates" => GateTypeOK
  /\ focus = "files" => StoreTypeOK
  /\ focus = "search" => SearchTypeOK
  /\ focus = "classification" => ClassifyTypeOK
  /\ focus = "archives" => ArchTypeOK
  /\ focus = "budgets" => BudgetTypeOK
  /\ focus = "numbers" => NumberTypeOK
  /\ focus = "teams" => TeamTypeOK

=============================================================================

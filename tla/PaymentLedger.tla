---------------------------- MODULE PaymentLedger ----------------------------
(***************************************************************************)
(* The payments of the sub-projects of one main project and the totals     *)
(* kept beside them (services/payments.py).                                *)
(*                                                                         *)
(* A payment request locks its sub-project, then the main project, then    *)
(* the payment phase, inserts its row, and recomputes both totals with a   *)
(* SELECT SUM before it commits.  Requests that change the status of the   *)
(* sub-project (services/phases.py, services/sub_projects.py) only meet it *)
(* at the row of the sub-project: their UPDATE waits for that lock.        *)
(*                                                                         *)
(* The vouchers a payment carries are left out; a check that fails, or a   *)
(* deadlock PostgreSQL breaks, is a rollback.                              *)
(***************************************************************************)
EXTENDS Integers, FiniteSets, FiniteSetsExt

CONSTANTS
  Subs,           \* the sub-projects of the main project
  PaymentSessions, \* payment requests that may be in flight together
  Payments,       \* rows of payments, numbered in the order of their commits
  NoPayment,      \* what a payment that reverses nothing refers to
  PaymentAmounts, \* amounts, in cents
  Budget          \* sub_projects.budget, the same for every sub-project

ASSUME AmountsAssumption == PaymentAmounts \subseteq Nat \ {0} /\ Budget \in Nat
ASSUME PaymentsAssumption ==
  /\ Payments \subseteq Nat /\ IsFiniteSet(Payments) /\ NoPayment \notin Payments
  /\ Subs # {} /\ IsFiniteSet(Subs)

VARIABLES
  payment,        \* payments rows, a function on the ones that exist
  spent,          \* sub_projects.spent_amount
  mainSpent,      \* main_projects.spent_amount
  status,         \* sub_projects.status
  paySession      \* what each request is doing, and the sums it has read

paymentVars == << payment, spent, mainSpent, status, paySession >>

SubStatuses == {"in_progress", "completed", "closed", "terminated"}

LockedPaymentSubProjectStatuses == {"completed", "closed", "terminated"}

\* A request at rest.  "of" is the payment it reverses, if any, "confirmed"
\* whether its caller accepted to exceed the budget; "seenSpent" is the total
\* it has loaded with the sub-project, "total" and "mainTotal" are the sums it
\* has read.
PaymentIdle(sub) == [at |-> "idle", sub |-> sub, amount |-> 0, of |-> NoPayment,
              confirmed |-> FALSE, seenSpent |-> 0, total |-> 0, mainTotal |-> 0]

NoSession == PaymentIdle(CHOOSE sub \in Subs : TRUE)

PaymentInit ==
  /\ payment = << >>
  /\ spent = [sub \in Subs |-> 0]
  /\ mainSpent = 0
  /\ status = [sub \in Subs |-> "in_progress"]
  /\ paySession = [s \in PaymentSessions |-> NoSession]

SumOf(ps) == MapThenSumSet(LAMBDA p : payment[p].amount, ps)

PaymentsOf(sub) == {p \in DOMAIN payment : payment[p].sub = sub}

-----------------------------------------------------------------------------
(* Row locks, derived from where the requests are. *)

\* Mutant of SubRowFree: the sub-project is read without FOR UPDATE.
SubRowUnlocked(s, sub) == TRUE

\* get_sub_project_for_update.
SubRowFree(s, sub) ==
  \A t \in PaymentSessions \ {s} : paySession[t].at # "idle" => paySession[t].sub # sub

\* Mutant of MainRowFree: the main project is read without FOR UPDATE.
MainRowUnlocked(s) == TRUE

\* get_main_project_for_update.
MainRowFree(s) == \A t \in PaymentSessions \ {s} : paySession[t].at \notin {"main", "summed"}

-----------------------------------------------------------------------------
(* create_payment *)

\* Mutant of PayLockSub: nobody looks at the status.
PayLockSubAnyStatus(s, sub, amount, confirmed) ==
  /\ paySession[s].at = "idle"
  /\ SubRowFree(s, sub)
  /\ paySession' = [paySession EXCEPT ![s] =
       [PaymentIdle(sub) EXCEPT !.at = "sub", !.amount = amount, !.confirmed = confirmed,
                         !.seenSpent = spent[sub]]]
  /\ UNCHANGED << payment, spent, mainSpent, status >>

\* Locks and loads the sub-project and looks at its status.
PayLockSub(s, sub, amount, confirmed) ==
  /\ paySession[s].at = "idle"
  /\ SubRowFree(s, sub)
  /\ status[sub] \notin LockedPaymentSubProjectStatuses
  /\ paySession' = [paySession EXCEPT ![s] =
       [PaymentIdle(sub) EXCEPT !.at = "sub", !.amount = amount, !.confirmed = confirmed,
                         !.seenSpent = spent[sub]]]
  /\ UNCHANGED << payment, spent, mainSpent, status >>

\* reverse_payment locks the sub-project whatever its status.
ReverseLockSub(s, p) ==
  /\ paySession[s].at = "idle"
  /\ p \in DOMAIN payment
  /\ SubRowFree(s, payment[p].sub)
  /\ paySession' = [paySession EXCEPT ![s] =
       [PaymentIdle(payment[p].sub) EXCEPT !.at = "sub", !.amount = 0 - payment[p].amount, !.of = p]]
  /\ UNCHANGED << payment, spent, mainSpent, status >>

\* Either request then locks the main project.
LockMain(s) ==
  /\ paySession[s].at = "sub"
  /\ MainRowFree(s)
  /\ paySession' = [paySession EXCEPT ![s].at = "main"]
  /\ UNCHANGED << payment, spent, mainSpent, status >>

\* Mutant of Allowed: a reversal is not looked for.
AllowedTwice(s) ==
  LET of == paySession[s].of
  IN IF of = NoPayment
     THEN paySession[s].seenSpent + paySession[s].amount <= Budget \/ paySession[s].confirmed
     ELSE payment[of].of = NoPayment

\* A payment above the budget has to be confirmed (_ensure_budget_confirmation);
\* a payment is reversed once, and a reversal never (_get_reversible_payment,
\* get_reversal_for_payment).
Allowed(s) ==
  LET of == paySession[s].of
  IN IF of = NoPayment
     THEN paySession[s].seenSpent + paySession[s].amount <= Budget \/ paySession[s].confirmed
     ELSE /\ payment[of].of = NoPayment
          /\ \A q \in DOMAIN payment : payment[q].of # of

\* The row is flushed, and the two sums are read: that of the sub-project's
\* payments, and that of the sub-projects' totals.
Sum(s) ==
  LET sub == paySession[s].sub
      total == SumOf(PaymentsOf(sub)) + paySession[s].amount
  IN /\ paySession[s].at = "main"
     /\ Allowed(s)
     /\ paySession' = [paySession EXCEPT
          ![s].at = "summed",
          ![s].total = total,
          ![s].mainTotal = total + MapThenSumSet(LAMBDA u : spent[u], Subs \ {sub})]
     /\ UNCHANGED << payment, spent, mainSpent, status >>

\* Mutant of Commit: a reversal refers to its sub-project.
CommitWrongReference(s, p) ==
  LET r == paySession[s]
  IN /\ r.at = "summed"
     /\ p = Cardinality(DOMAIN payment) + 1
     /\ payment' = [q \in DOMAIN payment \cup {p} |->
          IF q = p THEN [sub |-> r.sub, amount |-> r.amount, of |-> r.sub,
                         confirmed |-> r.confirmed]
          ELSE payment[q]]
     /\ spent' = [spent EXCEPT ![r.sub] = r.total]
     /\ mainSpent' = r.mainTotal
     /\ paySession' = [paySession EXCEPT ![s] = NoSession]
     /\ UNCHANGED status

\* The commit writes the row and both totals.
Commit(s, p) ==
  LET r == paySession[s]
  IN /\ r.at = "summed"
     /\ p = Cardinality(DOMAIN payment) + 1
     /\ payment' = [q \in DOMAIN payment \cup {p} |->
          IF q = p THEN [sub |-> r.sub, amount |-> r.amount, of |-> r.of,
                         confirmed |-> r.confirmed]
          ELSE payment[q]]
     /\ spent' = [spent EXCEPT ![r.sub] = r.total]
     /\ mainSpent' = r.mainTotal
     /\ paySession' = [paySession EXCEPT ![s] = NoSession]
     /\ UNCHANGED status

\* A check that fails, a lost connection, a deadlock broken by PostgreSQL.
PaymentRollback(s) ==
  /\ paySession[s].at # "idle"
  /\ paySession' = [paySession EXCEPT ![s] = NoSession]
  /\ UNCHANGED << payment, spent, mainSpent, status >>

\* Promotion of the last phase, closing and terminating write the status of a
\* sub-project: their UPDATE waits for its row.
ChangeStatus(sub, new) ==
  /\ status[sub] # new
  /\ \A t \in PaymentSessions : paySession[t].at # "idle" => paySession[t].sub # sub
  /\ status' = [status EXCEPT ![sub] = new]
  /\ UNCHANGED << payment, spent, mainSpent, paySession >>

PaymentNext ==
  \/ \E s \in PaymentSessions :
       \/ \E sub \in Subs, amount \in PaymentAmounts, confirmed \in BOOLEAN :
            PayLockSub(s, sub, amount, confirmed)
       \/ \E p \in Payments : ReverseLockSub(s, p) \/ Commit(s, p)
       \/ LockMain(s) \/ Sum(s) \/ PaymentRollback(s)
  \/ \E sub \in Subs, new \in SubStatuses \ {"in_progress"} : ChangeStatus(sub, new)

PaymentSpec == PaymentInit /\ [][PaymentNext]_paymentVars

-----------------------------------------------------------------------------
(* Properties *)

PaymentRows == [sub : Subs, amount : Int, of : Payments \cup {NoPayment}, confirmed : BOOLEAN]

\* Every variable keeps to its type.
PaymentTypeOK ==
  /\ DOMAIN payment \subseteq Payments
  /\ \A p \in DOMAIN payment : payment[p] \in PaymentRows
  /\ spent \in [Subs -> Int]
  /\ mainSpent \in Int
  /\ status \in [Subs -> SubStatuses]
  /\ paySession \in [PaymentSessions -> [at : {"idle", "sub", "main", "summed"}, sub : Subs,
                               amount : Int, of : Payments \cup {NoPayment},
                               confirmed : BOOLEAN, seenSpent : Int, total : Int,
                               mainTotal : Int]]

\* The totals are those of the ledger in every committed state, however
\* payments and reversals of one sub-project or of two interleave.
LedgerBalances ==
  /\ \A sub \in Subs : spent[sub] = SumOf(PaymentsOf(sub))
  /\ mainSpent = MapThenSumSet(LAMBDA sub : spent[sub], Subs)

\* A payment is reversed at most once, by a row of the same sub-project with
\* the opposite amount, and no reversal is reversed.
ReversedAtMostOnce ==
  \A p, q \in DOMAIN payment : payment[q].of = p =>
    /\ payment[p].of = NoPayment
    /\ payment[q].sub = payment[p].sub
    /\ payment[q].amount + payment[p].amount = 0
    /\ \A r \in DOMAIN payment : payment[r].of = p => r = q

\* The ledger and its totals.
LedgerIsSound == LedgerBalances /\ ReversedAtMostOnce

PaysOnlyOpenSub(p) ==
  status[payment'[p].sub] \notin LockedPaymentSubProjectStatuses

OverrunIsConfirmed(p) ==
  ~ payment'[p].confirmed => spent'[payment'[p].sub] <= Budget

\* A sub-project that has left in_progress takes no new payment: its status
\* is still what the request had checked when the payment is committed.  And
\* only a confirmed payment takes the total of its sub-project above the
\* budget, even when payments that each fit are made at the same time.
PaysAsAllowed ==
  [][\A p \in DOMAIN payment' \ DOMAIN payment :
       payment'[p].of = NoPayment => PaysOnlyOpenSub(p) /\ OverrunIsConfirmed(p)]_paymentVars

=============================================================================

-------------------------- MODULE Records_proofs --------------------------
(***************************************************************************)
(* Money, gates, members and numbers of projects, for every set of         *)
(* sub-projects, payments, steps, sessions and amounts, and every bound.   *)
(*                                                                         *)
(* Each component has an inductive invariant of its own, and its theorems  *)
(* are about its own specification.  What a request has read and checked   *)
(* holds as long as its row locks do; where it has none, the invariant says *)
(* what nobody else can take back.                                         *)
(*                                                                         *)
(* Totals are sums over rows, and the rows of a sheet have a first one; both *)
(* are defined recursively.  The lemmas about them are proved without an   *)
(* induction scheme: of the parts of a set, or of the prefixes of a sheet, *)
(* for which the equation failed, one would be the smallest.               *)
(***************************************************************************)
EXTENDS MCProjectRecords, Documents_proofs

-----------------------------------------------------------------------------
(* Payments *)

\* The fields of a request; the sums it has read may be anything.
Frame(r) ==
  /\ r = [at |-> r.at, sub |-> r.sub, amount |-> r.amount, of |-> r.of,
          confirmed |-> r.confirmed, seenSpent |-> r.seenSpent,
          total |-> r.total, mainTotal |-> r.mainTotal]
  /\ r.at \in {"idle", "sub", "main", "summed"}
  /\ r.sub \in Subs /\ r.amount \in Int
  /\ r.of \in Payments \cup {NoPayment} /\ r.confirmed \in BOOLEAN

Framed ==
  /\ paySession = [s \in PaymentSessions |-> paySession[s]]
  /\ \A s \in PaymentSessions : Frame(paySession[s])

\* The rows are numbered, and a reversal is of a row that exists.
Numbered ==
  /\ \E n \in Nat : DOMAIN payment = 1 .. n
  /\ DOMAIN payment \subseteq Payments
  /\ \A p \in DOMAIN payment : payment[p] \in PaymentRows
  /\ \A p \in DOMAIN payment : payment[p].of \in DOMAIN payment \cup {NoPayment}

\* The row of a sub-project has one holder.
SubExclusive ==
  \A s, t \in PaymentSessions :
    s # t /\ paySession[s].at # "idle" /\ paySession[t].at # "idle" =>
      paySession[s].sub # paySession[t].sub

\* What a request has checked still holds: the sub-project it pays for is
\* open; the payment it reverses is of its sub-project and, once it has looked,
\* neither reversed nor a reversal.
StillHolds(r) ==
  /\ r.of = NoPayment => status[r.sub] \notin LockedPaymentSubProjectStatuses
  /\ r.of # NoPayment =>
       /\ r.of \in DOMAIN payment
       /\ payment[r.of].sub = r.sub /\ r.amount + payment[r.of].amount = 0
       /\ r.at = "summed" => /\ payment[r.of].of = NoPayment
                             /\ \A q \in DOMAIN payment : payment[q].of # r.of

CheckedHolds ==
  \A s \in PaymentSessions : paySession[s].at # "idle" => StillHolds(paySession[s])

PaymentIInv ==
  /\ Framed
  /\ status \in [Subs -> SubStatuses]
  /\ Numbered
  /\ SubExclusive
  /\ CheckedHolds
  /\ ReversedAtMostOnce

-----------------------------------------------------------------------------
\* A request at rest.
LEMMA PaymentRestIsIdle == Frame(NoSession) /\ NoSession.at = "idle"
BY PaymentsAssumption DEF Frame, NoSession, PaymentIdle

\* Nothing is paid and nobody is at work.
LEMMA PaymentInitHolds == PaymentInit => PaymentIInv
<1> SUFFICES ASSUME PaymentInit PROVE PaymentIInv
  OBVIOUS
<1>1. DOMAIN payment = {} /\ DOMAIN payment = 1 .. 0
  BY DEF PaymentInit
<1>2. Framed
  <2>1. paySession = [s \in PaymentSessions |-> paySession[s]]
    BY DEF PaymentInit
  <2>2. \A s \in PaymentSessions : paySession[s] = NoSession
    BY DEF PaymentInit
  <2> QED BY <2>1, <2>2, PaymentRestIsIdle DEF Framed
<1>3. status \in [Subs -> SubStatuses]
  BY DEF PaymentInit, SubStatuses
<1>4. Numbered /\ ReversedAtMostOnce
  BY <1>1 DEF Numbered, ReversedAtMostOnce
<1>5. SubExclusive /\ CheckedHolds
  BY PaymentRestIsIdle DEF PaymentInit, SubExclusive, CheckedHolds
<1> QED BY <1>2, <1>3, <1>4, <1>5 DEF PaymentIInv

\* A request that only reads and locks: it has its row to itself, and what it
\* has checked holds.
LEMMA PaymentRequestStep ==
  ASSUME PaymentIInv, NEW s \in PaymentSessions, UNCHANGED << payment, status >>,
         paySession' = [paySession EXCEPT ![s] = paySession'[s]],
         LET r == paySession'[s]
         IN /\ Frame(r)
            /\ r.at # "idle" =>
                 /\ \A t \in PaymentSessions \ {s} :
                      paySession[t].at # "idle" => paySession[t].sub # r.sub
                 /\ r.of = NoPayment => status[r.sub] \notin LockedPaymentSubProjectStatuses
                 /\ r.of # NoPayment =>
                      /\ r.of \in DOMAIN payment
                      /\ payment[r.of].sub = r.sub /\ r.amount + payment[r.of].amount = 0
                      /\ r.at = "summed" => /\ payment[r.of].of = NoPayment
                                            /\ \A q \in DOMAIN payment : payment[q].of # r.of
  PROVE  PaymentIInv'
<1>1. DOMAIN paySession = PaymentSessions
  BY DEF PaymentIInv, Framed
<1>2. \A t \in PaymentSessions \ {s} : paySession'[t] = paySession[t]
  BY <1>1
<1>3. paySession' = [t \in PaymentSessions |-> paySession'[t]]
  BY <1>1
<1>4. Framed'
  <2>1. \A t \in PaymentSessions : Frame(paySession'[t])
    BY <1>2 DEF PaymentIInv, Framed
  <2> QED BY <1>3, <2>1 DEF Framed
<1>5. SubExclusive'
  BY <1>2 DEF PaymentIInv, SubExclusive
<1>6. CheckedHolds'
  <2>1. ASSUME NEW t \in PaymentSessions, paySession'[t].at # "idle"
        PROVE  StillHolds(paySession[t])'
    <3>1. CASE t = s
      BY <2>1, <3>1 DEF StillHolds
    <3>2. CASE t # s
      BY <2>1, <3>2, <1>2 DEF PaymentIInv, CheckedHolds, StillHolds
    <3> QED BY <3>1, <3>2
  <2> QED BY <2>1 DEF CheckedHolds
<1> QED BY <1>4, <1>5, <1>6 DEF PaymentIInv, Numbered, ReversedAtMostOnce

\* A payment locks its sub-project and finds it open.
LEMMA PayLockSubStep ==
  ASSUME PaymentIInv, NEW s \in PaymentSessions, NEW sub \in Subs, NEW amount \in PaymentAmounts,
         NEW agreed \in BOOLEAN, PayLockSub(s, sub, amount, agreed)
  PROVE  PaymentIInv'
<1>1. /\ paySession'[s] = [at |-> "sub", sub |-> sub, amount |-> amount, of |-> NoPayment,
                           confirmed |-> agreed, seenSpent |-> spent[sub], total |-> 0,
                           mainTotal |-> 0]
      /\ paySession' = [paySession EXCEPT ![s] = paySession'[s]]
  BY DEF PayLockSub, PaymentIdle, PaymentIInv, Framed
<1>2. amount \in Int
  BY AmountsAssumption
<1>3. UNCHANGED << payment, status >> /\ SubRowFree(s, sub)
      /\ status[sub] \notin LockedPaymentSubProjectStatuses
  BY DEF PayLockSub
<1>4. Frame(paySession'[s])
  BY <1>1, <1>2 DEF Frame
<1> QED BY <1>1, <1>3, <1>4, PaymentRequestStep DEF SubRowFree

\* A reversal locks the sub-project of its payment.
LEMMA ReverseLockSubStep ==
  ASSUME PaymentIInv, NEW s \in PaymentSessions, NEW p \in Payments, ReverseLockSub(s, p)
  PROVE  PaymentIInv'
<1>1. /\ paySession'[s] = [at |-> "sub", sub |-> payment[p].sub, amount |-> 0 - payment[p].amount,
                           of |-> p, confirmed |-> FALSE, seenSpent |-> 0, total |-> 0,
                           mainTotal |-> 0]
      /\ paySession' = [paySession EXCEPT ![s] = paySession'[s]]
  BY DEF ReverseLockSub, PaymentIdle, PaymentIInv, Framed
<1>2. /\ UNCHANGED << payment, status >> /\ SubRowFree(s, payment[p].sub)
      /\ p \in DOMAIN payment
  BY DEF ReverseLockSub
<1>3. payment[p].sub \in Subs /\ payment[p].amount \in Int /\ p # NoPayment
  BY <1>2, PaymentsAssumption DEF PaymentIInv, Numbered, PaymentRows
<1>4. 0 - payment[p].amount \in Int /\ (0 - payment[p].amount) + payment[p].amount = 0
  BY <1>3
<1>5. Frame(paySession'[s])
  BY <1>1, <1>3, <1>4 DEF Frame
<1> QED BY <1>1, <1>2, <1>3, <1>4, <1>5, PaymentRequestStep DEF SubRowFree

\* A request goes on to the main project, and reads the sums.
LEMMA LockMainStep ==
  ASSUME PaymentIInv, NEW s \in PaymentSessions, LockMain(s)
  PROVE  PaymentIInv'
<1> DEFINE r == paySession[s]
<1>1. /\ paySession'[s] = [r EXCEPT !.at = "main"]
      /\ paySession' = [paySession EXCEPT ![s] = paySession'[s]]
      /\ r.at = "sub" /\ UNCHANGED << payment, status >>
  BY DEF LockMain, PaymentIInv, Framed
<1>2. paySession'[s] = [at |-> "main", sub |-> r.sub, amount |-> r.amount, of |-> r.of,
                        confirmed |-> r.confirmed, seenSpent |-> r.seenSpent,
                        total |-> r.total, mainTotal |-> r.mainTotal]
  BY <1>1 DEF PaymentIInv, Framed, Frame
<1>3. \A t \in PaymentSessions \ {s} : paySession[t].at # "idle" => paySession[t].sub # r.sub
  BY <1>1 DEF PaymentIInv, SubExclusive
<1>4. /\ r.of = NoPayment => status[r.sub] \notin LockedPaymentSubProjectStatuses
      /\ r.of # NoPayment => /\ r.of \in DOMAIN payment
                             /\ payment[r.of].sub = r.sub /\ r.amount + payment[r.of].amount = 0
  BY <1>1 DEF PaymentIInv, CheckedHolds, StillHolds
<1>5. /\ r.sub \in Subs /\ r.amount \in Int /\ r.of \in Payments \cup {NoPayment}
      /\ r.confirmed \in BOOLEAN
  BY DEF PaymentIInv, Framed, Frame
<1>6. Frame(paySession'[s])
  BY <1>2, <1>5 DEF Frame
<1> HIDE DEF r
<1> QED BY <1>1, <1>2, <1>3, <1>4, <1>6, PaymentRequestStep

LEMMA SumStep ==
  ASSUME PaymentIInv, NEW s \in PaymentSessions, Sum(s)
  PROVE  PaymentIInv'
<1> DEFINE r == paySession[s]
<1>1. PICK total, mainTotal :
         paySession' = [paySession EXCEPT ![s] = [r EXCEPT !.at = "summed", !.total = total,
                                                           !.mainTotal = mainTotal]]
  BY DEF Sum, PaymentIInv, Framed
<1>2. /\ paySession' = [paySession EXCEPT ![s] = paySession'[s]]
      /\ paySession'[s] = [r EXCEPT !.at = "summed", !.total = total, !.mainTotal = mainTotal]
  BY <1>1 DEF PaymentIInv, Framed
<1>7. paySession'[s] = [at |-> "summed", sub |-> r.sub, amount |-> r.amount, of |-> r.of,
                        confirmed |-> r.confirmed, seenSpent |-> r.seenSpent,
                        total |-> total, mainTotal |-> mainTotal]
  BY <1>2 DEF PaymentIInv, Framed, Frame
<1>3. /\ r.at = "main" /\ UNCHANGED << payment, status >>
      /\ r.of # NoPayment => /\ payment[r.of].of = NoPayment
                             /\ \A q \in DOMAIN payment : payment[q].of # r.of
  BY DEF Sum, Allowed
<1>4. \A t \in PaymentSessions \ {s} : paySession[t].at # "idle" => paySession[t].sub # r.sub
  BY <1>3 DEF PaymentIInv, SubExclusive
<1>5. /\ r.of = NoPayment => status[r.sub] \notin LockedPaymentSubProjectStatuses
      /\ r.of # NoPayment => /\ r.of \in DOMAIN payment
                             /\ payment[r.of].sub = r.sub /\ r.amount + payment[r.of].amount = 0
  BY <1>3 DEF PaymentIInv, CheckedHolds, StillHolds
<1>6. /\ r.sub \in Subs /\ r.amount \in Int /\ r.of \in Payments \cup {NoPayment}
      /\ r.confirmed \in BOOLEAN
  BY DEF PaymentIInv, Framed, Frame
<1>8. Frame(paySession'[s])
  BY <1>7, <1>6 DEF Frame
<1> HIDE DEF r
<1> QED BY <1>2, <1>3, <1>4, <1>5, <1>7, <1>8, PaymentRequestStep

LEMMA PaymentRollbackStep ==
  ASSUME PaymentIInv, NEW s \in PaymentSessions, PaymentRollback(s)
  PROVE  PaymentIInv'
<1>1. /\ paySession'[s] = NoSession
      /\ paySession' = [paySession EXCEPT ![s] = paySession'[s]]
      /\ UNCHANGED << payment, status >>
  BY DEF PaymentRollback, PaymentIInv, Framed
<1> QED BY <1>1, PaymentRestIsIdle, PaymentRequestStep

\* The status of a sub-project changes while nobody holds its row.
LEMMA ChangeStatusStep ==
  ASSUME PaymentIInv, NEW sub \in Subs, NEW new \in SubStatuses, ChangeStatus(sub, new)
  PROVE  PaymentIInv'
<1>1. /\ UNCHANGED << payment, paySession >> /\ status' = [status EXCEPT ![sub] = new]
      /\ \A t \in PaymentSessions : paySession[t].at # "idle" => paySession[t].sub # sub
  BY DEF ChangeStatus
<1>2. CheckedHolds'
  BY <1>1 DEF PaymentIInv, CheckedHolds, StillHolds, Framed
<1> QED BY <1>1, <1>2 DEF PaymentIInv, Framed, Numbered, SubExclusive, ReversedAtMostOnce

\* The commit writes a new row.
LEMMA PaymentCommitStep ==
  ASSUME PaymentIInv, NEW s \in PaymentSessions, NEW p \in Payments, Commit(s, p)
  PROVE  PaymentIInv'
<1> DEFINE r == paySession[s]
           row == [sub |-> r.sub, amount |-> r.amount, of |-> r.of, confirmed |-> r.confirmed]
<1>1. /\ r.at = "summed" /\ UNCHANGED status
      /\ payment' = [q \in DOMAIN payment \cup {p} |-> IF q = p THEN row ELSE payment[q]]
      /\ paySession' = [paySession EXCEPT ![s] = NoSession]
      /\ p = Cardinality(DOMAIN payment) + 1
  BY DEF Commit
<1>2. PICK n \in Nat : DOMAIN payment = 1 .. n
  BY DEF PaymentIInv, Numbered
<1>3. p = n + 1 /\ p \notin DOMAIN payment /\ DOMAIN payment' = 1 .. (n + 1)
  <2>1. Cardinality(1 .. n) = n
    BY FS_Interval
  <2> QED BY <1>1, <1>2, <2>1
<1>4. /\ r.sub \in Subs /\ r.amount \in Int /\ r.of \in Payments \cup {NoPayment}
      /\ r.confirmed \in BOOLEAN
  BY DEF PaymentIInv, Framed, Frame
<1>5. r.of # NoPayment => /\ r.of \in DOMAIN payment
                          /\ payment[r.of].sub = r.sub /\ r.amount + payment[r.of].amount = 0
                          /\ payment[r.of].of = NoPayment
                          /\ \A q \in DOMAIN payment : payment[q].of # r.of
  BY <1>1 DEF PaymentIInv, CheckedHolds, StillHolds
<1>6. /\ payment'[p] = row /\ \A q \in DOMAIN payment : payment'[q] = payment[q]
      /\ DOMAIN payment' = DOMAIN payment \cup {p}
      /\ row.sub = r.sub /\ row.amount = r.amount /\ row.of = r.of
      /\ row \in PaymentRows
  BY <1>1, <1>3, <1>4 DEF PaymentRows
<1>7. \A t \in PaymentSessions \ {s} : paySession'[t] = paySession[t]
  BY <1>1 DEF PaymentIInv, Framed
<1>8. paySession'[s] = NoSession /\ paySession' = [t \in PaymentSessions |-> paySession'[t]]
  BY <1>1 DEF PaymentIInv, Framed
<1>9. \A t \in PaymentSessions \ {s} : paySession[t].at # "idle" => paySession[t].sub # r.sub
  BY <1>1 DEF PaymentIInv, SubExclusive
<1> HIDE DEF r, row
<1>10. Framed'
  <2>1. \A t \in PaymentSessions : Frame(paySession'[t])
    BY <1>7, <1>8, PaymentRestIsIdle DEF PaymentIInv, Framed
  <2> QED BY <1>8, <2>1 DEF Framed
<1>11. Numbered'
  <2>1. \A q \in DOMAIN payment' : payment'[q].of \in DOMAIN payment' \cup {NoPayment}
    BY <1>4, <1>5, <1>6 DEF PaymentIInv, Numbered
  <2>2. n + 1 \in Nat
    OBVIOUS
  <2> QED BY <1>3, <1>6, <2>1, <2>2 DEF PaymentIInv, Numbered
<1>12. SubExclusive'
  BY <1>7, <1>8, PaymentRestIsIdle DEF PaymentIInv, SubExclusive
<1>13. CheckedHolds'
  <2>1. ASSUME NEW t \in PaymentSessions \ {s}, paySession[t].at # "idle"
        PROVE  StillHolds(paySession[t])'
    <3> DEFINE q == paySession[t]
    <3>1. /\ q.of = NoPayment => status[q.sub] \notin LockedPaymentSubProjectStatuses
          /\ q.of # NoPayment =>
               /\ q.of \in DOMAIN payment
               /\ payment[q.of].sub = q.sub /\ q.amount + payment[q.of].amount = 0
               /\ q.at = "summed" => /\ payment[q.of].of = NoPayment
                                     /\ \A x \in DOMAIN payment : payment[x].of # q.of
      BY <2>1 DEF PaymentIInv, CheckedHolds, StillHolds
    <3>2. q.of # NoPayment => r.of # q.of
      BY <2>1, <3>1, <1>5, <1>9
    <3>3. paySession'[t] = q
      BY <1>7
    <3> HIDE DEF q
    <3>4. q.of # NoPayment /\ q.at = "summed" =>
            \A x \in DOMAIN payment' : payment'[x].of # q.of
      BY <3>1, <3>2, <1>6
    <3>5. q.of # NoPayment => payment'[q.of] = payment[q.of] /\ q.of \in DOMAIN payment'
      BY <3>1, <1>6
    <3> QED BY <1>1, <3>1, <3>3, <3>4, <3>5 DEF StillHolds
  <2>2. ASSUME NEW t \in PaymentSessions, paySession'[t].at # "idle"
        PROVE  StillHolds(paySession[t])'
    <3>1. t # s /\ paySession'[t] = paySession[t]
      BY <2>2, <1>7, <1>8, PaymentRestIsIdle
    <3> QED BY <2>1, <2>2, <3>1
  <2> QED BY <2>2 DEF CheckedHolds
<1>14. ReversedAtMostOnce'
  <2> SUFFICES ASSUME NEW x \in DOMAIN payment', NEW y \in DOMAIN payment',
                      payment'[y].of = x
               PROVE  /\ payment'[x].of = NoPayment
                      /\ payment'[y].sub = payment'[x].sub
                      /\ payment'[y].amount + payment'[x].amount = 0
                      /\ \A z \in DOMAIN payment' : payment'[z].of = x => y = z
    BY DEF ReversedAtMostOnce
  <2>1. x \in DOMAIN payment
    <3>1. x # NoPayment /\ (x = p => x \notin DOMAIN payment)
      BY <1>3, <1>6, PaymentsAssumption DEF PaymentIInv, Numbered
    <3> QED BY <3>1, <1>3, <1>5, <1>6 DEF PaymentIInv, Numbered
  <2>2. CASE y = p
    BY <2>1, <2>2, <1>3, <1>5, <1>6, PaymentsAssumption DEF PaymentIInv, Numbered
  <2>3. CASE y \in DOMAIN payment
    <3>1. x # NoPayment
      BY <2>1, PaymentsAssumption DEF PaymentIInv, Numbered
    <3>2. payment'[p].of # x
      BY <2>3, <3>1, <1>5, <1>6
    <3> QED BY <2>1, <2>3, <3>2, <1>6 DEF PaymentIInv, ReversedAtMostOnce
  <2> QED BY <2>2, <2>3, <1>6
<1> QED BY <1>1, <1>10, <1>11, <1>12, <1>13, <1>14 DEF PaymentIInv

\* Every step keeps the invariant.
LEMMA PaymentStepKeeps == PaymentIInv /\ [PaymentNext]_paymentVars => PaymentIInv'
<1> SUFFICES ASSUME PaymentIInv, [PaymentNext]_paymentVars PROVE PaymentIInv'
  OBVIOUS
<1>1. CASE UNCHANGED paymentVars
  BY <1>1 DEF paymentVars, PaymentIInv, Framed, Numbered, SubExclusive, CheckedHolds, StillHolds,
              ReversedAtMostOnce
<1>2. CASE \E s \in PaymentSessions, sub \in Subs, amount \in PaymentAmounts,
              agreed \in BOOLEAN : PayLockSub(s, sub, amount, agreed)
  BY <1>2, PayLockSubStep
<1>3. CASE \E s \in PaymentSessions : \E p \in Payments : ReverseLockSub(s, p) \/ Commit(s, p)
  BY <1>3, ReverseLockSubStep, PaymentCommitStep
<1>4. CASE \E s \in PaymentSessions : LockMain(s) \/ Sum(s) \/ PaymentRollback(s)
  BY <1>4, LockMainStep, SumStep, PaymentRollbackStep
<1>5. CASE \E sub \in Subs, new \in SubStatuses \ {"in_progress"} : ChangeStatus(sub, new)
  BY <1>5, ChangeStatusStep
<1> QED BY <1>1, <1>2, <1>3, <1>4, <1>5 DEF PaymentNext

-----------------------------------------------------------------------------
\* The strengthened invariant holds in every state.
THEOREM PaymentInductive == PaymentSpec => []PaymentIInv
BY PaymentInitHolds, PaymentStepKeeps, PTL DEF PaymentSpec

\* A payment is reversed at most once, by a row of its sub-project with the
\* opposite amount, and no reversal is reversed: the half of LedgerIsSound
\* about the rows (reverse_payment).
THEOREM ReversalsAreSound == PaymentSpec => []ReversedAtMostOnce
<1>1. PaymentIInv => ReversedAtMostOnce
  BY DEF PaymentIInv
<1> QED BY <1>1, PaymentInductive, PTL

\* A sub-project that is completed, closed or terminated takes no new payment,
\* whatever becomes of its status while the payment is on its way: the half of
\* PaysAsAllowed about the status (create_payment).
THEOREM OnlyOpenSubsPay ==
  PaymentSpec =>
    [][\A p \in DOMAIN payment' \ DOMAIN payment :
         payment'[p].of = NoPayment => PaysOnlyOpenSub(p)]_paymentVars
<1>1. ASSUME PaymentIInv, [PaymentNext]_paymentVars
      PROVE  \A p \in DOMAIN payment' \ DOMAIN payment :
               payment'[p].of = NoPayment => PaysOnlyOpenSub(p)
  <2> SUFFICES ASSUME NEW p \in DOMAIN payment' \ DOMAIN payment, payment'[p].of = NoPayment
               PROVE  PaysOnlyOpenSub(p)
    BY SMTT(30)
  <2>1. PICK s \in PaymentSessions, q \in Payments : Commit(s, q)
    BY <1>1 DEF PaymentNext, paymentVars, PayLockSub, ReverseLockSub, LockMain, Sum,
                PaymentRollback, ChangeStatus
  <2>2. /\ payment' = [x \in DOMAIN payment \cup {q} |->
                         IF x = q THEN [sub |-> paySession[s].sub, amount |-> paySession[s].amount,
                                        of |-> paySession[s].of,
                                        confirmed |-> paySession[s].confirmed]
                         ELSE payment[x]]
        /\ paySession[s].at = "summed"
    BY <2>1 DEF Commit
  <2>3. payment'[p].sub = paySession[s].sub /\ payment'[p].of = paySession[s].of
    BY <2>2
  <2>4. status[paySession[s].sub] \notin LockedPaymentSubProjectStatuses
    BY <1>1, <2>2, <2>3 DEF PaymentIInv, CheckedHolds, StillHolds
  <2> QED BY <2>3, <2>4 DEF PaysOnlyOpenSub
<1> QED BY <1>1, PaymentInductive, PTL DEF PaymentSpec

-----------------------------------------------------------------------------
(* The totals.  A request that holds the row of its sub-project knows its    *)
(* total, and one that holds the main project's as well knows that total.    *)

\* What MapThenSumSet adds up are the amounts of the rows.
LEMMA AmountSum ==
  ASSUME NEW pay, NEW ps, IsFiniteSet(ps)
  PROVE  MapThenSumSet(LAMBDA p : pay[p].amount, ps) = SumOver([p \in ps |-> pay[p].amount], ps)
<1> DEFINE F == [p \in ps |-> pay[p].amount]
           It(h) == h = [s \in SUBSET ps |-> IF s = {} THEN 0
                                            ELSE pay[CHOOSE x \in s : TRUE].amount
                                                 + h[s \ {CHOOSE x \in s : TRUE}]]
<1>1. \A h : It(h) <=> SumsUp(h, F, ps)
  BY PickIsIn DEF SumsUp, Pick
<1>2. MapThenSumSet(LAMBDA p : pay[p].amount, ps) = (CHOOSE h : It(h))[ps]
  BY Zenon DEF MapThenSumSet, MapThenFoldSet
<1> HIDE DEF It, F
<1>3. \E h : SumsUp(h, F, ps)
  BY SumsExist
<1>4. It(CHOOSE h : It(h)) /\ SumsUp(CHOOSE h : SumsUp(h, F, ps), F, ps)
  BY <1>1, <1>3
<1>5. SumsUp(CHOOSE h : It(h), F, ps)
  BY <1>1, <1>4
<1> QED BY <1>2, <1>4, <1>5, SumsAgree DEF SumOver, F

\* The same for the totals of the sub-projects.
LEMMA TotalSum ==
  ASSUME NEW f, NEW us, IsFiniteSet(us)
  PROVE  MapThenSumSet(LAMBDA u : f[u], us) = SumOver(f, us)
<1> DEFINE It(h) == h = [s \in SUBSET us |-> IF s = {} THEN 0
                                            ELSE f[CHOOSE x \in s : TRUE]
                                                 + h[s \ {CHOOSE x \in s : TRUE}]]
<1>1. \A h : It(h) <=> SumsUp(h, f, us)
  BY PickIsIn DEF SumsUp, Pick
<1>2. MapThenSumSet(LAMBDA u : f[u], us) = (CHOOSE h : It(h))[us]
  BY Zenon DEF MapThenSumSet, MapThenFoldSet
<1> HIDE DEF It
<1>3. \E h : SumsUp(h, f, us)
  BY SumsExist
<1>4. It(CHOOSE h : It(h)) /\ SumsUp(CHOOSE h : SumsUp(h, f, us), f, us)
  BY <1>1, <1>3
<1>5. SumsUp(CHOOSE h : It(h), f, us)
  BY <1>1, <1>4
<1> QED BY <1>2, <1>4, <1>5, SumsAgree DEF SumOver

SumsTyped ==
  /\ spent \in [Subs -> Int] /\ mainSpent \in Int
  /\ \A s \in PaymentSessions : /\ paySession[s].seenSpent \in Int
                               /\ paySession[s].total \in Int /\ paySession[s].mainTotal \in Int

\* The row of the main project has one holder.
MainExclusive ==
  \A s, t \in PaymentSessions :
    s # t /\ paySession[s].at \in {"main", "summed"} => paySession[t].at \notin {"main", "summed"}

\* The totals a request has seen or made are those of this moment.
TotalsHold(r) ==
  /\ r.of = NoPayment => r.seenSpent = spent[r.sub]
  /\ r.at = "summed" =>
       /\ r.total = spent[r.sub] + r.amount /\ r.mainTotal = mainSpent + r.amount
       /\ r.of = NoPayment /\ ~ r.confirmed => r.total <= Budget

\* What the payments of a sub-project add up to.
PaidTo(sub) == SumOver([p \in PaymentsOf(sub) |-> payment[p].amount], PaymentsOf(sub))

\* LedgerBalances, with the sums of SumOver.
TotalsAreSums ==
  /\ \A sub \in Subs : spent[sub] = PaidTo(sub)
  /\ mainSpent = SumOver(spent, Subs)

LedgerIInv ==
  /\ PaymentIInv /\ SumsTyped /\ MainExclusive /\ TotalsAreSums
  /\ \A s \in PaymentSessions : paySession[s].at # "idle" => TotalsHold(paySession[s])

\* There are finitely many rows.
LEMMA FinitelyPaid ==
  ASSUME PaymentIInv
  PROVE  IsFiniteSet(DOMAIN payment) /\ \A sub : IsFiniteSet(PaymentsOf(sub))
<1>1. IsFiniteSet(DOMAIN payment)
  BY FS_Interval DEF PaymentIInv, Numbered
<1> QED BY <1>1, FS_Subset DEF PaymentsOf

LEMMA PaidIsSum ==
  ASSUME PaymentIInv, NEW sub
  PROVE  SumOf(PaymentsOf(sub)) = PaidTo(sub)
BY AmountSum, FinitelyPaid DEF SumOf, MapThenSumSet, MapThenFoldSet, PaidTo

LEMMA OthersIsSum ==
  ASSUME NEW us \in SUBSET Subs
  PROVE  MapThenSumSet(LAMBDA u : spent[u], us) = SumOver(spent, us)
BY TotalSum, FS_Subset, PaymentsAssumption DEF MapThenSumSet, MapThenFoldSet

LEMMA LedgerInitHolds == PaymentInit => LedgerIInv
<1> SUFFICES ASSUME PaymentInit PROVE LedgerIInv
  OBVIOUS
<1>1. /\ PaymentIInv
      /\ \A s \in PaymentSessions : /\ paySession[s].at = "idle" /\ paySession[s].seenSpent = 0
                                   /\ paySession[s].total = 0 /\ paySession[s].mainTotal = 0
  BY PaymentInitHolds DEF PaymentInit, NoSession, PaymentIdle
<1>2. \A sub : PaymentsOf(sub) = {}
  BY DEF PaymentInit, PaymentsOf
<1>3. \A sub : PaidTo(sub) = 0
  BY <1>2, SumOverStep, FS_EmptySet DEF PaidTo
<1>4. spent = [sub \in Subs |-> 0] /\ mainSpent = 0
  BY DEF PaymentInit
<1>5. SumOver(spent, Subs) = 0
  <2> DEFINE Wrong == {A \in SUBSET Subs : SumOver(spent, A) # 0}
  <2> SUFFICES ASSUME Wrong # {} PROVE FALSE
    OBVIOUS
  <2>1. Wrong \subseteq SUBSET Subs /\ Wrong # {}
    OBVIOUS
  <2> HIDE DEF Wrong
  <2>2. PICK A \in Wrong : \A B \in Wrong : B \subseteq A => B = A
    BY <2>1, SmallestPart, PaymentsAssumption
  <2> USE DEF Wrong
  <2>3. IsFiniteSet(A) /\ A \subseteq Subs
    BY FS_Subset, PaymentsAssumption
  <2>4. A # {}
    BY <2>3, SumOverStep
  <2>5. Pick(A) \in A /\ SumOver(spent, A) = spent[Pick(A)] + SumOver(spent, A \ {Pick(A)})
    BY <2>3, <2>4, PickIsIn, SumOverStep
  <2>6. SumOver(spent, A \ {Pick(A)}) = 0
    BY <2>2, <2>3, <2>5
  <2> QED BY <1>4, <2>3, <2>5, <2>6
<1> QED BY <1>1, <1>3, <1>4, <1>5
        DEF LedgerIInv, SumsTyped, MainExclusive, TotalsAreSums

\* A request that moves no money: what it has seen is right, and it has the
\* main project to itself once it has locked it.
LEMMA LedgerRequestStep ==
  ASSUME LedgerIInv, PaymentIInv', NEW s \in PaymentSessions,
         UNCHANGED << payment, spent, mainSpent >>,
         paySession' = [paySession EXCEPT ![s] = paySession'[s]],
         LET r == paySession'[s]
         IN /\ r.seenSpent \in Int /\ r.total \in Int /\ r.mainTotal \in Int
            /\ r.at \in {"main", "summed"} =>
                 \A t \in PaymentSessions \ {s} : paySession[t].at \notin {"main", "summed"}
            /\ r.at # "idle" => TotalsHold(r)
  PROVE  LedgerIInv'
<1>1. \A t \in PaymentSessions \ {s} : paySession'[t] = paySession[t]
  BY DEF LedgerIInv, PaymentIInv, Framed
<1>2. SumsTyped'
  BY <1>1 DEF LedgerIInv, SumsTyped
<1>3. MainExclusive'
  BY <1>1 DEF LedgerIInv, MainExclusive
<1>4. \A sub : PaidTo(sub)' = PaidTo(sub)
  BY DEF PaidTo, PaymentsOf
<1>5. TotalsAreSums'
  BY <1>4 DEF LedgerIInv, TotalsAreSums
<1>6. ASSUME NEW t \in PaymentSessions, paySession'[t].at # "idle"
      PROVE  TotalsHold(paySession[t])'
  <2>1. CASE t = s
    BY <1>6, <2>1 DEF TotalsHold
  <2>2. CASE t # s
    BY <1>1, <1>6, <2>2 DEF LedgerIInv, TotalsHold
  <2> QED BY <2>1, <2>2
<1> QED BY <1>2, <1>3, <1>5, <1>6 DEF LedgerIInv

LEMMA LedgerReads ==
  ASSUME LedgerIInv, PaymentIInv', NEW s \in PaymentSessions,
         \/ \E sub \in Subs, amount \in PaymentAmounts, agreed \in BOOLEAN :
              PayLockSub(s, sub, amount, agreed)
         \/ \E p \in Payments : ReverseLockSub(s, p)
         \/ LockMain(s) \/ PaymentRollback(s)
  PROVE  LedgerIInv'
<1>1. paySession = [t \in PaymentSessions |-> paySession[t]] /\ Frame(paySession[s])
  BY DEF LedgerIInv, PaymentIInv, Framed
<1>2. ASSUME NEW sub \in Subs, NEW amount \in PaymentAmounts, NEW agreed \in BOOLEAN,
             PayLockSub(s, sub, amount, agreed)
      PROVE  LedgerIInv'
  <2>1. /\ paySession'[s] = [at |-> "sub", sub |-> sub, amount |-> amount, of |-> NoPayment,
                             confirmed |-> agreed, seenSpent |-> spent[sub], total |-> 0,
                             mainTotal |-> 0]
        /\ paySession' = [paySession EXCEPT ![s] = paySession'[s]]
        /\ UNCHANGED << payment, spent, mainSpent >>
    BY <1>1, <1>2 DEF PayLockSub, PaymentIdle
  <2>2. spent[sub] \in Int
    BY DEF LedgerIInv, SumsTyped
  <2> QED BY <2>1, <2>2, LedgerRequestStep DEF TotalsHold
<1>3. ASSUME NEW p \in Payments, ReverseLockSub(s, p)
      PROVE  LedgerIInv'
  <2>1. /\ paySession'[s] = [at |-> "sub", sub |-> payment[p].sub, amount |-> 0 - payment[p].amount,
                             of |-> p, confirmed |-> FALSE, seenSpent |-> 0, total |-> 0,
                             mainTotal |-> 0]
        /\ paySession' = [paySession EXCEPT ![s] = paySession'[s]]
        /\ UNCHANGED << payment, spent, mainSpent >>
    BY <1>1, <1>3 DEF ReverseLockSub, PaymentIdle
  <2>2. p # NoPayment
    BY PaymentsAssumption
  <2> QED BY <2>1, <2>2, LedgerRequestStep DEF TotalsHold
<1>4. CASE LockMain(s)
  <2> DEFINE r == paySession[s]
  <2>1. /\ paySession'[s] = [at |-> "main", sub |-> r.sub, amount |-> r.amount, of |-> r.of,
                             confirmed |-> r.confirmed, seenSpent |-> r.seenSpent,
                             total |-> r.total, mainTotal |-> r.mainTotal]
        /\ paySession' = [paySession EXCEPT ![s] = paySession'[s]]
        /\ UNCHANGED << payment, spent, mainSpent >>
    BY <1>1, <1>4 DEF LockMain, Frame
  <2>2. r.at = "sub" /\ MainRowFree(s)
    BY <1>4 DEF LockMain
  <2>3. /\ r.seenSpent \in Int /\ r.total \in Int /\ r.mainTotal \in Int
        /\ r.of = NoPayment => r.seenSpent = spent[r.sub]
    BY <2>2 DEF LedgerIInv, SumsTyped, TotalsHold
  <2> HIDE DEF r
  <2> QED BY <2>1, <2>2, <2>3, LedgerRequestStep DEF TotalsHold, MainRowFree
<1>5. CASE PaymentRollback(s)
  <2>1. /\ paySession'[s] = NoSession
        /\ paySession' = [paySession EXCEPT ![s] = paySession'[s]]
        /\ UNCHANGED << payment, spent, mainSpent >>
    BY <1>1, <1>5 DEF PaymentRollback
  <2>2. /\ NoSession.at = "idle" /\ NoSession.seenSpent = 0
        /\ NoSession.total = 0 /\ NoSession.mainTotal = 0
    BY DEF NoSession, PaymentIdle
  <2> QED BY <2>1, <2>2, LedgerRequestStep
<1> QED BY <1>2, <1>3, <1>4, <1>5

\* The sums a request reads are those of its sub-project and of all of them,
\* with its own amount.
LEMMA LedgerSum ==
  ASSUME LedgerIInv, PaymentIInv', NEW s \in PaymentSessions, Sum(s)
  PROVE  LedgerIInv'
<1> DEFINE r == paySession[s]
           total == spent[r.sub] + r.amount
           mainTotal == mainSpent + r.amount
           others == SumOver(spent, Subs \ {r.sub})
<1>1. /\ paySession = [t \in PaymentSessions |-> paySession[t]] /\ Frame(r)
      /\ r.sub \in Subs /\ r.amount \in Int
  BY DEF LedgerIInv, PaymentIInv, Framed, Frame
<1>2. /\ r.at = "main" /\ UNCHANGED << payment, spent, mainSpent >>
      /\ r.of = NoPayment => r.seenSpent + r.amount <= Budget \/ r.confirmed
  BY DEF Sum, Allowed
<1>3. /\ spent[r.sub] \in Int /\ mainSpent \in Int /\ r.seenSpent \in Int
      /\ r.of = NoPayment => r.seenSpent = spent[r.sub]
  BY <1>1, <1>2 DEF LedgerIInv, SumsTyped, TotalsHold
<1>4. SumOf(PaymentsOf(r.sub)) + r.amount = total
  BY <1>1, PaidIsSum DEF LedgerIInv, TotalsAreSums
<1>5. MapThenSumSet(LAMBDA u : spent[u], Subs \ {r.sub}) = others
  BY OthersIsSum DEF MapThenSumSet, MapThenFoldSet
<1>6. mainSpent = spent[r.sub] + others /\ others \in Int
  <2>1. IsFiniteSet(Subs) /\ IsFiniteSet(Subs \ {r.sub}) /\ \A u \in Subs : spent[u] \in Int
    BY FS_Subset, PaymentsAssumption DEF LedgerIInv, SumsTyped
  <2>2. others \in Int
    BY <2>1, SumOverType
  <2> QED BY SMTT(30), <1>1, <2>1, <2>2, SumOverRemove DEF LedgerIInv, TotalsAreSums
<1>7. total + others = mainTotal
  BY <1>1, <1>3, <1>6
<1>8. paySession' = [paySession EXCEPT
          ![s].at = "summed", ![s].total = SumOf(PaymentsOf(r.sub)) + r.amount,
          ![s].mainTotal = SumOf(PaymentsOf(r.sub)) + r.amount
                             + MapThenSumSet(LAMBDA u : spent[u], Subs \ {r.sub})]
  BY Zenon DEF Sum
<1>9. paySession'[s] = [at |-> "summed", sub |-> r.sub, amount |-> r.amount, of |-> r.of,
                        confirmed |-> r.confirmed, seenSpent |-> r.seenSpent,
                        total |-> total, mainTotal |-> mainTotal]
  <2> DEFINE a == SumOf(PaymentsOf(r.sub)) + r.amount
             b == MapThenSumSet(LAMBDA u : spent[u], Subs \ {r.sub})
  <2>1. paySession' = [paySession EXCEPT ![s].at = "summed", ![s].total = a, ![s].mainTotal = a + b]
    BY <1>8
  <2>2. a = total /\ b = others
    BY <1>4, <1>5
  <2> HIDE DEF a, b
  <2> QED BY <1>1, <1>7, <2>1, <2>2 DEF Frame
<1>10. paySession' = [paySession EXCEPT ![s] = paySession'[s]]
  <2> DEFINE a == SumOf(PaymentsOf(r.sub)) + r.amount
             b == MapThenSumSet(LAMBDA u : spent[u], Subs \ {r.sub})
  <2>1. paySession' = [paySession EXCEPT ![s].at = "summed", ![s].total = a, ![s].mainTotal = a + b]
    BY <1>8
  <2> HIDE DEF a, b
  <2> QED BY <1>1, <2>1
<1>11. \A t \in PaymentSessions \ {s} : paySession[t].at \notin {"main", "summed"}
  BY <1>2 DEF LedgerIInv, MainExclusive
<1>12. total \in Int /\ mainTotal \in Int
  BY <1>1, <1>3
<1> HIDE DEF r
<1> QED BY <1>2, <1>3, <1>9, <1>10, <1>11, <1>12, LedgerRequestStep DEF TotalsHold

\* What a sum becomes when one value changes.
LEMMA SumOverWrite ==
  ASSUME NEW S, IsFiniteSet(S), NEW f, NEW g, NEW x \in S, \A y \in S : f[y] \in Int,
         g[x] \in Int, \A y \in S \ {x} : g[y] = f[y]
  PROVE  SumOver(g, S) = (SumOver(f, S) - f[x]) + g[x]
<1>1. IsFiniteSet(S \ {x}) /\ \A y \in S : f[y] \in Int /\ g[y] \in Int
  BY FS_Subset
<1>2. SumOver(f, S) = f[x] + SumOver(f, S \ {x})
  BY <1>1, SumOverRemove
<1>3. SumOver(g, S) = g[x] + SumOver(g, S \ {x})
  BY <1>1, SumOverRemove
<1>4. SumOver(g, S \ {x}) = SumOver(f, S \ {x})
  BY <1>1, SumOverSame
<1>5. SumOver(f, S \ {x}) \in Int
  BY <1>1, SumOverType
<1> QED BY <1>1, <1>2, <1>3, <1>4, <1>5

\* The commit adds the row to its sub-project, and no other total moves.
LEMMA LedgerCommit ==
  ASSUME LedgerIInv, PaymentIInv', NEW s \in PaymentSessions, NEW p \in Payments, Commit(s, p)
  PROVE  LedgerIInv'
<1> DEFINE r == paySession[s]
           row == [sub |-> r.sub, amount |-> r.amount, of |-> r.of, confirmed |-> r.confirmed]
<1>1. /\ r.at = "summed" /\ p = Cardinality(DOMAIN payment) + 1
      /\ payment' = [q \in DOMAIN payment \cup {p} |-> IF q = p THEN row ELSE payment[q]]
      /\ spent' = [spent EXCEPT ![r.sub] = r.total] /\ mainSpent' = r.mainTotal
      /\ paySession' = [paySession EXCEPT ![s] = NoSession]
  BY DEF Commit
<1>2. p \notin DOMAIN payment
  <2>1. PICK n \in Nat : DOMAIN payment = 1 .. n
    BY DEF LedgerIInv, PaymentIInv, Numbered
  <2>2. Cardinality(1 .. n) = n
    BY FS_Interval
  <2> QED BY <1>1, <2>1, <2>2
<1>3. /\ r.sub \in Subs /\ r.amount \in Int
      /\ paySession = [t \in PaymentSessions |-> paySession[t]]
  BY DEF LedgerIInv, PaymentIInv, Framed, Frame
<1>4. /\ r.total = spent[r.sub] + r.amount /\ r.mainTotal = mainSpent + r.amount
      /\ r.total \in Int /\ r.mainTotal \in Int
  BY <1>1 DEF LedgerIInv, TotalsHold, SumsTyped
<1>5. spent \in [Subs -> Int] /\ mainSpent \in Int
  BY DEF LedgerIInv, SumsTyped
<1>6. /\ \A t \in PaymentSessions \ {s} : paySession'[t] = paySession[t]
      /\ paySession'[s] = NoSession
  BY <1>1, <1>3
<1>7. /\ NoSession.at = "idle" /\ NoSession.seenSpent = 0
      /\ NoSession.total = 0 /\ NoSession.mainTotal = 0
  BY DEF NoSession, PaymentIdle
<1>8. SumsTyped'
  <2>1. spent' \in [Subs -> Int] /\ mainSpent' \in Int
    BY <1>1, <1>4, <1>5
  <2>2. \A t \in PaymentSessions : /\ paySession'[t].seenSpent \in Int
                                 /\ paySession'[t].total \in Int
                                 /\ paySession'[t].mainTotal \in Int
    BY <1>6, <1>7 DEF LedgerIInv, SumsTyped
  <2> QED BY <2>1, <2>2 DEF SumsTyped
<1>9. MainExclusive'
  BY <1>6, <1>7 DEF LedgerIInv, MainExclusive
<1>10. ASSUME NEW t \in PaymentSessions, paySession'[t].at # "idle"
       PROVE  TotalsHold(paySession[t])'
  <2>1. t # s /\ paySession'[t] = paySession[t]
    BY <1>6, <1>7, <1>10
  <2>2. paySession[t].at # "summed" /\ paySession[t].sub # r.sub
    BY <1>1, <1>10, <2>1 DEF LedgerIInv, MainExclusive, PaymentIInv, SubExclusive
  <2>3. paySession[t].sub \in Subs
    BY DEF LedgerIInv, PaymentIInv, Framed, Frame
  <2>4. spent'[paySession[t].sub] = spent[paySession[t].sub]
    BY <1>1, <1>5, <2>2, <2>3
  <2> QED BY <1>10, <2>1, <2>2, <2>4 DEF LedgerIInv, TotalsHold
<1>11. mainSpent' = SumOver(spent', Subs)
  <2>3. /\ IsFiniteSet(Subs) /\ \A u \in Subs : spent[u] \in Int
        /\ spent'[r.sub] = r.total /\ \A u \in Subs \ {r.sub} : spent'[u] = spent[u]
    BY <1>1, <1>3, <1>5, PaymentsAssumption
  <2>1. SumOver(spent', Subs) = (SumOver(spent, Subs) - spent[r.sub]) + spent'[r.sub]
    BY <1>3, <1>4, <2>3, SumOverWrite
  <2>2. mainSpent = SumOver(spent, Subs) /\ spent[r.sub] \in Int
    BY <1>3, <1>5 DEF LedgerIInv, TotalsAreSums
  <2> HIDE DEF r
  <2> QED BY <1>1, <1>3, <1>4, <1>5, <2>1, <2>2, <2>3
<1>12. /\ payment'[p] = row /\ row.sub = r.sub /\ row.amount = r.amount
       /\ DOMAIN payment' = DOMAIN payment \cup {p}
       /\ \A q \in DOMAIN payment : payment'[q] = payment[q]
  BY <1>1, <1>2
<1> HIDE DEF r, row
<1>13. ASSUME NEW sub \in Subs
       PROVE  spent'[sub] = PaidTo(sub)'
  <2> DEFINE old == [q \in PaymentsOf(sub) |-> payment[q].amount]
             rows == PaymentsOf(sub)'
             new == [q \in rows |-> payment'[q].amount]
  <2>1. spent[sub] = SumOver(old, PaymentsOf(sub)) /\ IsFiniteSet(PaymentsOf(sub))
    BY FinitelyPaid DEF LedgerIInv, TotalsAreSums, PaidTo
  <2>2. PaidTo(sub)' = SumOver(new, rows)
    BY DEF PaidTo
  <2>3. PaymentsOf(sub) \subseteq DOMAIN payment
    BY DEF PaymentsOf
  <2>4. CASE sub # r.sub
    <3>1. rows = PaymentsOf(sub)
      BY <1>2, <1>12, <2>4 DEF PaymentsOf
    <3>2. \A q \in PaymentsOf(sub) : old[q] = new[q]
      BY <1>12, <2>3, <3>1
    <3> HIDE DEF old, new, rows
    <3>3. SumOver(new, rows) = SumOver(old, PaymentsOf(sub))
      BY <2>1, <3>1, <3>2, SumOverSame
    <3> QED BY <1>1, <1>5, <2>1, <2>2, <2>4, <3>3
  <2>5. CASE sub = r.sub
    <3>1. rows = PaymentsOf(sub) \cup {p} /\ p \notin PaymentsOf(sub)
      BY <1>2, <1>12, <2>3, <2>5 DEF PaymentsOf
    <3>2. \A q \in PaymentsOf(sub) : old[q] = new[q]
      BY <1>12, <2>3, <3>1
    <3>3. \A q \in rows : new[q] \in Int
      BY <1>3, <1>12, <2>3, <3>1 DEF LedgerIInv, PaymentIInv, Numbered, PaymentRows
    <3>4. new[p] = r.amount
      BY <1>12, <3>1
    <3> HIDE DEF old, new, rows
    <3>5. IsFiniteSet(rows) /\ p \in rows /\ rows \ {p} = PaymentsOf(sub)
      BY <2>1, <3>1, FS_AddElement
    <3>6. SumOver(new, rows) = new[p] + SumOver(new, rows \ {p})
      BY <3>3, <3>5, SumOverRemove
    <3>7. SumOver(new, PaymentsOf(sub)) = SumOver(old, PaymentsOf(sub))
      BY <2>1, <3>2, SumOverSame
    <3>8. SumOver(new, rows) = r.amount + spent[sub]
      BY <2>1, <3>4, <3>5, <3>6, <3>7
    <3> QED BY <1>1, <1>3, <1>4, <1>5, <2>2, <2>5, <3>8
  <2> QED BY <2>4, <2>5
<1>14. TotalsAreSums'
  BY <1>11, <1>13 DEF TotalsAreSums
<1> QED BY <1>8, <1>9, <1>10, <1>14 DEF LedgerIInv

LEMMA LedgerKept == LedgerIInv /\ [PaymentNext]_paymentVars => LedgerIInv'
<1> SUFFICES ASSUME LedgerIInv, [PaymentNext]_paymentVars PROVE LedgerIInv'
  OBVIOUS
<1>1. PaymentIInv'
  BY PaymentStepKeeps DEF LedgerIInv
<1>2. ASSUME UNCHANGED << payment, spent, mainSpent, paySession >>
      PROVE  LedgerIInv'
  <2>1. \A sub : PaidTo(sub)' = PaidTo(sub)
    BY <1>2 DEF PaidTo, PaymentsOf
  <2>2. TotalsAreSums'
    BY <1>2, <2>1 DEF LedgerIInv, TotalsAreSums
  <2>3. SumsTyped' /\ MainExclusive'
    BY <1>2 DEF LedgerIInv, SumsTyped, MainExclusive
  <2>4. \A s \in PaymentSessions : paySession'[s].at # "idle" => TotalsHold(paySession[s])'
    BY <1>2 DEF LedgerIInv, TotalsHold
  <2> QED BY <1>1, <2>2, <2>3, <2>4 DEF LedgerIInv
<1>3. CASE UNCHANGED paymentVars
  BY <1>2, <1>3 DEF paymentVars
<1>4. CASE \E sub \in Subs, new \in SubStatuses \ {"in_progress"} : ChangeStatus(sub, new)
  BY <1>2, <1>4 DEF ChangeStatus
<1>5. ASSUME NEW s \in PaymentSessions, NEW p \in Payments, Commit(s, p)
      PROVE  LedgerIInv'
  BY <1>1, <1>5, LedgerCommit
<1>6. ASSUME NEW s \in PaymentSessions, Sum(s)
      PROVE  LedgerIInv'
  BY <1>1, <1>6, LedgerSum
<1> QED BY <1>1, <1>3, <1>4, <1>5, <1>6, LedgerReads DEF PaymentNext

LEMMA LedgerInductive == PaymentSpec => []LedgerIInv
BY LedgerInitHolds, LedgerKept, PTL DEF PaymentSpec

\* Type correctness of the ledger (PaymentTypeOK), for every set of rows,
\* sub-projects, amounts and requests.
THEOREM PaymentsTypeCorrect == PaymentSpec => []PaymentTypeOK
<1>1. LedgerIInv => PaymentTypeOK
  <2> SUFFICES ASSUME LedgerIInv PROVE PaymentTypeOK
    OBVIOUS
  <2>1. ASSUME NEW s \in PaymentSessions
        PROVE  paySession[s] \in [at : {"idle", "sub", "main", "summed"}, sub : Subs,
                                  amount : Int, of : Payments \cup {NoPayment},
                                  confirmed : BOOLEAN, seenSpent : Int, total : Int,
                                  mainTotal : Int]
    BY DEF LedgerIInv, PaymentIInv, Framed, Frame, SumsTyped
  <2>2. paySession = [s \in PaymentSessions |-> paySession[s]]
    BY DEF LedgerIInv, PaymentIInv, Framed
  <2> QED BY <2>1, <2>2 DEF PaymentTypeOK, LedgerIInv, PaymentIInv, Numbered, SumsTyped
<1> QED BY <1>1, LedgerInductive, PTL

\* The totals of the sub-projects and of the main project are those of the
\* ledger in every committed state, and its reversals are sound, however many
\* payments and reversals of however many sub-projects overlap
\* (create_payment, reverse_payment).
THEOREM TotalsFollowTheLedger == PaymentSpec => []LedgerIsSound
<1>1. LedgerIInv => LedgerIsSound
  <2> SUFFICES ASSUME LedgerIInv PROVE LedgerIsSound
    OBVIOUS
  <2>1. \A sub \in Subs : spent[sub] = SumOf(PaymentsOf(sub))
    BY PaidIsSum DEF LedgerIInv, TotalsAreSums
  <2>2. mainSpent = MapThenSumSet(LAMBDA sub : spent[sub], Subs)
    BY OthersIsSum DEF LedgerIInv, TotalsAreSums, MapThenSumSet, MapThenFoldSet
  <2>3. LedgerBalances
    BY Zenon, <2>1, <2>2 DEF LedgerBalances
  <2> QED BY <2>3 DEF LedgerIsSound, LedgerIInv, PaymentIInv
<1> QED BY <1>1, LedgerInductive, PTL

\* A payment is committed into an open sub-project only, and only a confirmed
\* one takes the total above the budget, although the budget is compared with
\* a total read two locks before the commit (_ensure_budget_confirmation).
THEOREM PaymentsAreAllowed == PaymentSpec => PaysAsAllowed
<1>1. ASSUME LedgerIInv, [PaymentNext]_paymentVars
      PROVE  \A p \in DOMAIN payment' \ DOMAIN payment :
               payment'[p].of = NoPayment => PaysOnlyOpenSub(p) /\ OverrunIsConfirmed(p)
  <2> SUFFICES ASSUME NEW p \in DOMAIN payment' \ DOMAIN payment, payment'[p].of = NoPayment
               PROVE  PaysOnlyOpenSub(p) /\ OverrunIsConfirmed(p)
    OBVIOUS
  <2>1. PICK s \in PaymentSessions, q \in Payments : Commit(s, q)
    BY <1>1 DEF PaymentNext, paymentVars, PayLockSub, ReverseLockSub, LockMain, Sum,
                PaymentRollback, ChangeStatus
  <2> DEFINE r == paySession[s]
  <2>2. /\ payment' = [x \in DOMAIN payment \cup {q} |->
                         IF x = q THEN [sub |-> r.sub, amount |-> r.amount, of |-> r.of,
                                        confirmed |-> r.confirmed]
                         ELSE payment[x]]
        /\ r.at = "summed" /\ spent' = [spent EXCEPT ![r.sub] = r.total]
    BY <2>1 DEF Commit
  <2>3. payment'[p].sub = r.sub /\ payment'[p].of = r.of /\ payment'[p].confirmed = r.confirmed
    BY <2>2
  <2>4. /\ status[r.sub] \notin LockedPaymentSubProjectStatuses
        /\ ~ r.confirmed => r.total <= Budget
    BY <1>1, <2>2, <2>3 DEF LedgerIInv, PaymentIInv, CheckedHolds, StillHolds, TotalsHold
  <2>5. spent'[r.sub] = r.total
    BY <1>1, <2>2 DEF LedgerIInv, SumsTyped, PaymentIInv, Framed, Frame
  <2> QED BY <2>3, <2>4, <2>5 DEF PaysOnlyOpenSub, OverrunIsConfirmed
<1> QED BY <1>1, LedgerInductive, PTL DEF PaymentSpec, PaysAsAllowed

-----------------------------------------------------------------------------
(***************************************************************************)
(* Phase gates: a phase is promoted by one session at a time, and whatever *)
(* would close the gate again either waits for the lock of the promotion   *)
(* or has read the phase before it was completed.                          *)
(***************************************************************************)

\* What a session is doing.
GateJob ==
    {NoGateJob}
    \cup [op : {"check"}, type : ProcurementTypes \cup {NoType}, seen : {"in_progress"}]
    \cup [op : {"promote"}]
    \cup [op : {"type"}, type : ProcurementTypes, seen : {"waiting", "in_progress"}]
    \cup [op : {"document"}, doc : DocTypes, up : BOOLEAN, seen : {"waiting", "in_progress"}]
    \cup [op : {"step", "create"}, no : StepNos, status : StepStatus, seen : {"in_progress"}]
    \cup [op : {"define"}, rules : DocRuleSets, seen : {"waiting", "in_progress", "completed"}]

GateTyped ==
    /\ GateTypeOK
    /\ gatePhase = [no |-> gatePhase.no, status |-> gatePhase.status,
                    procurement_type |-> gatePhase.procurement_type]
    /\ version = [status |-> version.status, rules |-> version.rules]
    /\ gateJob \in [GateJobs -> GateJob]
    /\ raced \in BOOLEAN

\* A step that is being updated exists.
UpdatedStepExists ==
    \A s \in GateJobs : gateJob[s].op = "step" => gateJob[s].no \in DOMAIN step

\* The phase is entered once its version is published.
DraftMeansWaiting ==
    version.status = "draft" =>
        gatePhase.status = "waiting" /\ \A s \in GateJobs : gateJob[s].op \notin {"check", "promote"}

\* The gate a session has passed is open until it commits.
PromotingMeetsGate ==
    Promoting # {} => raced \/ GateIsOpen(gatePhase.procurement_type)

GateIInv ==
    /\ GateTyped /\ UpdatedStepExists /\ DraftMeansWaiting
    /\ PromotingMeetsGate /\ CompletedMeetsGate

\* What a job is, by what it does.
LEMMA GateJobFields ==
    ASSUME NEW j \in GateJob
    PROVE  /\ j = NoGateJob => j.op = "idle"
           /\ j.op = "check" => j.type \in ProcurementTypes \cup {NoType}
           /\ j.op = "type" => j.type \in ProcurementTypes /\ j.seen # "completed"
           /\ j.op = "document" => /\ j.doc \in DocTypes /\ j.up \in BOOLEAN
                                   /\ j.seen # "completed"
           /\ j.op \in {"step", "create"} => /\ j.no \in StepNos /\ j.status \in StepStatus
                                             /\ j.seen # "completed"
           /\ j.op = "define" => j.rules \in DocRuleSets
BY DEF GateJob, NoGateJob

LEMMA GateInitHolds == GateInit => GateIInv
<1> SUFFICES ASSUME GateInit PROVE GateIInv
  OBVIOUS
<1>1. GateTyped
  <2>1. version.rules \subseteq DocRule
    BY GatesAssumption DEF GateInit
  <2>2. uploaded \in [DocTypes -> 0..MaxUploads]
    BY GatesAssumption DEF GateInit
  <2>3. /\ gatePhase = [no |-> gatePhase.no, status |-> gatePhase.status,
                        procurement_type |-> gatePhase.procurement_type]
        /\ gatePhase.status = "waiting" /\ gatePhase.procurement_type = NoType
    BY DEF GateInit
  <2>4. version = [status |-> version.status, rules |-> version.rules]
    BY DEF GateInit
  <2>5. gateJob \in [GateJobs -> GateJob]
    BY DEF GateInit, GateJob
  <2>6. vouchered = {} /\ paid = {} /\ raced \in BOOLEAN
    BY DEF GateInit
  <2>7. DOMAIN step = {}
    BY DEF GateInit
  <2> QED BY <2>1, <2>2, <2>3, <2>4, <2>5, <2>6, <2>7 DEF GateTyped, GateTypeOK
<1>2. \A s \in GateJobs : gateJob[s].op = "idle"
  BY DEF GateInit, NoGateJob
<1>3. gatePhase.status = "waiting"
  BY DEF GateInit
<1> QED BY <1>1, <1>2, <1>3 DEF GateIInv, UpdatedStepExists, DraftMeansWaiting,
                                PromotingMeetsGate, CompletedMeetsGate, Promoting

-----------------------------------------------------------------------------

\* A gate is as open as what it looks at.
LEMMA GateSame ==
    ASSUME NEW type, gatePhase'.no = gatePhase.no, version'.rules = version.rules,
           version'.status = "none" <=> version.status = "none",
           UNCHANGED <<uploaded, paid, vouchered>>, DOMAIN step' = DOMAIN step,
           \A n \in DOMAIN step : step'[n].status = step[n].status
    PROVE  GateIsOpen(type)' <=> GateIsOpen(type)
<1>1. /\ HasSteps' <=> HasSteps
      /\ AllStepsCompleted' <=> AllStepsCompleted
  BY DEF HasSteps, AllStepsCompleted
<1>2. \A r : required_document_is_satisfied(r)' <=> required_document_is_satisfied(r)
  BY DEF required_document_is_satisfied, coverage_is_satisfied, matches_qty_rule
<1>3. _required_documents_for_phase(type)' = _required_documents_for_phase(type)
  BY DEF _required_documents_for_phase, _required_documents_from_workflow_version,
         list_required_doc_templates
<1> QED BY <1>1, <1>2, <1>3 DEF GateIsOpen

\* A session takes up another job; the tables stay as they are.
LEMMA OnlyGateJobKeeps ==
    ASSUME GateIInv, NEW s \in GateJobs, NEW j \in GateJob,
           gateJob' = [gateJob EXCEPT ![s] = j],
           UNCHANGED <<gatePhase, version, uploaded, step, paid, vouchered>>,
           raced' \in BOOLEAN, raced => raced',
           j.op = "step" => j.no \in DOMAIN step,
           j.op = "check" => gatePhase.status # "waiting",
           j.op = "promote" => /\ gateJob[s].op = "check"
                               /\ raced' \/ GateIsOpen(gatePhase.procurement_type)
    PROVE  GateIInv'
<1>1. /\ gateJob' \in [GateJobs -> GateJob] /\ gateJob'[s] = j
      /\ \A t \in GateJobs \ {s} : gateJob'[t] = gateJob[t]
  BY DEF GateIInv, GateTyped
<1>2. GateTyped'
  BY <1>1 DEF GateIInv, GateTyped, GateTypeOK
<1>3. UpdatedStepExists'
  BY <1>1 DEF GateIInv, UpdatedStepExists
<1>4. DraftMeansWaiting'
  BY <1>1 DEF GateIInv, DraftMeansWaiting
<1>5. GateIsOpen(gatePhase.procurement_type)' <=> GateIsOpen(gatePhase.procurement_type)
  <2> DEFINE type == gatePhase.procurement_type
  <2>1. type' = type
    OBVIOUS
  <2> HIDE DEF type
  <2>2. GateIsOpen(type)' <=> GateIsOpen(type)
    BY <2>1, GateSame
  <2> QED BY <2>2 DEF type
<1>6. Promoting' # {} => Promoting # {} \/ j.op = "promote"
  BY <1>1 DEF Promoting
<1>7. PromotingMeetsGate'
  BY <1>5, <1>6 DEF GateIInv, PromotingMeetsGate
<1>8. CompletedMeetsGate'
  BY <1>5 DEF GateIInv, CompletedMeetsGate
<1> QED BY <1>2, <1>3, <1>4, <1>7, <1>8 DEF GateIInv

\* A write is either before the checks of a promotion or known to be raced.
LEMMA WriteKeeps ==
    ASSUME GateIInv, GateTyped', UpdatedStepExists',
           gatePhase'.status = gatePhase.status, version'.status = version.status,
           \A t \in GateJobs : gateJob'[t] = gateJob[t] \/ gateJob'[t] = NoGateJob,
           Promoting # {} \/ gatePhase.status = "completed" => raced'
    PROVE  GateIInv'
<1>1. \A t \in GateJobs : gateJob'[t].op \in {"check", "promote"} => gateJob'[t] = gateJob[t]
  BY DEF NoGateJob
<1>2. Promoting' \subseteq Promoting
  BY <1>1 DEF Promoting
<1>3. PromotingMeetsGate' /\ CompletedMeetsGate'
  BY <1>2 DEF PromotingMeetsGate, CompletedMeetsGate
<1>4. DraftMeansWaiting'
  BY <1>1 DEF GateIInv, DraftMeansWaiting
<1> QED BY <1>3, <1>4 DEF GateIInv

\* A session that ends.
LEMMA GateEndFields ==
    ASSUME GateIInv, NEW s \in GateJobs, GateEnd(s)
    PROVE  /\ gateJob' \in [GateJobs -> GateJob]
           /\ \A t \in GateJobs : gateJob'[t] = gateJob[t] \/ gateJob'[t] = NoGateJob
           /\ \A t \in GateJobs : gateJob'[t].op = "step" => gateJob'[t] = gateJob[t]
           /\ \A t \in GateJobs : gateJob'[t].op \in {"check", "promote"} => t # s /\ gateJob'[t] = gateJob[t]
<1>1. gateJob' \in [GateJobs -> GateJob]
  BY DEF GateIInv, GateTyped, GateEnd, GateJob
<1>2. gateJob'[s] = NoGateJob /\ \A t \in GateJobs \ {s} : gateJob'[t] = gateJob[t]
  BY DEF GateIInv, GateTyped, GateEnd
<1>3. NoGateJob.op = "idle"
  BY DEF NoGateJob
<1> QED BY <1>1, <1>2, <1>3

\* A gate that is open is so after a payment that brings its voucher.
LEMMA PaymentKeepsOpen ==
    ASSUME NEW type, NEW p, UNCHANGED <<gatePhase, version, step>>,
           paid' = paid \cup {p}, vouchered' = vouchered \cup {p},
           uploaded \in [DocTypes -> 0..MaxUploads],
           uploaded' = [uploaded EXCEPT !["payment_voucher"] = uploaded["payment_voucher"] + 1],
           version.rules \subseteq DocRule, GateIsOpen(type)
    PROVE  GateIsOpen(type)'
<1>1. coverage_is_satisfied => coverage_is_satisfied'
  BY DEF coverage_is_satisfied
<1>2. \A r \in DocRule : matches_qty_rule(r) => matches_qty_rule(r)'
  <2> SUFFICES ASSUME NEW r \in DocRule, matches_qty_rule(r)
               PROVE  matches_qty_rule(r)'
    OBVIOUS
  <2>1. r.doc_type \in DocTypes /\ r.qty \in Nat
    BY DEF DocRule
  <2>2. uploaded[r.doc_type] \in Nat /\ uploaded'[r.doc_type] \in Nat
        /\ uploaded'[r.doc_type] >= uploaded[r.doc_type]
    BY <2>1, GatesAssumption
  <2> QED BY <2>1, <2>2 DEF matches_qty_rule
<1>3. \A r \in DocRule : required_document_is_satisfied(r) => required_document_is_satisfied(r)'
  BY <1>1, <1>2 DEF required_document_is_satisfied
<1>4. /\ _required_documents_for_phase(type)' = _required_documents_for_phase(type)
      /\ _required_documents_for_phase(type) \subseteq DocRule
  BY DEF _required_documents_for_phase, _required_documents_from_workflow_version,
         list_required_doc_templates
<1>5. (HasSteps' <=> HasSteps) /\ (AllStepsCompleted' <=> AllStepsCompleted)
  BY DEF HasSteps, AllStepsCompleted
<1> QED BY <1>3, <1>4, <1>5 DEF GateIsOpen

\* The checks of a promotion, and its commit.
LEMMA PromotionKeeps ==
    ASSUME GateIInv, NEW s \in GateJobs, PromoteStart(s) \/ PromoteGate(s) \/ GateCommit(s)
    PROVE  GateIInv'
<1>1. GateTyped /\ gateJob[s] \in GateJob
  BY DEF GateIInv, GateTyped
<1>2. CASE PromoteStart(s)
  <2> DEFINE j == [op |-> "check", type |-> gatePhase.procurement_type, seen |-> gatePhase.status]
  <2>1. j \in GateJob /\ j.op = "check" /\ gatePhase.status = "in_progress"
    BY <1>1, <1>2 DEF PromoteStart, GateJob, GateTyped, GateTypeOK
  <2>2. /\ gateJob' = [gateJob EXCEPT ![s] = j]
        /\ UNCHANGED <<gatePhase, version, uploaded, step, paid, vouchered, raced>>
    BY <1>2 DEF PromoteStart, GateBegin
  <2>3. raced' \in BOOLEAN /\ (raced => raced')
    BY <1>1, <2>2 DEF GateTyped
  <2> HIDE DEF j
  <2> QED BY <2>1, <2>2, <2>3, OnlyGateJobKeeps
<1>3. CASE PromoteGate(s)
  <2> DEFINE type == gateJob[s].type
             j == IF GateIsOpen(type) THEN [op |-> "promote"] ELSE NoGateJob
  <2>1. /\ gateJob' = [gateJob EXCEPT ![s] = j]
        /\ UNCHANGED <<gatePhase, version, uploaded, step, paid, vouchered>>
        /\ gateJob[s].op = "check"
        /\ raced' = (raced \/ type # gatePhase.procurement_type)
    BY <1>3 DEF PromoteGate
  <2>2. raced' \in BOOLEAN /\ (raced => raced')
    BY <1>1, <2>1 DEF GateTyped
  <2>3. j \in GateJob /\ j.op \in {"promote", "idle"}
    BY DEF GateJob, NoGateJob
  <2>4. j.op = "promote" => raced' \/ GateIsOpen(gatePhase.procurement_type)
    BY <2>1 DEF NoGateJob
  <2> HIDE DEF j
  <2> QED BY <2>1, <2>2, <2>3, <2>4, OnlyGateJobKeeps
<1>4. CASE GateCommit(s)
  <2>1. /\ gatePhase' = [gatePhase EXCEPT !.status = "completed"]
        /\ GateEnd(s) /\ s \in Promoting
        /\ UNCHANGED <<version, uploaded, step, paid, vouchered, raced>>
    BY <1>4 DEF GateCommit, Promoting
  <2>2. /\ gatePhase' = [no |-> gatePhase.no, status |-> "completed",
                         procurement_type |-> gatePhase.procurement_type]
        /\ gatePhase'.no = gatePhase.no /\ gatePhase'.status = "completed"
        /\ gatePhase'.procurement_type = gatePhase.procurement_type
    BY <1>1, <2>1 DEF GateTyped
  <2>3. GateTyped'
    BY <1>1, <2>1, <2>2, GateEndFields DEF GateTyped, GateTypeOK
  <2>4. UpdatedStepExists' /\ DraftMeansWaiting'
    BY <1>4, <2>1, GateEndFields
       DEF GateIInv, UpdatedStepExists, DraftMeansWaiting, GateCommit
  <2>5. raced \/ GateIsOpen(gatePhase.procurement_type)
    BY <2>1 DEF GateIInv, PromotingMeetsGate
  <2>6. raced' \/ GateIsOpen(gatePhase.procurement_type)'
    <3> DEFINE type == gatePhase.procurement_type
    <3>1. type' = type
      BY <2>2
    <3> HIDE DEF type
    <3>2. GateIsOpen(type)' <=> GateIsOpen(type)
      BY <2>1, <2>2, <3>1, GateSame
    <3> QED BY <2>1, <2>5, <3>2 DEF type
  <2> QED BY <2>3, <2>4, <2>6 DEF GateIInv, PromotingMeetsGate, CompletedMeetsGate
<1> QED BY <1>2, <1>3, <1>4

\* What sessions read before they write.
LEMMA ReadsKeep ==
    ASSUME GateIInv, NEW s \in GateJobs,
           \/ \E t \in ProcurementTypes : TypeRead(s, t)
           \/ \E d \in DocTypes, n \in BOOLEAN : DocumentRead(s, d, n)
           \/ \E n \in StepNos, st \in StepStatus : StepRead(s, n, st)
           \/ \E rules \in DocRuleSets : DefinitionsRead(s, rules)
    PROVE  GateIInv'
<1>1. gatePhase.status \in {"waiting", "in_progress", "completed"} /\ raced \in BOOLEAN
  BY DEF GateIInv, GateTyped, GateTypeOK
<1>2. ASSUME NEW j \in GateJob, GateBegin(s, j), j.op \notin {"check", "promote"},
             j.op = "step" => j.no \in DOMAIN step
      PROVE  GateIInv'
  <2>1. raced' \in BOOLEAN /\ (raced => raced')
    BY <1>1, <1>2 DEF GateBegin
  <2> QED BY <1>2, <2>1, OnlyGateJobKeeps DEF GateBegin
<1>3. ASSUME NEW t \in ProcurementTypes, TypeRead(s, t)
      PROVE  GateIInv'
  <2> DEFINE j == [op |-> "type", type |-> t, seen |-> gatePhase.status]
  <2>1. j \in GateJob /\ j.op = "type"
    BY <1>1, <1>3 DEF GateJob, TypeRead
  <2>2. GateBegin(s, j)
    BY <1>3 DEF TypeRead
  <2> HIDE DEF j
  <2> QED BY <1>2, <2>1, <2>2
<1>4. ASSUME NEW d \in DocTypes, NEW n \in BOOLEAN, DocumentRead(s, d, n)
      PROVE  GateIInv'
  <2> DEFINE j == [op |-> "document", doc |-> d, up |-> n, seen |-> gatePhase.status]
  <2>1. j \in GateJob /\ j.op = "document"
    BY <1>1, <1>4 DEF GateJob, DocumentRead
  <2>2. GateBegin(s, j)
    BY <1>4 DEF DocumentRead
  <2> HIDE DEF j
  <2> QED BY <1>2, <2>1, <2>2
<1>5. ASSUME NEW n \in StepNos, NEW st \in StepStatus, StepRead(s, n, st)
      PROVE  GateIInv'
  <2> DEFINE op == IF n \in DOMAIN step THEN "step" ELSE "create"
             to == IF n \in DOMAIN step THEN st ELSE "not_started"
             j == [op |-> op, no |-> n, status |-> to, seen |-> gatePhase.status]
  <2>1. op \in {"step", "create"} /\ to \in StepStatus /\ (op = "step" => n \in DOMAIN step)
    BY DEF StepStatus
  <2>2. GateBegin(s, j) /\ gatePhase.status = "in_progress"
    BY <1>5 DEF StepRead
  <2> HIDE DEF op, to
  <2>3. j \in GateJob /\ j.op = op /\ j.no = n
    BY <2>1, <2>2 DEF GateJob
  <2> HIDE DEF j
  <2> QED BY <1>2, <2>1, <2>2, <2>3
<1>6. ASSUME NEW rules \in DocRuleSets, DefinitionsRead(s, rules)
      PROVE  GateIInv'
  <2> DEFINE j == [op |-> "define", rules |-> rules, seen |-> gatePhase.status]
  <2>1. j \in GateJob /\ j.op = "define"
    BY <1>1 DEF GateJob
  <2>2. GateBegin(s, j)
    BY <1>6 DEF DefinitionsRead
  <2> HIDE DEF j
  <2> QED BY <1>2, <2>1, <2>2
<1> QED BY <1>3, <1>4, <1>5, <1>6

\* Writes of sessions that have not seen the phase completed.
LEMMA PhaseWritesKeep ==
    ASSUME GateIInv, NEW s \in GateJobs,
           update_procurement_type(s) \/ DocumentCommit(s) \/ create_step(s) \/ update_step(s)
    PROVE  GateIInv'
<1> DEFINE j == gateJob[s]
<1>1. GateTyped /\ j \in GateJob /\ raced \in BOOLEAN
  BY DEF GateIInv, GateTyped
<1>2. /\ GateEnd(s) /\ Late(s) /\ version' = version /\ gatePhase'.status = gatePhase.status
      /\ j.seen # "completed"
  <2>1. GateEnd(s) /\ Late(s) /\ version' = version
        /\ j.op \in {"type", "document", "create", "step"}
    BY DEF update_procurement_type, DocumentCommit, create_step, update_step
  <2>2. gatePhase'.status = gatePhase.status
    BY <1>1 DEF update_procurement_type, DocumentCommit, create_step, update_step, GateTyped
  <2> QED BY <1>1, <2>1, <2>2, GateJobFields
<1>3. /\ Promoting # {} \/ gatePhase.status = "completed" => raced'
      /\ raced' \in BOOLEAN
  BY <1>1, <1>2 DEF Late
<1>4. /\ gateJob' \in [GateJobs -> GateJob]
      /\ \A t \in GateJobs : gateJob'[t] = gateJob[t] \/ gateJob'[t] = NoGateJob
      /\ \A t \in GateJobs : gateJob'[t].op = "step" => gateJob'[t] = gateJob[t]
  BY <1>2, GateEndFields
<1>5. ASSUME GateTypeOK',
             gatePhase' = [no |-> gatePhase'.no, status |-> gatePhase'.status,
                           procurement_type |-> gatePhase'.procurement_type],
             DOMAIN step \subseteq DOMAIN step'
      PROVE  GateIInv'
  <2>1. GateTyped'
    BY <1>1, <1>2, <1>3, <1>4, <1>5 DEF GateTyped
  <2>2. UpdatedStepExists'
    BY <1>4, <1>5 DEF GateIInv, UpdatedStepExists
  <2> QED BY <1>2, <1>3, <1>4, <2>1, <2>2, WriteKeeps
<1>6. gatePhase' = gatePhase =>
         gatePhase' = [no |-> gatePhase'.no, status |-> gatePhase'.status,
                       procurement_type |-> gatePhase'.procurement_type]
  BY <1>1 DEF GateTyped
<1>7. CASE update_procurement_type(s)
  <2>1. /\ gatePhase' = [gatePhase EXCEPT !.procurement_type = j.type]
        /\ UNCHANGED <<version, uploaded, step, paid, vouchered>>
        /\ j.type \in ProcurementTypes
    BY <1>1, <1>7, GateJobFields DEF update_procurement_type
  <2> HIDE DEF j
  <2>2. gatePhase' = [no |-> gatePhase.no, status |-> gatePhase.status,
                      procurement_type |-> j.type]
    BY <1>1, <2>1 DEF GateTyped
  <2>3. GateTypeOK'
    BY <1>1, <2>1, <2>2 DEF GateTyped, GateTypeOK
  <2> QED BY <1>5, <2>1, <2>2, <2>3
<1>8. CASE DocumentCommit(s)
  <2>1. j.doc \in DocTypes /\ j.up \in BOOLEAN
    BY <1>1, <1>8, GateJobFields DEF DocumentCommit
  <2>2. /\ UNCHANGED <<gatePhase, version, step, paid>>
        /\ j.up => uploaded[j.doc] < MaxUploads
        /\ ~j.up => uploaded[j.doc] > 0
    BY <1>8 DEF DocumentCommit
  <2>3. PICK n \in UploadedAfter(j.doc, j.up) : uploaded' = [uploaded EXCEPT ![j.doc] = n]
    BY <1>8 DEF DocumentCommit
  <2>4. vouchered' \subseteq vouchered
    BY <1>8 DEF DocumentCommit, VoucheredAfter
  <2> HIDE DEF j
  <2>5. uploaded[j.doc] \in 0..MaxUploads /\ MaxUploads \in Nat
    BY <1>1, <2>1, GatesAssumption DEF GateTyped, GateTypeOK
  <2>6. (~j.up => n \in {uploaded[j.doc], uploaded[j.doc] - 1})
        /\ (j.up => n = uploaded[j.doc] + 1 \/ n = 1)
    BY <2>1 DEF UploadedAfter
  <2>7. n \in 0..MaxUploads
    BY <2>1, <2>2, <2>5, <2>6
  <2>8. GateTypeOK'
    BY <1>1, <2>2, <2>3, <2>4, <2>7 DEF GateTyped, GateTypeOK
  <2> QED BY <1>5, <1>6, <2>2, <2>8
<1>9. CASE create_step(s)
  <2> DEFINE n == j.no
             new == [status |-> "not_started", report |-> FALSE]
  <2>1. /\ UNCHANGED <<gatePhase, version, uploaded, paid, vouchered>>
        /\ step' = IF n \in DOMAIN step THEN step
                   ELSE [m \in DOMAIN step \cup {n} |-> IF m = n THEN new ELSE step[m]]
        /\ n \in StepNos
    BY <1>1, <1>9, GateJobFields DEF create_step
  <2>2. new \in AcceptanceStep
    BY DEF AcceptanceStep, StepStatus
  <2> HIDE DEF n, new
  <2>3. /\ DOMAIN step \subseteq DOMAIN step' /\ DOMAIN step' \subseteq StepNos
        /\ \A m \in DOMAIN step' : step'[m] \in AcceptanceStep
    BY <1>1, <2>1, <2>2 DEF GateTyped, GateTypeOK
  <2>4. GateTypeOK'
    BY <1>1, <2>1, <2>3 DEF GateTyped, GateTypeOK
  <2> QED BY <1>5, <1>6, <2>1, <2>3, <2>4
<1>10. CASE update_step(s)
  <2> DEFINE n == j.no
  <2>1. /\ UNCHANGED <<gatePhase, version, uploaded, paid, vouchered>>
        /\ step' = [step EXCEPT ![n] = [step[n] EXCEPT !.status = j.status]]
        /\ n \in DOMAIN step /\ j.status \in StepStatus
    BY <1>1, <1>10, GateJobFields DEF update_step, GateIInv, UpdatedStepExists
  <2> HIDE DEF n, j
  <2>2. step[n] \in AcceptanceStep
    BY <1>1, <2>1 DEF GateTyped, GateTypeOK
  <2>3. [step[n] EXCEPT !.status = j.status] \in AcceptanceStep
    BY <2>1, <2>2 DEF AcceptanceStep
  <2>4. /\ DOMAIN step' = DOMAIN step
        /\ \A m \in DOMAIN step' : step'[m] \in AcceptanceStep
    BY <1>1, <2>1, <2>3 DEF GateTyped, GateTypeOK
  <2>5. GateTypeOK'
    BY <1>1, <2>1, <2>4 DEF GateTyped, GateTypeOK
  <2> QED BY <1>5, <1>6, <2>1, <2>4, <2>5
<1> QED BY <1>7, <1>8, <1>9, <1>10

\* A draft is written; when it has been published meanwhile, that is raced.
LEMMA DefinitionsKeep ==
    ASSUME GateIInv, NEW s \in GateJobs, update_phase_definitions(s)
    PROVE  GateIInv'
<1> DEFINE rules == gateJob[s].rules
<1>1. GateTyped /\ gateJob[s] \in GateJob /\ rules \in DocRuleSets
  <2>1. GateTyped /\ gateJob[s] \in GateJob
    BY DEF GateIInv, GateTyped
  <2> QED BY <2>1, GateJobFields DEF update_phase_definitions
<1>2. /\ version' = [version EXCEPT !.rules = rules]
      /\ raced' = (raced \/ version.status # "draft") /\ GateEnd(s)
      /\ UNCHANGED <<gatePhase, uploaded, step, paid, vouchered>>
  BY DEF update_phase_definitions
<1> HIDE DEF rules
<1>3. version' = [status |-> version.status, rules |-> rules]
  BY <1>1, <1>2 DEF GateTyped
<1>4. rules \subseteq DocRule
  BY <1>1, GatesAssumption
<1>5. /\ gateJob' \in [GateJobs -> GateJob]
      /\ \A t \in GateJobs : gateJob'[t] = gateJob[t] \/ gateJob'[t] = NoGateJob
      /\ \A t \in GateJobs : gateJob'[t].op = "step" => gateJob'[t] = gateJob[t]
  BY <1>2, GateEndFields
<1>6. GateTyped'
  <2>1. raced' \in BOOLEAN
    BY <1>1, <1>2 DEF GateTyped
  <2> QED BY <1>1, <1>2, <1>3, <1>4, <1>5, <2>1 DEF GateTyped, GateTypeOK
<1>7. UpdatedStepExists'
  BY <1>2, <1>5 DEF GateIInv, UpdatedStepExists
<1>8. Promoting # {} \/ gatePhase.status = "completed" => raced'
  BY <1>2 DEF GateIInv, DraftMeansWaiting, Promoting
<1> QED BY <1>2, <1>3, <1>5, <1>6, <1>7, <1>8, WriteKeeps

\* Payments, vouchers and reports, and the start of the phase.
LEMMA OtherWritesKeep ==
    ASSUME GateIInv,
           \/ \E p \in GatePayments : PayWithVoucher(p)
           \/ \E n \in StepNos : StepReport(n)
           \/ publish_template_version \/ PhaseEntered
           \/ UNCHANGED gateVars
    PROVE  GateIInv'
<1>1. GateTyped
  BY DEF GateIInv
<1> DEFINE type == gatePhase.procurement_type
<1>2. ASSUME GateTyped', UpdatedStepExists', DraftMeansWaiting',
             UNCHANGED <<gateJob, raced>>, type' = type,
             gatePhase'.status = "completed" => gatePhase.status = "completed",
             GateIsOpen(type) => GateIsOpen(type)'
      PROVE  GateIInv'
  BY <1>2 DEF GateIInv, PromotingMeetsGate, CompletedMeetsGate, Promoting
<1>3. ASSUME NEW p \in GatePayments, PayWithVoucher(p)
      PROVE  GateIInv'
  <2>1. /\ UNCHANGED <<gatePhase, version, step, gateJob, raced>>
        /\ paid' = paid \cup {p} /\ vouchered' = vouchered \cup {p}
        /\ uploaded' = [uploaded EXCEPT !["payment_voucher"] = uploaded["payment_voucher"] + 1]
        /\ uploaded["payment_voucher"] < MaxUploads
    BY <1>3 DEF PayWithVoucher
  <2>2. uploaded["payment_voucher"] \in 0..MaxUploads /\ MaxUploads \in Nat
    BY <1>1, GatesAssumption DEF GateTyped, GateTypeOK
  <2>3. uploaded["payment_voucher"] + 1 \in 0..MaxUploads
    BY <2>1, <2>2
  <2>4. GateTyped'
    BY <1>1, <2>1, <2>3 DEF GateTyped, GateTypeOK
  <2>5. UpdatedStepExists' /\ DraftMeansWaiting'
    BY <2>1 DEF GateIInv, UpdatedStepExists, DraftMeansWaiting
  <2>6. type' = type
    BY <2>1
  <2>7. gatePhase'.status = "completed" => gatePhase.status = "completed"
    BY <2>1
  <2> HIDE DEF type
  <2>8. GateIsOpen(type) => GateIsOpen(type)'
    BY <1>1, <2>1, <2>6, PaymentKeepsOpen DEF GateTyped, GateTypeOK
  <2> QED BY <1>2, <2>1, <2>4, <2>5, <2>6, <2>7, <2>8
<1>5. ASSUME GateTyped', UpdatedStepExists', DraftMeansWaiting',
             UNCHANGED <<uploaded, paid, vouchered, gateJob, raced>>,
             type' = type, gatePhase'.no = gatePhase.no, version'.rules = version.rules,
             version'.status = "none" <=> version.status = "none",
             gatePhase'.status = "completed" => gatePhase.status = "completed",
             DOMAIN step' = DOMAIN step, \A n \in DOMAIN step : step'[n].status = step[n].status
      PROVE  GateIInv'
  <2> HIDE DEF type
  <2>1. GateIsOpen(type)' <=> GateIsOpen(type)
    BY <1>5, GateSame
  <2> QED BY <1>2, <1>5, <2>1
<1>6. ASSUME NEW n \in StepNos, StepReport(n)
      PROVE  GateIInv'
  <2>1. /\ UNCHANGED <<gatePhase, version, uploaded, paid, vouchered, gateJob, raced>>
        /\ step' = [step EXCEPT ![n] = [step[n] EXCEPT !.report = ~step[n].report]] /\ n \in DOMAIN step
    BY <1>6 DEF StepReport
  <2>2. step[n] \in AcceptanceStep
    BY <1>1, <2>1 DEF GateTyped, GateTypeOK
  <2>3. /\ [step[n] EXCEPT !.report = ~step[n].report] \in AcceptanceStep
        /\ [step[n] EXCEPT !.report = ~step[n].report].status = step[n].status
    BY <2>2 DEF AcceptanceStep
  <2>4. /\ DOMAIN step' = DOMAIN step
        /\ \A m \in DOMAIN step : /\ step'[m].status = step[m].status
                                  /\ step'[m] \in AcceptanceStep
    BY <1>1, <2>1, <2>3 DEF GateTyped, GateTypeOK
  <2>5. GateTyped'
    BY <1>1, <2>1, <2>4 DEF GateTyped, GateTypeOK
  <2>6. UpdatedStepExists' /\ DraftMeansWaiting'
    BY <2>1, <2>4 DEF GateIInv, UpdatedStepExists, DraftMeansWaiting
  <2> QED BY <1>5, <2>1, <2>4, <2>5, <2>6
<1>7. CASE publish_template_version
  <2>1. /\ UNCHANGED <<gatePhase, uploaded, step, paid, vouchered, gateJob, raced>>
        /\ version' = [version EXCEPT !.status = "published"] /\ version.status = "draft"
    BY <1>7 DEF publish_template_version
  <2>2. version' = [status |-> "published", rules |-> version.rules]
    BY <1>1, <2>1 DEF GateTyped
  <2>3. GateTyped'
    BY <1>1, <2>1, <2>2 DEF GateTyped, GateTypeOK
  <2>4. UpdatedStepExists' /\ DraftMeansWaiting'
    BY <2>1, <2>2 DEF GateIInv, UpdatedStepExists, DraftMeansWaiting
  <2> QED BY <1>5, <2>1, <2>2, <2>3, <2>4
<1>8. CASE PhaseEntered
  <2>1. /\ UNCHANGED <<version, uploaded, step, paid, vouchered, gateJob, raced>>
        /\ gatePhase' = [gatePhase EXCEPT !.status = "in_progress"]
        /\ version.status # "draft"
    BY <1>8 DEF PhaseEntered
  <2>2. gatePhase' = [no |-> gatePhase.no, status |-> "in_progress",
                      procurement_type |-> gatePhase.procurement_type]
    BY <1>1, <2>1 DEF GateTyped
  <2>3. GateTyped'
    BY <1>1, <2>1, <2>2 DEF GateTyped, GateTypeOK
  <2>4. UpdatedStepExists' /\ DraftMeansWaiting'
    BY <2>1 DEF GateIInv, UpdatedStepExists, DraftMeansWaiting
  <2> QED BY <1>5, <2>1, <2>2, <2>3, <2>4
<1>9. CASE UNCHANGED gateVars
  <2>1. UNCHANGED <<gatePhase, version, uploaded, step, paid, vouchered, gateJob, raced>>
    BY <1>9 DEF gateVars
  <2>2. GateTyped' /\ UpdatedStepExists' /\ DraftMeansWaiting'
    BY <1>1, <2>1 DEF GateTyped, GateTypeOK, GateIInv, UpdatedStepExists, DraftMeansWaiting
  <2> QED BY <1>5, <2>1, <2>2
<1> QED BY <1>3, <1>6, <1>7, <1>8, <1>9

\* Every step keeps the gate.
LEMMA GateInductive == GateIInv /\ [GateNext]_gateVars => GateIInv'
BY PromotionKeeps, ReadsKeep, PhaseWritesKeep, DefinitionsKeep, OtherWritesKeep DEF GateNext

\* GateTypeOK: the phase, its documents, steps and payments.
THEOREM GatesTypeCorrect == GateSpec => []GateTypeOK
<1>1. GateIInv => GateTypeOK
  BY DEF GateIInv, GateTyped
<1> QED BY <1>1, GateInitHolds, GateInductive, PTL DEF GateSpec

\* CompletedMeetsGate: promote_phase against every other write of the phase.
THEOREM CompletedPhasesMeetTheirGate == GateSpec => []CompletedMeetsGate
<1>1. GateIInv => CompletedMeetsGate
  BY DEF GateIInv
<1> QED BY <1>1, GateInitHolds, GateInductive, PTL DEF GateSpec

-----------------------------------------------------------------------------
(* Members and managers. *)

TeamRoles == {"none", "proj_member", "proj_leader"}
Handovers == [from : TeamLeaders, to : TeamLeaders]

\* The kinds of a request's record.
TeamJobRecords ==
  {NoTeamJob}
  \cup [at : {"add", "remove"}, sub : TeamSubs, user : TeamUsers]
  \cup [at : {"direct"}, sub : TeamSubs, from : TeamLeaders, to : TeamLeaders, todo : Seq(TeamSubs)]
  \cup [at : {"locked"}, sub : TeamSubs, from : TeamLeaders, to : TeamLeaders, todo : Seq(TeamSubs),
        old : TeamRoles, new : TeamRoles]
  \cup [at : {"next"}, from : TeamLeaders, to : TeamLeaders, todo : Seq(TeamSubs) \ {<< >>}]

TeamTyped ==
  /\ TeamTypeOK
  /\ handovers \in [TeamSubs -> Seq(Handovers)]
  /\ teamJob \in [TeamJobs -> TeamJobRecords]

\* The row of a sub-project has one holder.
TeamExclusive ==
  \A s, t \in TeamJobs :
    s # t /\ teamJob[s].at = "locked" /\ teamJob[t].at = "locked" =>
      teamJob[s].sub # teamJob[t].sub

\* A handover changes the leader, and one that holds the row replaces the
\* manager, unless it overtook another.
HandoverHolds(j) ==
  /\ j.at \in {"direct", "locked", "next"} => j.from # j.to
  /\ j.at = "locked" /\ j.sub \notin outdated => j.from = manager[j.sub]

TeamIInv ==
  /\ TeamTyped
  /\ TeamExclusive
  /\ \A s \in TeamJobs : HandoverHolds(teamJob[s])
  /\ RecordsOfLeaderAgree

LEMMA TeamInitHolds == TeamInit => TeamIInv
<1> SUFFICES ASSUME TeamInit PROVE TeamIInv
  OBVIOUS
<1>1. FirstLeader \in TeamLeaders /\ FirstLeader \in TeamUsers
  BY TeamAssumption DEF TeamUsers
<1>2. \A s \in TeamJobs : teamJob[s] = NoTeamJob
  BY DEF TeamInit
<1>3. NoTeamJob.at = "idle" /\ NoTeamJob \in TeamJobRecords
  BY DEF NoTeamJob, TeamJobRecords
<1>4. TeamTypeOK
  BY <1>1 DEF TeamInit, TeamTypeOK, MEMBERS_MAY_CHANGE
<1>5. handovers \in [TeamSubs -> Seq(Handovers)] /\ \A w \in TeamSubs : handovers[w] = << >>
  BY DEF TeamInit
<1>6. teamJob \in [TeamJobs -> TeamJobRecords]
  BY <1>3 DEF TeamInit
<1>7. TeamExclusive /\ \A s \in TeamJobs : HandoverHolds(teamJob[s])
  BY <1>2, <1>3 DEF TeamExclusive, HandoverHolds
<1>8. RecordsOfLeaderAgree
  <2>1. ASSUME NEW w \in TeamSubs, NEW u \in TeamUsers
        PROVE  role_in_project[w][u] = "proj_leader" <=> u = manager[w]
    BY DEF TeamInit
  <2>2. \A w \in TeamSubs : 1 .. Len(handovers[w]) - 1 = {}
    BY <1>5
  <2> QED BY <1>5, <2>1, <2>2 DEF RecordsOfLeaderAgree
<1> QED BY <1>4, <1>5, <1>6, <1>7, <1>8 DEF TeamIInv, TeamTyped

\* A step that writes its request's record and the members of one sub-project
\* whose row nobody else holds, or of which only a role is written.
LEMMA TeamJobStep ==
  ASSUME TeamIInv, NEW s \in TeamJobs, NEW new \in TeamJobRecords, TeamWrite(s, new),
         outdated \subseteq outdated',
         TeamTypeOK', handovers' \in [TeamSubs -> Seq(Handovers)],
         new.at = "locked" =>
           \A t \in TeamJobs \ {s} : teamJob[t].at = "locked" => teamJob[t].sub # new.sub,
         new.at \in {"direct", "locked", "next"} => new.from # new.to,
         new.at = "locked" /\ new.sub \notin outdated' => new.from = manager'[new.sub],
         \A t \in TeamJobs \ {s} :
           teamJob[t].at = "locked" => manager'[teamJob[t].sub] = manager[teamJob[t].sub],
         RecordsOfLeaderAgree'
  PROVE  TeamIInv'
<1>1. teamJob'[s] = new /\ \A t \in TeamJobs \ {s} : teamJob'[t] = teamJob[t]
  BY DEF TeamWrite, TeamIInv, TeamTyped
<1>2. teamJob' \in [TeamJobs -> TeamJobRecords]
  BY DEF TeamWrite, TeamIInv, TeamTyped
<1>3. TeamExclusive'
  BY <1>1 DEF TeamIInv, TeamExclusive
<1>4. ASSUME NEW t \in TeamJobs PROVE HandoverHolds(teamJob[t])'
  <2>1. CASE t = s
    BY <1>1, <2>1 DEF HandoverHolds
  <2>2. CASE t # s
    BY <1>1, <2>2 DEF TeamIInv, HandoverHolds
  <2> QED BY <2>1, <2>2
<1> QED BY <1>2, <1>3, <1>4 DEF TeamIInv, TeamTyped

\* A request that only reads, locks or gives up.
LEMMA TeamReadStep ==
  ASSUME TeamIInv, NEW s \in TeamJobs, NEW new \in TeamJobRecords, TeamWrite(s, new),
         UNCHANGED << manager, teamStatus, role_in_project, handovers >>,
         outdated \subseteq outdated',
         new.at = "locked" => TeamFree(new.sub),
         new.at \in {"direct", "locked", "next"} => new.from # new.to,
         new.at = "locked" /\ new.sub \notin outdated' => new.from = manager[new.sub]
  PROVE  TeamIInv'
<1>1. TeamTypeOK' /\ handovers' \in [TeamSubs -> Seq(Handovers)]
  BY DEF TeamIInv, TeamTyped, TeamTypeOK
<1>2. new.at = "locked" =>
        \A t \in TeamJobs \ {s} : teamJob[t].at = "locked" => teamJob[t].sub # new.sub
  BY DEF TeamFree
<1>3. RecordsOfLeaderAgree'
  BY DEF TeamIInv, RecordsOfLeaderAgree
<1> QED BY <1>1, <1>2, <1>3, TeamJobStep

LEMMA TeamReads ==
  ASSUME TeamIInv, NEW s \in TeamJobs,
         \/ \E w \in TeamSubs, u \in TeamUsers : AddRead(s, w, u) \/ RemoveRead(s, w, u)
         \/ TeamRollback(s)
  PROVE  TeamIInv'
<1>1. NoTeamJob \in TeamJobRecords /\ NoTeamJob.at = "idle"
  BY DEF NoTeamJob, TeamJobRecords
<1>2. CASE TeamRollback(s)
  <2>1. TeamWrite(s, NoTeamJob)
        /\ UNCHANGED << manager, teamStatus, role_in_project, handovers, outdated >>
    BY <1>2 DEF TeamRollback, TeamData
  <2> QED BY <1>1, <2>1, TeamReadStep
<1>3. ASSUME NEW w \in TeamSubs, NEW u \in TeamUsers, AddRead(s, w, u) \/ RemoveRead(s, w, u)
      PROVE  TeamIInv'
  <2>1. PICK k \in {"add", "remove"} :
          /\ TeamWrite(s, [at |-> k, sub |-> w, user |-> u])
          /\ UNCHANGED << manager, teamStatus, role_in_project, handovers, outdated >>
    BY <1>3 DEF AddRead, RemoveRead, TeamData
  <2> DEFINE new == [at |-> k, sub |-> w, user |-> u]
  <2>2. new \in TeamJobRecords /\ new.at \in {"add", "remove"}
    BY DEF TeamJobRecords
  <2> HIDE DEF new
  <2> QED BY <2>1, <2>2, TeamReadStep DEF new
<1> QED BY <1>2, <1>3

\* Looking at a sub-project to be handed over.
LEMMA DirectReadStep ==
  ASSUME TeamIInv, NEW s \in TeamJobs, NEW subs \in Seq(TeamSubs), subs # << >>,
         NEW to \in TeamLeaders, DirectRead(s, subs, to)
  PROVE  TeamIInv'
<1> DEFINE w == Head(subs)
           new == [at |-> "direct", sub |-> w, from |-> manager[w], to |-> to, todo |-> Tail(subs)]
<1>1. w \in TeamSubs /\ Tail(subs) \in Seq(TeamSubs)
  OBVIOUS
<1>2. manager[w] \in TeamLeaders
  BY <1>1 DEF TeamIInv, TeamTyped, TeamTypeOK
<1>3. new \in TeamJobRecords
  BY <1>1, <1>2 DEF TeamJobRecords
<1>4. /\ TeamWrite(s, new) /\ new.from # new.to /\ new.at = "direct"
      /\ UNCHANGED << manager, teamStatus, role_in_project, handovers, outdated >>
  BY DEF DirectRead, TeamData
<1> HIDE DEF new
<1> QED BY <1>3, <1>4, TeamReadStep

LEMMA DirectReads ==
  ASSUME TeamIInv, NEW s \in TeamJobs,
         (\E b \in Batches, to \in TeamLeaders : StartDirect(s, b, to)) \/ BatchNext(s)
  PROVE  TeamIInv'
<1>1. ASSUME NEW b \in Batches, NEW to \in TeamLeaders, StartDirect(s, b, to) PROVE TeamIInv'
  <2>1. b \in Seq(TeamSubs) /\ b # << >>
    <3>1. CASE b \in {<< w >> : w \in TeamSubs}
      <4>1. PICK w \in TeamSubs : b = << w >>
        BY <3>1
      <4>2. << w >> \in Seq(TeamSubs) /\ << w >> # << >>
        OBVIOUS
      <4> QED BY <4>1, <4>2
    <3>2. CASE b \in {c \in TeamSubs \X TeamSubs : c[1] # c[2]}
      <4>1. PICK v \in TeamSubs, w \in TeamSubs : b = << v, w >>
        BY <3>2
      <4>2. << v, w >> \in Seq(TeamSubs) /\ << v, w >> # << >>
        OBVIOUS
      <4> QED BY <4>1, <4>2
    <3> QED BY <3>1, <3>2 DEF Batches
  <2> QED BY <1>1, <2>1, DirectReadStep DEF StartDirect
<1>2. CASE BatchNext(s)
  <2>1. teamJob[s] \in TeamJobRecords /\ teamJob[s].at = "next" /\ DirectRead(s, teamJob[s].todo, teamJob[s].to)
    BY <1>2 DEF BatchNext, TeamIInv, TeamTyped
  <2>2. /\ teamJob[s].todo \in Seq(TeamSubs) /\ teamJob[s].todo # << >>
        /\ teamJob[s].to \in TeamLeaders
    BY <2>1 DEF TeamJobRecords, NoTeamJob
  <2> QED BY <2>1, <2>2, DirectReadStep
<1> QED BY <1>1, <1>2

\* The row is locked, and found as it was or not.
LEMMA TeamLocks ==
  ASSUME TeamIInv, NEW s \in TeamJobs,
         DirectLock(s) \/ \E w \in TeamSubs, to \in TeamLeaders : TransferLock(s, w, to)
  PROVE  TeamIInv'
<1>1. ASSUME NEW j, j.sub \in TeamSubs, j.from \in TeamLeaders, j.to \in TeamLeaders,
             j.todo \in Seq(TeamSubs), LockTeam(s, j), j.from # j.to,
             UNCHANGED << manager, teamStatus, role_in_project, handovers >>,
             outdated \subseteq outdated', j.sub \notin outdated' => j.from = manager[j.sub]
      PROVE  TeamIInv'
  <2> DEFINE new == [at |-> "locked", sub |-> j.sub, from |-> j.from, to |-> j.to, todo |-> j.todo,
                     old |-> role_in_project[j.sub][j.from], new |-> role_in_project[j.sub][j.to]]
  <2>1. TeamFree(j.sub) /\ TeamWrite(s, new)
    BY <1>1 DEF LockTeam
  <2>2. role_in_project[j.sub][j.from] \in TeamRoles /\ role_in_project[j.sub][j.to] \in TeamRoles
    BY <1>1 DEF TeamIInv, TeamTyped, TeamTypeOK, TeamRoles, TeamUsers
  <2>3. new \in TeamJobRecords
    BY <1>1, <2>2 DEF TeamJobRecords
  <2>4. new.at = "locked" /\ new.sub = j.sub /\ new.from = j.from /\ new.to = j.to
    OBVIOUS
  <2> HIDE DEF new
  <2> QED BY <1>1, <2>1, <2>3, <2>4, TeamReadStep
<1>2. CASE DirectLock(s)
  <2> DEFINE j == teamJob[s]
  <2>1. j \in TeamJobRecords /\ j.at = "direct" /\ HandoverHolds(j) /\ LockTeam(s, j)
        /\ UNCHANGED << manager, teamStatus, role_in_project, handovers >>
    BY <1>2 DEF DirectLock, TeamIInv, TeamTyped
  <2>2. outdated' = IF manager[j.sub] = j.from THEN outdated ELSE outdated \cup {j.sub}
    BY <1>2 DEF DirectLock
  <2>3. /\ j.sub \in TeamSubs /\ j.from \in TeamLeaders /\ j.to \in TeamLeaders
        /\ j.todo \in Seq(TeamSubs)
    BY <2>1 DEF TeamJobRecords, NoTeamJob
  <2>4. j.from # j.to
    BY <2>1 DEF HandoverHolds
  <2> HIDE DEF j
  <2> QED BY <1>1, <2>1, <2>2, <2>3, <2>4
<1>3. ASSUME NEW w \in TeamSubs, NEW to \in TeamLeaders, TransferLock(s, w, to) PROVE TeamIInv'
  <2> DEFINE j == [at |-> "request", sub |-> w, from |-> manager[w], to |-> to, todo |-> << >>]
  <2>1. /\ LockTeam(s, j) /\ j.to # j.from
        /\ UNCHANGED << manager, teamStatus, role_in_project, handovers, outdated >>
    BY <1>3 DEF TransferLock, TeamData
  <2>2. /\ j.sub = w /\ j.from = manager[w] /\ j.to = to /\ j.todo \in Seq(TeamSubs)
        /\ manager[w] \in TeamLeaders
    BY DEF TeamIInv, TeamTyped, TeamTypeOK
  <2> HIDE DEF j
  <2> QED BY <1>1, <2>1, <2>2
<1> QED BY <1>2, <1>3

\* A member is added, or removed: a row that names the manager's role is not
\* touched, or the sub-project has been written from an outdated reading.
LEMMA MemberSteps ==
  ASSUME TeamIInv, NEW s \in TeamJobs,
         add_sub_project_member(s) \/ remove_sub_project_member(s)
  PROVE  TeamIInv'
<1> DEFINE j == teamJob[s]
<1>1. j \in TeamJobRecords /\ j.at \in {"add", "remove"} /\ TeamWrite(s, NoTeamJob)
      /\ UNCHANGED << manager, teamStatus, handovers >>
  BY DEF add_sub_project_member, remove_sub_project_member, TeamIInv, TeamTyped
<1>2. j.sub \in TeamSubs /\ j.user \in TeamUsers
  BY <1>1 DEF TeamJobRecords, NoTeamJob
<1>3. /\ manager \in [TeamSubs -> TeamLeaders]
      /\ teamStatus \in [TeamSubs -> MEMBERS_MAY_CHANGE \cup ACTIVE_HANDOVER_STATUSES \cup {"closed"}]
      /\ role_in_project \in [TeamSubs -> [TeamUsers -> TeamRoles]]
      /\ handovers \in [TeamSubs -> Seq(Handovers)]
  BY DEF TeamIInv, TeamTyped, TeamTypeOK, TeamRoles
<1>4. \E r \in {"none", "proj_member"} :
        /\ role_in_project' = [role_in_project EXCEPT ![j.sub][j.user] = r]
        /\ r = "proj_member" => role_in_project[j.sub][j.user] = "none"
  BY DEF add_sub_project_member, remove_sub_project_member
<1>5. outdated \subseteq outdated'
      /\ (role_in_project[j.sub][j.user] = "proj_leader" => j.sub \in outdated')
  BY DEF add_sub_project_member, remove_sub_project_member
<1> HIDE DEF j
<1>6. role_in_project' \in [TeamSubs -> [TeamUsers -> TeamRoles]]
  BY <1>2, <1>3, <1>4 DEF TeamRoles
<1>7. ASSUME NEW w \in TeamSubs, w \notin outdated', NEW u \in TeamUsers
      PROVE  role_in_project'[w][u] = "proj_leader" <=> u = manager[w]
  <2>1. role_in_project[w][u] = "proj_leader" <=> u = manager[w]
    BY <1>5, <1>7 DEF TeamIInv, RecordsOfLeaderAgree
  <2>2. CASE w = j.sub /\ u = j.user
    <3>1. role_in_project'[w][u] \in {"none", "proj_member"}
      BY <1>2, <1>3, <1>4, <2>2
    <3>2. role_in_project[w][u] # "proj_leader"
      BY <1>5, <1>7, <2>2
    <3> QED BY <2>1, <3>1, <3>2
  <2>3. CASE ~ (w = j.sub /\ u = j.user)
    <3>1. role_in_project'[w][u] = role_in_project[w][u]
      BY <1>2, <1>3, <1>4, <2>3
    <3> QED BY <2>1, <3>1
  <2> QED BY <2>2, <2>3
<1>8. RecordsOfLeaderAgree'
  BY SMTT(30), <1>1, <1>5, <1>7 DEF TeamIInv, RecordsOfLeaderAgree
<1>9. TeamTypeOK' /\ handovers' \in [TeamSubs -> Seq(Handovers)]
  BY <1>1, <1>3, <1>6 DEF TeamTypeOK, TeamRoles
<1>10. NoTeamJob \in TeamJobRecords /\ NoTeamJob.at = "idle"
  BY DEF NoTeamJob, TeamJobRecords
<1> QED BY <1>1, <1>5, <1>8, <1>9, <1>10, TeamJobStep

\* The handover is committed.  If the rows are as it found them, the manager it
\* replaces has the role, and is the only one.
LEMMA HandoverCommitStep ==
  ASSUME TeamIInv, NEW s \in TeamJobs, HandoverCommit(s)
  PROVE  TeamIInv'
<1> DEFINE j == teamJob[s]
           w == j.sub
           new == IF j.todo = << >> THEN NoTeamJob
                  ELSE [at |-> "next", from |-> j.from, to |-> j.to, todo |-> j.todo]
<1>1. j \in TeamJobRecords /\ j.at = "locked" /\ HandoverHolds(j) /\ TeamWrite(s, new)
      /\ UNCHANGED teamStatus
  BY DEF HandoverCommit, TeamIInv, TeamTyped
<1>2. /\ w \in TeamSubs /\ j.from \in TeamLeaders /\ j.to \in TeamLeaders /\ j.from # j.to
      /\ j.todo \in Seq(TeamSubs) /\ j.from \in TeamUsers /\ j.to \in TeamUsers
      /\ w \notin outdated => j.from = manager[w]
  BY <1>1 DEF TeamJobRecords, NoTeamJob, HandoverHolds, TeamUsers
<1>3. /\ manager \in [TeamSubs -> TeamLeaders]
      /\ teamStatus \in [TeamSubs -> MEMBERS_MAY_CHANGE \cup ACTIVE_HANDOVER_STATUSES \cup {"closed"}]
      /\ role_in_project \in [TeamSubs -> [TeamUsers -> TeamRoles]]
      /\ handovers \in [TeamSubs -> Seq(Handovers)]
  BY DEF TeamIInv, TeamTyped, TeamTypeOK, TeamRoles
<1>4. /\ manager' = [manager EXCEPT ![w] = j.to]
      /\ role_in_project' = [role_in_project EXCEPT ![w] = _upsert_members(j)]
      /\ handovers' = [handovers EXCEPT ![w] = Append(handovers[w], [from |-> j.from, to |-> j.to])]
  BY DEF HandoverCommit
<1>5. /\ outdated \subseteq outdated'
      /\ w \notin outdated' => j.old = role_in_project[w][j.from] /\ w \notin outdated
  BY DEF HandoverCommit
<1>6. new \in TeamJobRecords /\ new.at \in {"idle", "next"} /\ (new.at = "next" => new.from # new.to)
  BY <1>2 DEF TeamJobRecords, NoTeamJob
<1>7. \A t \in TeamJobs \ {s} : teamJob[t].at = "locked" => teamJob[t].sub # w
  BY <1>1 DEF TeamIInv, TeamExclusive
<1>8. /\ _upsert_members(j) \in [TeamUsers -> TeamRoles]
      /\ \A u \in TeamUsers : _upsert_members(j)[u] =
           IF u = j.to THEN "proj_leader"
           ELSE IF u = j.from /\ j.old # "none" THEN "proj_member" ELSE role_in_project[w][u]
  BY <1>2, <1>3 DEF _upsert_members, TeamRoles
<1> HIDE DEF new, w, j
<1>9. /\ manager' \in [TeamSubs -> TeamLeaders] /\ manager'[w] = j.to
      /\ \A v \in TeamSubs \ {w} : manager'[v] = manager[v]
  BY <1>2, <1>3, <1>4
<1>10. /\ role_in_project' \in [TeamSubs -> [TeamUsers -> TeamRoles]]
       /\ role_in_project'[w] = _upsert_members(j)
       /\ \A v \in TeamSubs \ {w} : role_in_project'[v] = role_in_project[v]
  BY <1>2, <1>3, <1>4, <1>8
<1>11. [from |-> j.from, to |-> j.to] \in Handovers
  BY <1>2 DEF Handovers
<1>12. /\ handovers' \in [TeamSubs -> Seq(Handovers)]
       /\ handovers'[w] = Append(handovers[w], [from |-> j.from, to |-> j.to])
       /\ \A v \in TeamSubs \ {w} : handovers'[v] = handovers[v]
  BY <1>2, <1>3, <1>4, <1>11
<1>13. ASSUME NEW v \in TeamSubs, v # w
       PROVE  /\ handovers'[v] # << >> => manager'[v] = handovers'[v][Len(handovers'[v])].to
              /\ v \notin outdated' =>
                    /\ \A i \in 1 .. Len(handovers'[v]) - 1 : handovers'[v][i].to = handovers'[v][i + 1].from
                    /\ \A u \in TeamUsers : role_in_project'[v][u] = "proj_leader" <=> u = manager'[v]
  <2>1. /\ handovers'[v] = handovers[v] /\ manager'[v] = manager[v]
        /\ role_in_project'[v] = role_in_project[v] /\ (v \notin outdated' => v \notin outdated)
    BY <1>5, <1>9, <1>10, <1>12, <1>13
  <2> QED BY <2>1 DEF TeamIInv, RecordsOfLeaderAgree
<1>14. manager'[w] = handovers'[w][Len(handovers'[w])].to
  <2>1. Len(handovers'[w]) = Len(handovers[w]) + 1
        /\ handovers'[w][Len(handovers[w]) + 1] = [from |-> j.from, to |-> j.to]
    BY <1>2, <1>3, <1>12
  <2> QED BY <1>9, <2>1
<1>15. ASSUME w \notin outdated', NEW i \in 1 .. Len(handovers'[w]) - 1
       PROVE  handovers'[w][i].to = handovers'[w][i + 1].from
  <2> DEFINE h == handovers[w]
  <2>1. h \in Seq(Handovers) /\ Len(h) \in Nat /\ (h # << >> => Len(h) # 0)
    BY <1>2, <1>3
  <2>2. /\ Len(handovers'[w]) = Len(h) + 1 /\ \A k \in 1 .. Len(h) : handovers'[w][k] = h[k]
        /\ handovers'[w][Len(h) + 1] = [from |-> j.from, to |-> j.to]
    BY <1>12, <2>1
  <2>3. i \in 1 .. Len(h)
    BY <2>1, <2>2
  <2>4. CASE i = Len(h)
    <3>1. h # << >>
      BY <2>3, <2>4
    <3>2. manager[w] = h[Len(h)].to
      BY <1>2, <3>1 DEF TeamIInv, RecordsOfLeaderAgree
    <3>3. j.from = manager[w]
      BY <1>2, <1>5, <1>15
    <3> QED BY <2>2, <2>3, <2>4, <3>2, <3>3
  <2>5. CASE i # Len(h)
    <3>1. i \in 1 .. Len(h) - 1 /\ i + 1 \in 1 .. Len(h)
      BY <2>1, <2>3, <2>5
    <3>2. h[i].to = h[i + 1].from
      BY <1>2, <1>5, <1>15, <3>1 DEF TeamIInv, RecordsOfLeaderAgree
    <3> QED BY <2>2, <2>3, <3>1, <3>2
  <2> QED BY <2>4, <2>5
<1>16. ASSUME w \notin outdated', NEW u \in TeamUsers
       PROVE  role_in_project'[w][u] = "proj_leader" <=> u = manager'[w]
  <2>1. /\ \A x \in TeamUsers : role_in_project[w][x] = "proj_leader" <=> x = manager[w]
        /\ j.from = manager[w] /\ j.old = role_in_project[w][j.from]
    BY <1>2, <1>5, <1>16 DEF TeamIInv, RecordsOfLeaderAgree
  <2>2. j.old = "proj_leader"
    BY <1>2, <2>1
  <2> QED BY <1>2, <1>8, <1>9, <1>10, <2>1, <2>2
<1>17. RecordsOfLeaderAgree'
  BY <1>13, <1>14, <1>15, <1>16 DEF RecordsOfLeaderAgree
<1>18. TeamTypeOK'
  BY <1>1, <1>3, <1>9, <1>10 DEF TeamTypeOK, TeamRoles
<1>19. \A t \in TeamJobs \ {s} :
         teamJob[t].at = "locked" => manager'[teamJob[t].sub] = manager[teamJob[t].sub]
  BY <1>4, <1>7, <1>3
<1> QED BY <1>1, <1>5, <1>6, <1>12, <1>17, <1>18, <1>19, TeamJobStep

LEMMA StatusMovesStep ==
  ASSUME TeamIInv, NEW w \in TeamSubs, StatusMoves(w)
  PROVE  TeamIInv'
<1> DEFINE statuses == MEMBERS_MAY_CHANGE \cup ACTIVE_HANDOVER_STATUSES \cup {"closed"}
<1>1. UNCHANGED << manager, role_in_project, handovers, teamJob, outdated >>
  BY DEF StatusMoves
<1>2. \E x \in statuses : teamStatus' = [teamStatus EXCEPT ![w] = x]
  <2> DEFINE order == << "pending_review", "in_progress", "completed", "closed" >>
  <2>1. PICK i \in 1 .. 3 : teamStatus' = [teamStatus EXCEPT ![w] = order[i + 1]]
    BY DEF StatusMoves
  <2>2. order[i + 1] \in statuses
    <3>1. i = 1 \/ i = 2 \/ i = 3
      OBVIOUS
    <3> QED BY <3>1 DEF MEMBERS_MAY_CHANGE, ACTIVE_HANDOVER_STATUSES
  <2> QED BY <2>1, <2>2
<1>3. teamStatus' \in [TeamSubs -> statuses]
  BY <1>2 DEF TeamIInv, TeamTyped, TeamTypeOK
<1> QED BY <1>1, <1>3 DEF TeamIInv, TeamTyped, TeamTypeOK, TeamExclusive, HandoverHolds,
                          RecordsOfLeaderAgree

LEMMA TeamStepKeeps == TeamIInv /\ [TeamNext]_teamVars => TeamIInv'
<1> SUFFICES ASSUME TeamIInv, [TeamNext]_teamVars PROVE TeamIInv'
  OBVIOUS
<1>1. CASE UNCHANGED teamVars
  BY <1>1 DEF teamVars, TeamIInv, TeamTyped, TeamTypeOK, TeamExclusive, HandoverHolds,
              RecordsOfLeaderAgree
<1>2. CASE TeamNext
  <2>1. ASSUME NEW w \in TeamSubs, StatusMoves(w) PROVE TeamIInv'
    BY <2>1, StatusMovesStep
  <2>2. ASSUME NEW s \in TeamJobs,
               \/ \E w \in TeamSubs, u \in TeamUsers : AddRead(s, w, u) \/ RemoveRead(s, w, u)
               \/ TeamRollback(s)
        PROVE  TeamIInv'
    BY <2>2, TeamReads
  <2>3. ASSUME NEW s \in TeamJobs,
               (\E b \in Batches, to \in TeamLeaders : StartDirect(s, b, to)) \/ BatchNext(s)
        PROVE  TeamIInv'
    BY <2>3, DirectReads
  <2>4. ASSUME NEW s \in TeamJobs,
               DirectLock(s) \/ \E w \in TeamSubs, to \in TeamLeaders : TransferLock(s, w, to)
        PROVE  TeamIInv'
    BY <2>4, TeamLocks
  <2>5. ASSUME NEW s \in TeamJobs, add_sub_project_member(s) \/ remove_sub_project_member(s)
        PROVE  TeamIInv'
    BY <2>5, MemberSteps
  <2>6. ASSUME NEW s \in TeamJobs, HandoverCommit(s) PROVE TeamIInv'
    BY <2>6, HandoverCommitStep
  <2> QED BY <1>2, <2>1, <2>2, <2>3, <2>4, <2>5, <2>6 DEF TeamNext
<1> QED BY <1>1, <1>2

LEMMA TeamInductive == TeamSpec => []TeamIInv
BY TeamInitHolds, TeamStepKeeps, PTL DEF TeamSpec

\* Managers, statuses and roles keep to their types.
THEOREM TeamsTypeCorrect == TeamSpec => []TeamTypeOK
<1>1. TeamIInv => TeamTypeOK
  BY DEF TeamIInv, TeamTyped
<1> QED BY <1>1, TeamInductive, PTL

\* However direct handovers, approved requests, batches and changes of members
\* overtake each other, the manager is who the last handover names; and where
\* none wrote from an outdated reading, the handovers form a chain and the
\* role proj_leader is the manager's and nobody else's.
THEOREM LeadersAreRecorded == TeamSpec => []RecordsOfLeaderAgree
<1>1. TeamIInv => RecordsOfLeaderAgree
  BY DEF TeamIInv
<1> QED BY <1>1, TeamInductive, PTL

-----------------------------------------------------------------------------
(***************************************************************************)
(* Budgets.  Nothing is locked between the sum and the approval, so that   *)
(* the argument is about a history in which nobody has been overtaken: the *)
(* approved sub-projects that needed no confirmation fit together, because *)
(* the last of them was compared with the sum of all approved before it,   *)
(* and nothing but an approval lets a sub-project into that sum.           *)
(***************************************************************************)

\* What an operation has found in the status it read.
MainStatusesOf(op) ==
  CASE op = "update_project" -> {"rejected"}
    [] op = "submit_project" -> {"pending_review", "rejected"}
    [] op = "review_project" -> {"pending_review"}
    [] op = "create_sub_project" -> {"open"}
    [] OTHER -> {}

SubStatusesOf(op) ==
  CASE op = "update_sub_project" -> {"rejected"}
    [] op = "submit_sub_project" -> {"pending_review", "rejected"}
    [] op = "close_sub_project" -> {"in_progress", "completed"}
    [] op = "terminate_sub_project" -> {"pending_review", "rejected", "in_progress", "completed"}
    [] op = "last_phase" -> {"in_progress", "completed", "closed", "terminated", "rejected"}
    [] op \in {"review_main", "review_sum", "approve"} -> {"pending_review"}
    [] OTHER -> {}

MainOps == {"update_project", "submit_project", "review_project", "create_sub_project"}
SubOps == {"update_sub_project", "submit_sub_project", "close_sub_project",
           "terminate_sub_project", "last_phase", "review_main", "review_sum", "approve"}

\* What a request holds after its reads.
BudgetJobHolds(j) ==
  /\ j.op \in {"idle"} \cup MainOps \cup SubOps
  /\ j.op = "idle" => j = NoBudgetJob
  /\ j.op \in MainOps => j.main \in MainBudgetRows /\ j.main.status \in MainStatusesOf(j.op)
  /\ j.op \in SubOps => /\ j.sub \in DOMAIN subBudget /\ j.row \in SubBudgetRows
                        /\ j.row.status \in SubStatusesOf(j.op)
  /\ j.op = "approve" /\ j.fits => j.allocated + j.row.budget <= j.main.total_budget

BudgetTyped ==
  /\ BudgetTypeOK
  /\ IsFiniteSet(DOMAIN subBudget)
  /\ subBudget = [u \in DOMAIN subBudget |-> subBudget[u]]
  /\ budgetJob = [s \in BudgetJobs |-> budgetJob[s]]
  /\ \A s \in BudgetJobs : BudgetJobHolds(budgetJob[s])

\* There are sub-projects only under a project that has been opened.
OpenedFirst ==
  \/ overtaken \/ mainBudget.status = "open"
  \/ DOMAIN subBudget = {} /\ \A s \in BudgetJobs : budgetJob[s].op # "create_sub_project"

BudgetOf == [u \in DOMAIN subBudget |-> subBudget[u].budget]

\* The approved sub-projects that were not confirmed fit together.
UnconfirmedFit ==
  \/ overtaken \/ revived
  \/ SumOver(BudgetOf, Approved \ confirmed) <= mainBudget.total_budget

BudgetIInv == BudgetTyped /\ OpenedFirst /\ UnconfirmedFit

\* What sum_approved_budget adds up.
LEMMA BudgetSum ==
  ASSUME BudgetTyped, NEW us \in SUBSET DOMAIN subBudget
  PROVE  Total(us) = SumOver(BudgetOf, us)
<1> DEFINE It(h) == h = [s \in SUBSET us |-> IF s = {} THEN 0
                                            ELSE subBudget[CHOOSE x \in s : TRUE].budget
                                                 + h[s \ {CHOOSE x \in s : TRUE}]]
<1>1. \A h : It(h) <=> SumsUp(h, BudgetOf, us)
  BY PickIsIn DEF SumsUp, Pick, BudgetOf
<1>2. Total(us) = (CHOOSE h : It(h))[us]
  BY Zenon DEF Total, MapThenSumSet, MapThenFoldSet
<1> HIDE DEF It
<1>3. IsFiniteSet(us)
  BY FS_Subset DEF BudgetTyped
<1>4. \E h : SumsUp(h, BudgetOf, us)
  BY <1>3, SumsExist
<1>5. It(CHOOSE h : It(h)) /\ SumsUp(CHOOSE h : SumsUp(h, BudgetOf, us), BudgetOf, us)
  BY <1>1, <1>4
<1>6. SumsUp(CHOOSE h : It(h), BudgetOf, us)
  BY <1>1, <1>5
<1> QED BY <1>2, <1>3, <1>5, <1>6, SumsAgree DEF SumOver

LEMMA BudgetFacts ==
  ASSUME BudgetTyped
  PROVE  /\ mainBudget \in MainBudgetRows /\ mainBudget.total_budget \in Nat
         /\ \A u \in DOMAIN subBudget : /\ subBudget[u] \in SubBudgetRows
                                      /\ BudgetOf[u] = subBudget[u].budget /\ BudgetOf[u] \in Nat
         /\ Approved \subseteq DOMAIN subBudget
         /\ \A A \in SUBSET DOMAIN subBudget : IsFiniteSet(A) /\ SumOver(BudgetOf, A) \in Nat
<1>1. mainBudget \in MainBudgetRows /\ mainBudget.total_budget \in Nat
  BY BudgetsAssumption DEF BudgetTyped, BudgetTypeOK, MainBudgetRows
<1>2. \A u \in DOMAIN subBudget : /\ subBudget[u] \in SubBudgetRows
                               /\ BudgetOf[u] = subBudget[u].budget /\ BudgetOf[u] \in Nat
  BY BudgetsAssumption DEF BudgetTyped, BudgetTypeOK, SubBudgetRows, BudgetOf
<1>3. ASSUME NEW A \in SUBSET DOMAIN subBudget
      PROVE  IsFiniteSet(A) /\ SumOver(BudgetOf, A) \in Nat
  <2>1. IsFiniteSet(A)
    BY FS_Subset DEF BudgetTyped
  <2> QED BY <1>2, <2>1, SumOverType
<1> QED BY <1>1, <1>2, <1>3 DEF Approved

LEMMA BudgetInitHolds == BudgetInit => BudgetIInv
<1> SUFFICES ASSUME BudgetInit PROVE BudgetIInv
  OBVIOUS
<1>1. /\ DOMAIN subBudget = {} /\ subBudget = [u \in DOMAIN subBudget |-> subBudget[u]]
      /\ IsFiniteSet(DOMAIN subBudget)
  BY FS_EmptySet DEF BudgetInit
<1>2. \A s \in BudgetJobs : budgetJob[s] = NoBudgetJob /\ NoBudgetJob.op = "idle"
  BY DEF BudgetInit, NoBudgetJob
<1>3. \A s \in BudgetJobs : BudgetJobHolds(budgetJob[s])
  BY <1>2 DEF BudgetJobHolds, MainOps, SubOps
<1>4. BudgetTyped
  BY <1>1, <1>3 DEF BudgetTyped, BudgetTypeOK, BudgetInit, MainBudgetRows
<1>5. OpenedFirst
  BY <1>1, <1>2 DEF OpenedFirst
<1>6. Approved \ confirmed = {}
  BY <1>1 DEF Approved
<1>7. SumOver(BudgetOf, {}) = 0
  BY SumOverStep, FS_EmptySet
<1>8. mainBudget.total_budget \in Nat
  BY <1>4, BudgetFacts
<1>9. UnconfirmedFit
  BY <1>6, <1>7, <1>8 DEF UnconfirmedFit
<1> QED BY <1>4, <1>5, <1>9 DEF BudgetIInv

LEMMA BasedOnMeans ==
  ASSUME NEW c, NEW r, BasedOn(c, r)
  PROVE  ~ overtaken' => ~ overtaken /\ c = r
BY Zenon DEF BasedOn

\* The jobs hold what they read, whatever row is written or comes.
LEMMA BudgetJobsHold ==
  ASSUME BudgetTyped, NEW s \in BudgetJobs, NEW j, BudgetWrite(s, j), BudgetJobHolds(j)',
         DOMAIN subBudget \subseteq DOMAIN subBudget'
  PROVE  /\ budgetJob' = [t \in BudgetJobs |-> budgetJob'[t]]
         /\ \A t \in BudgetJobs : BudgetJobHolds(budgetJob[t])'
         /\ budgetJob'[s] = j /\ \A t \in BudgetJobs \ {s} : budgetJob'[t] = budgetJob[t]
<1>1. /\ budgetJob' = [t \in BudgetJobs |-> budgetJob'[t]]
      /\ budgetJob'[s] = j /\ \A t \in BudgetJobs \ {s} : budgetJob'[t] = budgetJob[t]
  BY DEF BudgetWrite, BudgetTyped
<1>2. ASSUME NEW t \in BudgetJobs \ {s} PROVE BudgetJobHolds(budgetJob[t])'
  BY <1>1 DEF BudgetTyped, BudgetJobHolds
<1> QED BY <1>1, <1>2

\* A request that reads.
LEMMA BudgetReadStep ==
  ASSUME BudgetIInv, NEW s \in BudgetJobs, NEW j, BudgetWrite(s, j), BudgetReads,
         BudgetJobHolds(j), j.op = "create_sub_project" => mainBudget.status = "open"
  PROVE  BudgetIInv'
<1>1. UNCHANGED << mainBudget, subBudget, withPhases, confirmed, overtaken, revived >>
  BY DEF BudgetReads
<1>2. BudgetJobHolds(j)'
  BY <1>1 DEF BudgetJobHolds
<1>3. /\ budgetJob' = [t \in BudgetJobs |-> budgetJob'[t]]
      /\ \A t \in BudgetJobs : BudgetJobHolds(budgetJob[t])'
      /\ budgetJob'[s] = j /\ \A t \in BudgetJobs \ {s} : budgetJob'[t] = budgetJob[t]
  BY <1>1, <1>2, BudgetJobsHold DEF BudgetIInv
<1>4. BudgetTyped'
  BY <1>1, <1>3 DEF BudgetIInv, BudgetTyped, BudgetTypeOK
<1>5. OpenedFirst'
  BY <1>1, <1>3 DEF BudgetIInv, OpenedFirst
<1>6. (Approved \ confirmed)' = Approved \ confirmed /\ BudgetOf' = BudgetOf
  BY <1>1 DEF Approved, BudgetOf
<1>7. UnconfirmedFit'
  BY <1>1, <1>6 DEF BudgetIInv, UnconfirmedFit
<1> QED BY <1>4, <1>5, <1>7 DEF BudgetIInv

\* Nothing is held by a request that has ended.
LEMMA BudgetRest == NoBudgetJob.op = "idle" /\ BudgetJobHolds(NoBudgetJob) /\ BudgetJobHolds(NoBudgetJob)'
BY DEF NoBudgetJob, BudgetJobHolds, MainOps, SubOps

LEMMA BudgetLoads ==
  ASSUME BudgetIInv, NEW s \in BudgetJobs,
         \/ UpdateMainLoad(s) \/ SubmitMainLoad(s) \/ ReviewMainLoad(s) \/ CreateSubLoad(s)
         \/ \E u \in BudgetSubs :
               \/ UpdateSubLoad(s, u) \/ SubmitSubLoad(s, u) \/ ReviewSubLoad(s, u)
               \/ CloseSubLoad(s, u) \/ TerminateSubLoad(s, u) \/ LastPhaseLoad(s, u)
         \/ BudgetRollback(s)
  PROVE  BudgetIInv'
<1>1. ASSUME NEW op \in MainOps, LoadMain(s, op, MainStatusesOf(op))
      PROVE  BudgetIInv'
  <2> DEFINE j == [op |-> op, main |-> mainBudget]
  <2>1. BudgetWrite(s, j) /\ BudgetReads /\ mainBudget.status \in MainStatusesOf(op)
    BY <1>1 DEF LoadMain
  <2>2. mainBudget \in MainBudgetRows
    BY BudgetFacts DEF BudgetIInv
  <2>3. j.op = op /\ j.main = mainBudget
    OBVIOUS
  <2> HIDE DEF j
  <2>4. BudgetJobHolds(j)
    BY <2>1, <2>2, <2>3 DEF BudgetJobHolds, MainOps, SubOps
  <2>5. j.op = "create_sub_project" => mainBudget.status = "open"
    BY <2>1, <2>3 DEF MainStatusesOf
  <2> QED BY <2>1, <2>4, <2>5, BudgetReadStep
<1>2. ASSUME NEW op \in SubOps, NEW u \in BudgetSubs, LoadSub(s, u, op, SubStatusesOf(op)), op # "approve"
      PROVE  BudgetIInv'
  <2> DEFINE j == [op |-> op, sub |-> u, row |-> subBudget[u]]
  <2>1. /\ BudgetWrite(s, j) /\ BudgetReads
        /\ u \in DOMAIN subBudget /\ subBudget[u].status \in SubStatusesOf(op)
    BY <1>2 DEF LoadSub
  <2>2. subBudget[u] \in SubBudgetRows
    BY <2>1, BudgetFacts DEF BudgetIInv
  <2>3. j.op = op /\ j.sub = u /\ j.row = subBudget[u]
    OBVIOUS
  <2> HIDE DEF j
  <2>4. BudgetJobHolds(j)
    BY <1>2, <2>1, <2>2, <2>3 DEF BudgetJobHolds, MainOps, SubOps
  <2>5. j.op # "create_sub_project"
    BY <2>3 DEF SubOps
  <2> QED BY <2>1, <2>4, <2>5, BudgetReadStep
<1>3. CASE UpdateMainLoad(s)
  BY <1>1, <1>3 DEF UpdateMainLoad, MainOps, MainStatusesOf
<1>4. CASE SubmitMainLoad(s)
  BY <1>1, <1>4 DEF SubmitMainLoad, MainOps, MainStatusesOf
<1>5. CASE ReviewMainLoad(s)
  BY <1>1, <1>5 DEF ReviewMainLoad, MainOps, MainStatusesOf
<1>6. CASE CreateSubLoad(s)
  BY <1>1, <1>6 DEF CreateSubLoad, MainOps, MainStatusesOf
<1>7. ASSUME NEW u \in BudgetSubs, UpdateSubLoad(s, u) PROVE BudgetIInv'
  BY <1>2, <1>7 DEF UpdateSubLoad, SubOps, SubStatusesOf
<1>8. ASSUME NEW u \in BudgetSubs, SubmitSubLoad(s, u) PROVE BudgetIInv'
  BY <1>2, <1>8 DEF SubmitSubLoad, SubOps, SubStatusesOf
<1>9. ASSUME NEW u \in BudgetSubs, ReviewSubLoad(s, u) PROVE BudgetIInv'
  BY <1>2, <1>9 DEF ReviewSubLoad, SubOps, SubStatusesOf
<1>10. ASSUME NEW u \in BudgetSubs, CloseSubLoad(s, u) PROVE BudgetIInv'
  BY <1>2, <1>10 DEF CloseSubLoad, SubOps, SubStatusesOf
<1>11. ASSUME NEW u \in BudgetSubs, TerminateSubLoad(s, u) PROVE BudgetIInv'
  BY <1>2, <1>11 DEF TerminateSubLoad, SubOps, SubStatusesOf
<1>12. ASSUME NEW u \in BudgetSubs, LastPhaseLoad(s, u) PROVE BudgetIInv'
  BY <1>2, <1>12 DEF LastPhaseLoad, SubOps, SubStatusesOf
<1>13. CASE BudgetRollback(s)
  BY <1>13, BudgetReadStep, BudgetRest DEF BudgetRollback
<1> QED BY <1>3, <1>4, <1>5, <1>6, <1>7, <1>8, <1>9, <1>10, <1>11, <1>12, <1>13

\* The main project is written before it is opened, when there are no
\* sub-projects, or on an outdated reading.
LEMMA MainWriteStep ==
  ASSUME BudgetIInv, NEW s \in BudgetJobs,
         NEW op \in {"update_project", "submit_project", "review_project"},
         NEW new \in {"pending_review", "rejected", "open"}, NEW total \in MainBudgets,
         WriteMain(s, op, new, total)
  PROVE  BudgetIInv'
<1> DEFINE j == budgetJob[s]
<1>1. /\ j.op = op /\ BudgetWrite(s, NoBudgetJob) /\ BasedOn(mainBudget, j.main)
      /\ mainBudget' = [status |-> IF new = j.main.status THEN mainBudget.status ELSE new,
                        total_budget |-> IF total = j.main.total_budget
                                         THEN mainBudget.total_budget ELSE total]
      /\ UNCHANGED << subBudget, withPhases, confirmed, revived >>
  BY DEF WriteMain
<1>2. j.main.status # "open"
  BY <1>1 DEF BudgetIInv, BudgetTyped, BudgetJobHolds, MainOps, MainStatusesOf
<1>3. ~ overtaken' => ~ overtaken /\ mainBudget = j.main
  BY <1>1, BasedOnMeans
<1>4. mainBudget' \in MainBudgetRows
  BY <1>1, BudgetFacts DEF BudgetIInv, MainBudgetRows
<1> HIDE DEF j
<1>5. /\ budgetJob' = [t \in BudgetJobs |-> budgetJob'[t]]
      /\ \A t \in BudgetJobs : BudgetJobHolds(budgetJob[t])'
      /\ budgetJob'[s] = NoBudgetJob /\ \A t \in BudgetJobs \ {s} : budgetJob'[t] = budgetJob[t]
  BY <1>1, BudgetRest, BudgetJobsHold DEF BudgetIInv
<1>6. BudgetTyped'
  BY <1>1, <1>4, <1>5 DEF BudgetIInv, BudgetTyped, BudgetTypeOK
<1>7. ~ overtaken' => /\ DOMAIN subBudget = {}
                      /\ \A t \in BudgetJobs : budgetJob[t].op # "create_sub_project"
  BY <1>2, <1>3 DEF BudgetIInv, OpenedFirst
<1>8. OpenedFirst'
  BY <1>1, <1>5, <1>7, BudgetRest DEF OpenedFirst
<1>9. ~ overtaken' => (Approved \ confirmed)' = {}
  BY <1>1, <1>7 DEF Approved
<1>10. SumOver(BudgetOf', {}) = 0 /\ mainBudget'.total_budget \in Nat
  BY <1>4, SumOverStep, FS_EmptySet, BudgetsAssumption DEF MainBudgetRows
<1>11. UnconfirmedFit'
  BY <1>9, <1>10 DEF UnconfirmedFit
<1> QED BY <1>6, <1>8, <1>11 DEF BudgetIInv

\* A new sub-project is not approved.
LEMMA CreateSubStep ==
  ASSUME BudgetIInv, NEW s \in BudgetJobs, NEW u \in BudgetSubs, NEW b \in SubBudgets,
         create_sub_project(s, u, b)
  PROVE  BudgetIInv'
<1> DEFINE row == [status |-> "pending_review", budget |-> b]
<1>1. /\ budgetJob[s].op = "create_sub_project" /\ u \notin DOMAIN subBudget
      /\ subBudget' = [v \in DOMAIN subBudget \cup {u} |-> IF v = u THEN row ELSE subBudget[v]]
      /\ BudgetWrite(s, NoBudgetJob)
      /\ UNCHANGED << mainBudget, withPhases, confirmed, overtaken, revived >>
  BY DEF create_sub_project
<1>2. row \in SubBudgetRows /\ row.status = "pending_review"
  BY DEF SubBudgetRows
<1> HIDE DEF row
<1>3. /\ DOMAIN subBudget' = DOMAIN subBudget \cup {u} /\ subBudget'[u] = row
      /\ \A v \in DOMAIN subBudget : subBudget'[v] = subBudget[v]
      /\ subBudget' = [v \in DOMAIN subBudget' |-> subBudget'[v]]
  BY <1>1
<1>4. /\ budgetJob' = [t \in BudgetJobs |-> budgetJob'[t]]
      /\ \A t \in BudgetJobs : BudgetJobHolds(budgetJob[t])'
  BY <1>1, <1>3, BudgetRest, BudgetJobsHold DEF BudgetIInv
<1>5. BudgetTyped'
  <2>1. IsFiniteSet(DOMAIN subBudget')
    BY <1>3, FS_AddElement DEF BudgetIInv, BudgetTyped
  <2> QED BY <1>1, <1>2, <1>3, <1>4, <2>1 DEF BudgetIInv, BudgetTyped, BudgetTypeOK
<1>6. OpenedFirst'
  BY <1>1 DEF BudgetIInv, OpenedFirst
<1>7. Approved' = Approved
  BY <1>2, <1>3 DEF Approved, ApprovedStatuses
<1>8. SumOver(BudgetOf', Approved \ confirmed) = SumOver(BudgetOf, Approved \ confirmed)
  <2>1. /\ IsFiniteSet(Approved \ confirmed)
        /\ \A v \in Approved \ confirmed : BudgetOf'[v] = BudgetOf[v]
    BY <1>3, BudgetFacts DEF BudgetIInv, BudgetOf
  <2> QED BY <2>1, SumOverSame
<1>9. UnconfirmedFit'
  BY <1>1, <1>7, <1>8 DEF BudgetIInv, UnconfirmedFit
<1> QED BY <1>5, <1>6, <1>9 DEF BudgetIInv

\* The row of a sub-project is written from what was read of it.
LEMMA SubWriteTyped ==
  ASSUME BudgetIInv, NEW s \in BudgetJobs, NEW op \in SubOps, NEW budget \in SubBudgets,
         NEW new \in {"pending_review", "rejected", "in_progress", "completed", "closed",
                      "terminated"},
         WriteSubRow(s, op, new, budget), withPhases' \subseteq DOMAIN subBudget,
         ~ overtaken' => ~ overtaken
  PROVE  /\ BudgetTyped' /\ OpenedFirst'
         /\ budgetJob[s].sub \in DOMAIN subBudget /\ DOMAIN subBudget' = DOMAIN subBudget
         /\ \A v \in DOMAIN subBudget \ {budgetJob[s].sub} : subBudget'[v] = subBudget[v]
         /\ subBudget[budgetJob[s].sub] = budgetJob[s].row =>
              subBudget'[budgetJob[s].sub] = [status |-> new, budget |-> budget]
<1> DEFINE j == budgetJob[s]
           now == subBudget[j.sub]
           row == [status |-> IF new = j.row.status THEN now.status ELSE new,
                   budget |-> IF budget = j.row.budget THEN now.budget ELSE budget]
<1>1. /\ j.op = op /\ subBudget' = [subBudget EXCEPT ![j.sub] = row]
      /\ BudgetWrite(s, NoBudgetJob) /\ UNCHANGED mainBudget
  BY DEF WriteSubRow
<1>2. j.sub \in DOMAIN subBudget
  BY <1>1 DEF BudgetIInv, BudgetTyped, BudgetJobHolds
<1>3. row \in SubBudgetRows
  BY <1>2, BudgetFacts DEF BudgetIInv, SubBudgetRows
<1>4. now = j.row => row = [status |-> new, budget |-> budget]
  OBVIOUS
<1> HIDE DEF row
<1>5. /\ DOMAIN subBudget' = DOMAIN subBudget /\ subBudget'[j.sub] = row
      /\ \A v \in DOMAIN subBudget \ {j.sub} : subBudget'[v] = subBudget[v]
      /\ subBudget' = [v \in DOMAIN subBudget' |-> subBudget'[v]]
  BY <1>1, <1>2 DEF BudgetIInv, BudgetTyped
<1>6. /\ budgetJob' = [t \in BudgetJobs |-> budgetJob'[t]]
      /\ \A t \in BudgetJobs : BudgetJobHolds(budgetJob[t])'
  BY <1>1, <1>5, BudgetRest, BudgetJobsHold DEF BudgetIInv
<1>7. BudgetTyped'
  BY <1>1, <1>3, <1>5, <1>6 DEF BudgetIInv, BudgetTyped, BudgetTypeOK
<1>8. OpenedFirst'
  BY <1>1, <1>2 DEF BudgetIInv, OpenedFirst
<1> QED BY <1>2, <1>4, <1>5, <1>7, <1>8

\* Such a write leaves the sum as it is or makes it smaller, unless somebody
\* was overtaken: it brings no sub-project in, or one that was confirmed.
LEMMA SubWriteStep ==
  ASSUME BudgetIInv, NEW s \in BudgetJobs, NEW op \in SubOps, NEW budget \in SubBudgets,
         NEW new \in {"pending_review", "rejected", "in_progress", "completed", "closed",
                      "terminated"},
         WriteSubRow(s, op, new, budget), withPhases' \subseteq DOMAIN subBudget,
         confirmed \subseteq confirmed', ~ revived' => ~ revived,
         ~ overtaken' => ~ overtaken /\ subBudget[budgetJob[s].sub] = budgetJob[s].row,
         ~ overtaken' /\ ~ revived' /\ new \in ApprovedStatuses =>
            \/ budgetJob[s].sub \in confirmed'
            \/ budgetJob[s].row.status \in ApprovedStatuses /\ budget = budgetJob[s].row.budget
  PROVE  BudgetIInv'
<1> DEFINE u == budgetJob[s].sub
           row == budgetJob[s].row
           before == Approved \ confirmed
           after == (Approved \ confirmed)'
<1>1. /\ BudgetTyped' /\ OpenedFirst' /\ u \in DOMAIN subBudget
      /\ DOMAIN subBudget' = DOMAIN subBudget
      /\ \A v \in DOMAIN subBudget \ {u} : subBudget'[v] = subBudget[v]
      /\ subBudget[u] = row => subBudget'[u] = [status |-> new, budget |-> budget]
  <2>1. ~ overtaken' => ~ overtaken
    OBVIOUS
  <2> QED BY ZenonT(60), <2>1, SubWriteTyped
<1>2. mainBudget' = mainBudget
  BY DEF WriteSubRow
<1>3. ASSUME ~ overtaken', ~ revived'
      PROVE  SumOver(BudgetOf', after) <= mainBudget.total_budget
  <2>1. /\ subBudget[u] = row /\ subBudget'[u] = [status |-> new, budget |-> budget]
        /\ new \in ApprovedStatuses =>
             u \in confirmed' \/ (row.status \in ApprovedStatuses /\ budget = row.budget)
    BY <1>1, <1>3
  <2>2. SumOver(BudgetOf, before) <= mainBudget.total_budget
    BY <1>3 DEF BudgetIInv, UnconfirmedFit
  <2>3. \A v \in after : v \in before /\ BudgetOf'[v] = BudgetOf[v]
    <3>1. ASSUME NEW v \in after, v # u
          PROVE  v \in before /\ BudgetOf'[v] = BudgetOf[v]
      BY <1>1, <3>1 DEF Approved, BudgetOf
    <3>2. ASSUME u \in after
          PROVE  u \in before /\ BudgetOf'[u] = BudgetOf[u]
      <4>1. new \in ApprovedStatuses /\ u \notin confirmed'
        BY <2>1, <3>2 DEF Approved
      <4>2. subBudget[u].status \in ApprovedStatuses /\ subBudget[u].budget = budget
        BY <2>1, <4>1
      <4> QED BY <1>1, <2>1, <4>1, <4>2 DEF Approved, BudgetOf
    <3> QED BY <3>1, <3>2
  <2>4. /\ IsFiniteSet(before) /\ \A v \in before : BudgetOf[v] \in Nat
        /\ SumOver(BudgetOf, before) \in Nat
    BY BudgetFacts DEF BudgetIInv
  <2> HIDE DEF before, after
  <2>5. IsFiniteSet(after) /\ after \subseteq before
    BY <2>3, <2>4, FS_Subset
  <2>6. SumOver(BudgetOf', after) = SumOver(BudgetOf, after)
    BY <2>3, <2>5, SumOverSame
  <2>7. SumOver(BudgetOf, after) <= SumOver(BudgetOf, before)
    BY <2>4, <2>5, SumOverPart
  <2>8. SumOver(BudgetOf, after) \in Nat /\ mainBudget.total_budget \in Nat
    BY <2>3, <2>4, <2>5, SumOverType, BudgetFacts DEF BudgetIInv
  <2> QED BY <2>2, <2>4, <2>6, <2>7, <2>8
<1> HIDE DEF after
<1>4. UnconfirmedFit'
  BY <1>2, <1>3 DEF UnconfirmedFit, after
<1> QED BY <1>1, <1>4 DEF BudgetIInv

\* The operations that write one status: what they read decides whether the
\* sub-project was approved before.
LEMMA StatusWrites ==
  ASSUME BudgetIInv, NEW s \in BudgetJobs,
         \/ \E b \in SubBudgets : update_sub_project(s, b)
         \/ submit_sub_project(s) \/ close_sub_project(s) \/ terminate_sub_project(s)
         \/ LastPhasePromoted(s) \/ RejectSub(s)
  PROVE  BudgetIInv'
<1> DEFINE j == budgetJob[s]
           Statuses == {"pending_review", "rejected", "in_progress", "completed", "closed",
                        "terminated"}
<1>1. withPhases \subseteq DOMAIN subBudget
  BY DEF BudgetIInv, BudgetTyped, BudgetTypeOK
<1>2. ASSUME NEW op \in SubOps, j.op = op
      PROVE  j.row \in SubBudgetRows /\ j.row.status \in SubStatusesOf(op) /\ j.row.budget \in SubBudgets
  BY <1>2 DEF BudgetIInv, BudgetTyped, BudgetJobHolds, SubBudgetRows
<1>3. ASSUME NEW b \in SubBudgets, update_sub_project(s, b)
      PROVE  BudgetIInv'
  <2>1. /\ WriteSubRow(s, "update_sub_project", "rejected", b)
        /\ ~ overtaken' => ~ overtaken /\ subBudget[j.sub] = j.row
        /\ UNCHANGED << withPhases, confirmed, revived >>
    BY <1>3, BasedOnMeans DEF update_sub_project
  <2>2. "update_sub_project" \in SubOps /\ "rejected" \in Statuses /\ "rejected" \notin ApprovedStatuses
    BY DEF SubOps, ApprovedStatuses
  <2> QED BY <1>1, <2>1, <2>2, SubWriteStep
<1>4. ASSUME NEW op \in SubOps, NEW new \in Statuses, WriteStatus(s, op, new), ~ revived' => ~ revived,
             \/ new \notin ApprovedStatuses \/ SubStatusesOf(op) \subseteq ApprovedStatuses
             \/ ~ revived' => j.row.status \in ApprovedStatuses
      PROVE  BudgetIInv'
  <2>1. /\ WriteSubRow(s, op, new, j.row.budget) /\ j.op = op
        /\ ~ overtaken' => ~ overtaken /\ subBudget[j.sub] = j.row
        /\ UNCHANGED << withPhases, confirmed >>
    BY <1>4, BasedOnMeans DEF WriteStatus
  <2>2. j.row.status \in SubStatusesOf(op) /\ j.row.budget \in SubBudgets
    BY <1>2, <2>1
  <2>3. ~ revived' /\ new \in ApprovedStatuses => j.row.status \in ApprovedStatuses
    BY <1>4, <2>2
  <2> HIDE DEF Statuses
  <2> QED BY <1>1, <1>4, <2>1, <2>2, <2>3, SubWriteStep DEF Statuses
<1> HIDE DEF Statuses
<1>5. CASE submit_sub_project(s)
  <2>1. "submit_sub_project" \in SubOps /\ "pending_review" \in Statuses
        /\ "pending_review" \notin ApprovedStatuses
    BY DEF SubOps, Statuses, ApprovedStatuses
  <2> QED BY <1>4, <1>5, <2>1 DEF submit_sub_project
<1>6. CASE close_sub_project(s)
  <2>1. "close_sub_project" \in SubOps /\ "closed" \in Statuses
        /\ SubStatusesOf("close_sub_project") \subseteq ApprovedStatuses
    BY DEF SubOps, Statuses, ApprovedStatuses, SubStatusesOf
  <2> QED BY <1>4, <1>6, <2>1 DEF close_sub_project
<1>7. CASE terminate_sub_project(s)
  <2>1. "terminate_sub_project" \in SubOps /\ "terminated" \in Statuses
        /\ "terminated" \notin ApprovedStatuses
    BY DEF SubOps, Statuses, ApprovedStatuses
  <2> QED BY <1>4, <1>7, <2>1 DEF terminate_sub_project
<1>8. CASE RejectSub(s)
  <2>1. "review_sum" \in SubOps /\ "rejected" \in Statuses /\ "rejected" \notin ApprovedStatuses
    BY DEF SubOps, Statuses, ApprovedStatuses
  <2> QED BY <1>4, <1>8, <2>1 DEF RejectSub
<1>9. CASE LastPhasePromoted(s)
  <2>1. "last_phase" \in SubOps /\ "completed" \in Statuses
    BY DEF SubOps, Statuses
  <2>2. WriteStatus(s, "last_phase", "completed")
    BY <1>9 DEF LastPhasePromoted
  <2>3. ~ revived' => ~ revived /\ j.row.status \notin {"terminated", "rejected"}
    BY Zenon, <1>9 DEF LastPhasePromoted
  <2>4. j.row.status \in SubStatusesOf("last_phase")
    BY <1>2, <2>1, <2>2 DEF WriteStatus
  <2>5. ~ revived' => j.row.status \in ApprovedStatuses
    BY <2>3, <2>4 DEF SubStatusesOf, ApprovedStatuses
  <2> QED BY <1>4, <2>1, <2>2, <2>3, <2>5
<1> QED BY <1>3, <1>5, <1>6, <1>7, <1>8, <1>9

\* The two reads of an approval.
LEMMA ReviewReads ==
  ASSUME BudgetIInv, NEW s \in BudgetJobs,
         ReviewSubMain(s) \/ \E confirm \in BOOLEAN : ReviewSubSum(s, confirm)
  PROVE  BudgetIInv'
<1> DEFINE j == budgetJob[s]
<1>1. j.op \in {"review_main", "review_sum"} =>
        j.sub \in DOMAIN subBudget /\ j.row \in SubBudgetRows /\ j.row.status = "pending_review"
  BY DEF BudgetIInv, BudgetTyped, BudgetJobHolds, SubOps, SubStatusesOf
<1>2. CASE ReviewSubMain(s)
  <2> DEFINE k == [op |-> "review_sum", sub |-> j.sub, row |-> j.row, main |-> mainBudget]
  <2>1. j.op = "review_main" /\ BudgetWrite(s, k) /\ BudgetReads
    BY <1>2 DEF ReviewSubMain
  <2>2. k.op = "review_sum" /\ k.sub = j.sub /\ k.row = j.row
    OBVIOUS
  <2> HIDE DEF j, k
  <2>3. BudgetJobHolds(k)
    BY <1>1, <2>1, <2>2 DEF BudgetJobHolds, MainOps, SubOps, SubStatusesOf
  <2> QED BY <2>1, <2>2, <2>3, BudgetReadStep
<1>3. ASSUME NEW confirm \in BOOLEAN, ReviewSubSum(s, confirm)
      PROVE  BudgetIInv'
  <2> DEFINE allocated == sum_approved_budget(j.sub)
             fits == allocated + j.row.budget <= j.main.total_budget
             k == [op |-> "approve", sub |-> j.sub, row |-> j.row, main |-> j.main,
                   allocated |-> allocated, fits |-> fits]
  <2>1. j.op = "review_sum" /\ BudgetWrite(s, k) /\ BudgetReads
    BY Zenon, <1>3 DEF ReviewSubSum
  <2> HIDE DEF allocated
  <2>2. /\ k.op = "approve" /\ k.sub = j.sub /\ k.row = j.row
        /\ k.fits => k.allocated + k.row.budget <= k.main.total_budget
    OBVIOUS
  <2> HIDE DEF j, k
  <2>3. BudgetJobHolds(k)
    BY <1>1, <2>1, <2>2 DEF BudgetJobHolds, MainOps, SubOps, SubStatusesOf
  <2> QED BY <2>1, <2>2, <2>3, BudgetReadStep
<1> QED BY <1>2, <1>3

\* An approval either fits with all approved before it, or is confirmed.
LEMMA ApproveStep ==
  ASSUME BudgetIInv, NEW s \in BudgetJobs, ApproveSub(s)
  PROVE  BudgetIInv'
<1> DEFINE j == budgetJob[s]
           u == j.sub
           before == Approved \ {u}
           after == (Approved \ confirmed)'
<1>1. /\ j.op = "approve" /\ u \notin withPhases
      /\ WriteSubRow(s, "approve", "in_progress", j.row.budget)
      /\ withPhases' = withPhases \cup {u} /\ UNCHANGED revived
      /\ confirmed' = IF j.fits THEN confirmed ELSE confirmed \cup {u}
  BY DEF ApproveSub
<1>2. BasedOn(<< mainBudget, subBudget[u], sum_approved_budget(u) >>, << j.main, j.row, j.allocated >>)
  BY Zenon DEF ApproveSub
<1>3. ~ overtaken' => /\ ~ overtaken
                      /\ mainBudget = j.main /\ subBudget[u] = j.row
                      /\ sum_approved_budget(u) = j.allocated
  <2> DEFINE sum == sum_approved_budget(u)
  <2>1. ~ overtaken' => /\ ~ overtaken
                        /\ << mainBudget, subBudget[u], sum >> = << j.main, j.row, j.allocated >>
    BY <1>2, BasedOnMeans
  <2> HIDE DEF sum
  <2>2. << mainBudget, subBudget[u], sum >> = << j.main, j.row, j.allocated >> =>
          mainBudget = j.main /\ subBudget[u] = j.row /\ sum = j.allocated
    OBVIOUS
  <2> QED BY Zenon, <2>1, <2>2 DEF sum
<1>4. /\ u \in DOMAIN subBudget /\ j.row \in SubBudgetRows /\ j.row.budget \in SubBudgets
      /\ j.row.status = "pending_review"
      /\ j.fits => j.allocated + j.row.budget <= j.main.total_budget
  BY <1>1 DEF BudgetIInv, BudgetTyped, BudgetJobHolds, SubOps, SubStatusesOf, SubBudgetRows
<1>5. withPhases' \subseteq DOMAIN subBudget /\ confirmed \subseteq confirmed'
  BY <1>1, <1>4 DEF BudgetIInv, BudgetTyped, BudgetTypeOK
<1>6. "approve" \in SubOps
  BY DEF SubOps
<1>7. CASE ~ j.fits
  <2>1. u \in confirmed'
    BY <1>1, <1>7
  <2> QED BY <1>1, <1>3, <1>4, <1>5, <1>6, <2>1, SubWriteStep
<1>8. CASE j.fits
  <2>1. ~ overtaken' => ~ overtaken
    BY <1>3
  <2>2. /\ BudgetTyped' /\ OpenedFirst' /\ DOMAIN subBudget' = DOMAIN subBudget
        /\ \A v \in DOMAIN subBudget \ {u} : subBudget'[v] = subBudget[v]
        /\ subBudget[u] = j.row =>
             subBudget'[u] = [status |-> "in_progress", budget |-> j.row.budget]
    BY Zenon, <1>1, <1>4, <1>5, <1>6, <2>1, SubWriteTyped
  <2>3. mainBudget' = mainBudget
    BY <1>1 DEF WriteSubRow
  <2>4. ASSUME ~ overtaken'
        PROVE  SumOver(BudgetOf', after) <= mainBudget.total_budget
    <3>1. /\ mainBudget = j.main /\ subBudget[u] = j.row /\ sum_approved_budget(u) = j.allocated
          /\ subBudget'[u] = [status |-> "in_progress", budget |-> j.row.budget]
      BY <1>3, <2>2, <2>4
    <3>2. before \subseteq DOMAIN subBudget /\ sum_approved_budget(u) = SumOver(BudgetOf, before)
      BY BudgetSum DEF BudgetIInv, Approved, sum_approved_budget
    <3>3. Approved' = before \cup {u}
      BY <1>4, <2>2, <3>1 DEF Approved, ApprovedStatuses
    <3>4. /\ \A v \in before : BudgetOf'[v] = BudgetOf[v]
          /\ BudgetOf'[u] = j.row.budget /\ u \notin before
      BY <1>4, <2>2, <3>1, <3>2 DEF BudgetOf
    <3>5. /\ IsFiniteSet(Approved') /\ \A v \in Approved' : BudgetOf'[v] \in Nat
          /\ IsFiniteSet(before) /\ SumOver(BudgetOf, before) \in Nat
      <4>1. IsFiniteSet(before) /\ SumOver(BudgetOf, before) \in Nat
        BY <3>2, BudgetFacts DEF BudgetIInv
      <4>2. \A v \in before : BudgetOf[v] \in Nat
        BY <3>2, BudgetFacts DEF BudgetIInv
      <4>3. IsFiniteSet(before \cup {u})
        BY <3>4, <4>1, FS_AddElement
      <4>4. j.row.budget \in Nat
        BY <1>4, BudgetsAssumption
      <4> HIDE DEF before, j
      <4> QED BY <3>3, <3>4, <4>1, <4>2, <4>3, <4>4
    <3>6. after \subseteq Approved'
      OBVIOUS
    <3> HIDE DEF before, after
    <3>7. SumOver(BudgetOf', after) <= SumOver(BudgetOf', Approved')
      BY <3>5, <3>6, SumOverPart
    <3>8. SumOver(BudgetOf', Approved') = j.row.budget + SumOver(BudgetOf, before)
      <4>1. Approved' \ {u} = before /\ u \in Approved' /\ \A v \in Approved' : BudgetOf'[v] \in Int
        BY <3>3, <3>4, <3>5
      <4>2. SumOver(BudgetOf', Approved') = BudgetOf'[u] + SumOver(BudgetOf', Approved' \ {u})
        BY <3>5, <4>1, SumOverRemove
      <4>3. SumOver(BudgetOf', before) = SumOver(BudgetOf, before)
        BY <3>4, <3>5, SumOverSame
      <4> QED BY <3>4, <4>1, <4>2, <4>3
    <3>9. j.row.budget + SumOver(BudgetOf, before) <= mainBudget.total_budget
      <4>1. j.row.budget \in Nat
        BY <1>4, BudgetsAssumption
      <4> HIDE DEF j
      <4> QED BY <1>4, <1>8, <3>1, <3>2, <3>5, <4>1
    <3>10. /\ SumOver(BudgetOf', after) \in Nat /\ SumOver(BudgetOf', Approved') \in Nat
           /\ mainBudget.total_budget \in Nat
      <4>1. IsFiniteSet(after) /\ \A v \in after : BudgetOf'[v] \in Nat
        BY <3>5, <3>6, FS_Subset
      <4>2. mainBudget.total_budget \in Nat
        BY BudgetFacts DEF BudgetIInv
      <4> QED BY <3>5, <4>1, <4>2, SumOverType
    <3> HIDE DEF j
    <3> QED BY <3>7, <3>8, <3>9, <3>10
  <2> HIDE DEF after
  <2>5. UnconfirmedFit'
    BY <2>3, <2>4 DEF UnconfirmedFit, after
  <2> QED BY <2>2, <2>5 DEF BudgetIInv
<1> QED BY <1>7, <1>8

LEMMA BudgetKept == BudgetIInv /\ [BudgetNext]_budgetVars => BudgetIInv'
<1> SUFFICES ASSUME BudgetIInv, [BudgetNext]_budgetVars PROVE BudgetIInv'
  OBVIOUS
<1>1. CASE UNCHANGED budgetVars
  <2>1. UNCHANGED << mainBudget, subBudget, withPhases, budgetJob, confirmed, overtaken, revived >>
    BY <1>1 DEF budgetVars
  <2>2. (Approved \ confirmed)' = Approved \ confirmed /\ BudgetOf' = BudgetOf
    BY <2>1 DEF Approved, BudgetOf
  <2> QED BY <2>1, <2>2 DEF BudgetIInv, BudgetTyped, BudgetTypeOK, BudgetJobHolds, OpenedFirst,
                            UnconfirmedFit
<1>2. ASSUME NEW s \in BudgetJobs, BudgetStep(s)
      PROVE  BudgetIInv'
  <2>1. ASSUME NEW b \in MainBudgets, WriteMain(s, "update_project", "rejected", b)
        PROVE  BudgetIInv'
    BY <2>1, MainWriteStep
  <2>2. CASE submit_project(s)
    <3>1. budgetJob[s].main.total_budget \in MainBudgets
      BY <2>2 DEF submit_project, BudgetIInv, BudgetTyped, BudgetJobHolds, MainOps, MainBudgetRows
    <3> QED BY <2>2, <3>1, MainWriteStep DEF submit_project
  <2>3. ASSUME NEW b \in MainBudgets, NEW new \in {"open", "rejected"},
               WriteMain(s, "review_project", new, b)
        PROVE  BudgetIInv'
    BY <2>3, MainWriteStep
  <2>4. ASSUME NEW u \in BudgetSubs, NEW b \in SubBudgets, create_sub_project(s, u, b)
        PROVE  BudgetIInv'
    BY <2>4, CreateSubStep
  <2> QED BY Zenon, <1>2, <2>1, <2>2, <2>3, <2>4, BudgetLoads, StatusWrites, ReviewReads, ApproveStep
          DEF BudgetStep, update_project, review_project
<1> QED BY <1>1, <1>2 DEF BudgetNext

LEMMA BudgetInductive == BudgetSpec => []BudgetIInv
BY BudgetInitHolds, BudgetKept, PTL DEF BudgetSpec

\* Type correctness of the budgets (BudgetTypeOK), for every set of
\* sub-projects, budgets and requests.
THEOREM BudgetsTypeCorrect == BudgetSpec => []BudgetTypeOK
<1>1. BudgetIInv => BudgetTypeOK
  BY DEF BudgetIInv, BudgetTyped
<1> QED BY <1>1, BudgetInductive, PTL

\* Unless a commit was decided on outdated values or a promotion has revived
\* a sub-project, the approved budgets exceed the main project's only while one
\* of them was confirmed as exceeding it (_validate_over_budget), although
\* nothing is locked between the sum and the approval.
THEOREM ExcessWasConfirmed == BudgetSpec => []ExcessIsConfirmed
<1>1. BudgetIInv => ExcessIsConfirmed
  <2> SUFFICES ASSUME BudgetIInv, Total(Approved) > mainBudget.total_budget,
                      ~ overtaken, ~ revived, confirmed \cap Approved = {}
               PROVE  FALSE
    BY DEF ExcessIsConfirmed
  <2>1. Approved \ confirmed = Approved
    OBVIOUS
  <2>2. SumOver(BudgetOf, Approved) <= mainBudget.total_budget
    BY <2>1 DEF BudgetIInv, UnconfirmedFit
  <2>3. /\ Total(Approved) = SumOver(BudgetOf, Approved)
        /\ SumOver(BudgetOf, Approved) \in Nat /\ mainBudget.total_budget \in Nat
    BY BudgetSum, BudgetFacts DEF BudgetIInv
  <2> QED BY <2>2, <2>3
<1> QED BY <1>1, BudgetInductive, PTL

-----------------------------------------------------------------------------
(***************************************************************************)
(* Project numbers: the sequence gives each number once, so that whatever  *)
(* a number from it meets in the table was imported.                       *)
(***************************************************************************)

\* A request draws one number, or has looked its sheet's numbers up.
NumberJobHolds(j) ==
  \/ j = NoNumberJob
  \/ /\ j.op = "insert"
     /\ j = [op |-> "insert", no |-> j.no, from |-> j.from, total_budget |-> j.total_budget]
     /\ j.no \in 1 .. main_project_no_seq
     /\ j.from \in {"form", "template"}
     /\ j.no \in Used => project[j.no].from = "import"
  \/ /\ j.op = "import"
     /\ j = [op |-> "import", sheet |-> j.sheet, existing |-> j.existing]
     /\ j.sheet \in Sheets

NumberTyped ==
  /\ main_project_no_seq \in 0 .. LastSequence
  /\ numberJob = [s \in NumberJobs |-> numberJob[s]]
  /\ project = [no \in Used |-> project[no]]
  /\ \A no \in Used : project[no].status \in {"pending_review", "not_started"}
  /\ DOMAIN template = 1 .. Len(template) /\ Len(template) \in 0 .. MaxTemplates
  /\ template = [i \in 1 .. Len(template) |-> template[i]]

\* No two requests have drawn the same number, and what is in use and was
\* not imported has been drawn.
DrawnOnce ==
  /\ \A s \in NumberJobs : NumberJobHolds(numberJob[s])
  /\ \A s, t \in NumberJobs :
       /\ numberJob[s].op = "insert" /\ numberJob[t].op = "insert"
       /\ numberJob[s].no = numberJob[t].no
       => s = t
  /\ \A no \in Used : project[no].from = "import" \/ no \in 1 .. main_project_no_seq

NumberIInv == NumberTyped /\ DrawnOnce /\ ImportIsExact /\ CollisionsAreImported

\* Among some rows of a sheet there is a first one.
LEMMA FirstRow ==
  ASSUME NEW n \in Nat, NEW some, some \subseteq 1 .. n, some # {}
  PROVE  \E first \in some : \A i \in some : first <= i
<1> DEFINE all == 1 .. n
           upTo == {1 .. i : i \in some}
<1>1. IsFiniteSet(all) /\ upTo \subseteq SUBSET all /\ upTo # {}
  <2>1. IsFiniteSet(1 .. n)
    BY FS_Interval
  <2>2. \A i \in some : 1 .. i \subseteq 1 .. n
    OBVIOUS
  <2> QED BY <2>1, <2>2
<1> HIDE DEF all, upTo
<1>2. PICK A \in upTo : \A B \in upTo : B \subseteq A => B = A
  BY <1>1, SmallestPart
<1> USE DEF upTo
<1>3. PICK first \in some : A = 1 .. first
  OBVIOUS
<1>4. ASSUME NEW i \in some, i < first PROVE FALSE
  <2>1. 1 .. i \in upTo /\ 1 .. i \subseteq A
    BY <1>3, <1>4
  <2>2. 1 .. i = 1 .. first
    BY <1>2, <1>3, <2>1
  <2>3. first \in 1 .. first /\ first \notin 1 .. i
    BY <1>4
  <2> QED BY <2>2, <2>3
<1>5. \A i \in some : i \in Int /\ first \in Int
  OBVIOUS
<1> QED BY <1>4, <1>5

\* The rows _validate_row lets through: one for each number that is free and
\* that a row without errors of its own gives.
LEMMA RowsValidated ==
  ASSUME NEW sheet \in Sheets, NEW existing
  PROVE  LET rows == validated_rows(sheet, existing)
         IN  /\ rows \subseteq DOMAIN sheet
             /\ \A i, k \in rows : sheet[i].no = sheet[k].no => i = k
             /\ {sheet[i].no : i \in rows} =
                  {sheet[i].no : i \in {k \in DOMAIN sheet : ~ Faulty(sheet[k])}} \ existing
<1> DEFINE n == Len(sheet)
           good == {i \in 1 .. n : ~ Faulty(sheet[i])}
           like(i) == {k \in good : sheet[k].no = sheet[i].no}
           test(f) == [i \in DOMAIN sheet |-> /\ ~ Faulty(sheet[i])
                                              /\ sheet[i].no \notin existing
                                              /\ ~ Repeated(sheet, f, i)]
           valid == CHOOSE f : f = test(f)
           firsts == [i \in 1 .. n |-> /\ i \in good /\ sheet[i].no \notin existing
                                       /\ \A k \in like(i) : i <= k]
<1>1. n \in Nat /\ DOMAIN sheet = 1 .. n
  BY NumbersAssumption
<1>2. \A i \in good : \E first \in like(i) : \A k \in like(i) : first <= k
  <2> TAKE i \in good
  <2>1. like(i) \subseteq 1 .. n /\ like(i) # {}
    OBVIOUS
  <2> HIDE DEF like
  <2> QED BY <1>1, <2>1, FirstRow
<1>3. firsts = test(firsts)
  <2>1. ASSUME NEW i \in 1 .. n
        PROVE  firsts[i] = test(firsts)[i]
    <3>1. CASE i \notin good \/ sheet[i].no \in existing
      BY <1>1, <3>1
    <3>2. ASSUME i \in good, sheet[i].no \notin existing PROVE firsts[i] = test(firsts)[i]
      <4>1. PICK first \in like(i) : \A k \in like(i) : first <= k
        BY <1>2, <3>2
      <4>2. like(first) = like(i)
        BY <4>1
      <4>3. firsts[first]
        BY <3>2, <4>1, <4>2
      <4>4. first <= i /\ first \in 1 .. n /\ sheet[first].no = sheet[i].no
        BY <3>2, <4>1
      <4>5. Repeated(sheet, firsts, i) <=> first # i
        <5>1. ASSUME first # i PROVE Repeated(sheet, firsts, i)
          <6>1. first \in 1 .. i - 1
            BY <1>1, <4>4, <5>1
          <6> HIDE DEF firsts
          <6> QED BY <4>3, <4>4, <6>1 DEF Repeated
        <5>2. ASSUME first = i, NEW k \in 1 .. i - 1, firsts[k], sheet[k].no = sheet[i].no
              PROVE  FALSE
          <6>1. k \in 1 .. n /\ k < i
            BY <1>1, <5>2
          <6>2. k \in like(i)
            BY <5>2, <6>1
          <6> QED BY <4>1, <5>2, <6>1, <6>2
        <5> QED BY <5>1, <5>2 DEF Repeated
      <4>6. firsts[i] <=> first = i
        BY <1>1, <3>2, <4>1, <4>4
      <4>7. test(firsts)[i] <=> first = i
        BY <1>1, <3>2, <4>5
      <4>8. firsts[i] \in BOOLEAN /\ test(firsts)[i] \in BOOLEAN
        BY <1>1
      <4> QED BY <4>6, <4>7, <4>8
    <3> QED BY <3>1, <3>2
  <2> HIDE DEF good, like
  <2> QED BY <1>1, <2>1
<1>4. valid = test(valid)
  <2> HIDE DEF test, firsts
  <2> QED BY <1>3
<1>5. validated_rows(sheet, existing) = {i \in DOMAIN sheet : valid[i]}
  BY DEF validated_rows
<1> DEFINE rows == {i \in DOMAIN sheet : valid[i]}
<1>6. \A i \in 1 .. n : i \in rows <=> /\ i \in good
                                       /\ sheet[i].no \notin existing
                                       /\ ~ \E k \in 1 .. i - 1 : valid[k] /\ sheet[k].no = sheet[i].no
  <2> HIDE DEF valid
  <2> QED BY <1>1, <1>4 DEF Repeated
<1> HIDE DEF valid
<1>7. ASSUME NEW i \in rows, NEW k \in rows, sheet[i].no = sheet[k].no, i < k PROVE FALSE
  <2>1. i \in 1 .. k - 1 /\ k \in 1 .. n /\ valid[i]
    BY <1>1, <1>7
  <2> QED BY <1>6, <1>7, <2>1
<1>8. \A i, k \in rows : sheet[i].no = sheet[k].no => i = k
  <2> HIDE DEF rows
  <2>1. \A i \in rows : i \in Int
    BY <1>1 DEF rows
  <2> QED BY <1>7, <2>1
<1>9. \A i \in good : sheet[i].no \notin existing => \E k \in rows : sheet[k].no = sheet[i].no
  <2> TAKE i \in good
  <2> HAVE sheet[i].no \notin existing
  <2>1. PICK first \in like(i) : \A k \in like(i) : first <= k
    BY <1>2
  <2>2. ASSUME NEW k \in 1 .. first - 1, valid[k], sheet[k].no = sheet[first].no PROVE FALSE
    <3>1. k \in 1 .. n /\ k < first
      BY <1>1, <2>2
    <3>2. k \in like(i)
      BY <1>1, <1>6, <2>1, <2>2, <3>1
    <3> QED BY <2>1, <3>1, <3>2
  <2>3. first \in 1 .. n /\ first \in good /\ sheet[first].no = sheet[i].no
    BY <2>1
  <2>4. first \in rows
    <3> HIDE DEF rows, good
    <3> QED BY <1>6, <2>2, <2>3
  <2> QED BY <2>3, <2>4
<1>10. rows \subseteq 1 .. n /\ \A i \in rows : i \in good /\ sheet[i].no \notin existing
  <2>1. rows \subseteq 1 .. n
    BY <1>1
  <2> HIDE DEF rows, good
  <2> QED BY <1>6, <2>1
<1>11. {sheet[i].no : i \in rows} = {sheet[i].no : i \in good} \ existing
  <2> HIDE DEF rows, good
  <2>1. good \subseteq 1 .. n
    BY DEF good
  <2> QED BY <1>9, <1>10
<1>12. good = {k \in DOMAIN sheet : ~ Faulty(sheet[k])}
  BY <1>1
<1> HIDE DEF rows, good
<1> QED BY <1>1, <1>5, <1>8, <1>10, <1>11, <1>12 DEF rows

LEMMA NumberInitHolds == NumberInit => NumberIInv
<1> SUFFICES ASSUME NumberInit PROVE NumberIInv
  OBVIOUS
<1>1. project = [no \in {} |-> project[no]] /\ Used = {}
  BY DEF NumberInit, Used
<1>2. Len(template) = 0 /\ DOMAIN template = 1 .. 0 /\ template = [i \in 1 .. 0 |-> template[i]]
  BY DEF NumberInit
<1>3. main_project_no_seq \in 0 .. LastSequence /\ Len(template) \in 0 .. MaxTemplates
  BY <1>2, NumbersAssumption DEF NumberInit
<1>4. numberJob = [s \in NumberJobs |-> numberJob[s]] /\ \A s \in NumberJobs : numberJob[s] = NoNumberJob
  BY DEF NumberInit
<1>5. NumberTyped
  BY <1>1, <1>2, <1>3, <1>4 DEF NumberTyped
<1>6. DrawnOnce
  BY <1>1, <1>4 DEF DrawnOnce, NumberJobHolds, NoNumberJob
<1> QED BY <1>5, <1>6 DEF NumberInit, NumberIInv, ImportIsExact, CollisionsAreImported

\* A request that changes nothing but its job.
LEMMA NumberJobStep ==
  ASSUME NumberIInv, NEW s \in NumberJobs, NEW j, NumberJobHolds(j), j.op # "insert",
         NumberWrite(s, j), NumberReads, UNCHANGED main_project_no_seq
  PROVE  NumberIInv'
<1>1. numberJob' = [r \in NumberJobs |-> IF r = s THEN j ELSE numberJob[r]]
  BY DEF NumberIInv, NumberTyped, NumberWrite
<1>2. UNCHANGED << project, template, imports, collisions, main_project_no_seq >>
  BY DEF NumberReads
<1> QED BY <1>1, <1>2 DEF NumberIInv, NumberTyped, DrawnOnce, NumberJobHolds, ImportIsExact,
                          CollisionsAreImported, Used

LEMMA RestingNumberJob == NumberJobHolds(NoNumberJob) /\ NoNumberJob.op = "idle"
BY DEF NumberJobHolds, NoNumberJob

\* A number from the sequence has not been given before.
LEMMA DrawStep ==
  ASSUME NumberIInv, NEW s \in NumberJobs, NEW from \in {"form", "template"}, NEW total,
         next_project_sequence(s, [op |-> "insert", no |-> DrawnNumber, from |-> from,
                                   total_budget |-> total])
  PROVE  NumberIInv'
<1> DEFINE j == [op |-> "insert", no |-> DrawnNumber, from |-> from, total_budget |-> total]
<1>1. numberJob' = [r \in NumberJobs |-> IF r = s THEN j ELSE numberJob[r]]
  BY DEF NumberIInv, NumberTyped, NumberWrite, next_project_sequence
<1>2. /\ UNCHANGED << project, template, imports, collisions >>
      /\ main_project_no_seq' = main_project_no_seq + 1
      /\ DrawnNumber = main_project_no_seq + 1
      /\ main_project_no_seq \in Nat /\ main_project_no_seq < LastSequence
  BY NumbersAssumption DEF NumberIInv, NumberTyped, NumberReads, next_project_sequence, DrawnNumber
<1>6. /\ main_project_no_seq' \in 0 .. LastSequence
       /\ 1 .. main_project_no_seq \subseteq 1 .. main_project_no_seq'
       /\ DrawnNumber \in 1 .. main_project_no_seq'
       /\ DrawnNumber \notin 1 .. main_project_no_seq
  BY <1>2, NumbersAssumption
<1>3. /\ j.op = "insert" /\ j.no = DrawnNumber /\ j.from = from
      /\ j = [op |-> "insert", no |-> j.no, from |-> j.from, total_budget |-> j.total_budget]
  OBVIOUS
<1> HIDE DEF j
<1>4. NumberTyped'
  BY <1>1, <1>2, <1>6 DEF NumberIInv, NumberTyped, Used
<1>5. DrawnOnce'
  <2>1. \A no \in Used : project[no].from = "import" \/ no # DrawnNumber
    BY <1>6 DEF NumberIInv, DrawnOnce
  <2>2. ASSUME NEW r \in NumberJobs PROVE NumberJobHolds(numberJob[r])'
    <3>1. CASE r # s
      <4>1. numberJob'[r] = numberJob[r] /\ NumberJobHolds(numberJob[r])
        BY <1>1, <3>1 DEF NumberIInv, DrawnOnce
      <4> QED BY <1>2, <1>6, <4>1 DEF NumberJobHolds, Used
    <3>2. CASE r = s
      <4>1. numberJob'[r] = j
        BY <1>1, <3>2
      <4> QED BY <1>2, <1>6, <1>3, <2>1, <4>1 DEF NumberJobHolds, Used
    <3> QED BY <3>1, <3>2
  <2>3. ASSUME NEW r \in NumberJobs, r # s, numberJob[r].op = "insert"
        PROVE  numberJob[r].no # DrawnNumber
    <3>1. numberJob[r].no \in 1 .. main_project_no_seq
      <4>1. NumberJobHolds(numberJob[r])
        BY DEF NumberIInv, DrawnOnce
      <4> QED BY <2>3, <4>1 DEF NumberJobHolds, NoNumberJob
    <3> QED BY <1>6, <3>1
  <2>4. \A no \in Used' : project'[no].from = "import" \/ no \in 1 .. main_project_no_seq'
    BY <1>2, <1>6 DEF NumberIInv, DrawnOnce, Used
  <2> QED BY <1>1, <1>3, <2>2, <2>3, <2>4 DEF NumberIInv, DrawnOnce
<1> QED BY <1>2, <1>4, <1>5 DEF NumberIInv, ImportIsExact, CollisionsAreImported

\* Projects come in under numbers that are free.
LEMMA InsertStep ==
  ASSUME NumberIInv, NEW s \in NumberJobs, InsertCommit(s)
  PROVE  NumberIInv'
<1> DEFINE j == numberJob[s]
<1>1. /\ numberJob' = [r \in NumberJobs |-> IF r = s THEN NoNumberJob ELSE numberJob[r]]
      /\ UNCHANGED << template, main_project_no_seq, imports, collisions >>
      /\ j.op = "insert" /\ j.no \notin Used /\ NumberJobHolds(j)
  BY DEF NumberIInv, NumberTyped, DrawnOnce, NumberWrite, InsertCommit
<1>2. j.no \in 1 .. main_project_no_seq
  BY <1>1 DEF NumberJobHolds, NoNumberJob
<1>3. /\ project' = [no \in Used \cup {j.no} |-> IF no \in Used THEN project[no] ELSE
             [status |-> "pending_review", from |-> j.from, total_budget |-> j.total_budget]]
      /\ Used' = Used \cup {j.no}
  BY DEF InsertCommit, Used
<1>4. project'[j.no].status = "pending_review" /\ \A no \in Used : project'[no] = project[no]
  BY <1>1, <1>3
<1>5. NumberTyped'
  <2>1. project' = [no \in Used' |-> project'[no]]
    BY <1>3
  <2>2. \A no \in Used' : project'[no].status \in {"pending_review", "not_started"}
    BY <1>3, <1>4 DEF NumberIInv, NumberTyped
  <2> QED BY <1>1, <2>1, <2>2 DEF NumberIInv, NumberTyped, Used
<1>6. DrawnOnce'
  <2>1. ASSUME NEW r \in NumberJobs PROVE NumberJobHolds(numberJob[r])'
    <3>1. CASE r # s
      <4>1. numberJob'[r] = numberJob[r] /\ NumberJobHolds(numberJob[r])
        BY <1>1, <3>1 DEF NumberIInv, DrawnOnce
      <4>2. numberJob[r].op = "insert" => numberJob[r].no # j.no
        BY <1>1, <3>1 DEF NumberIInv, DrawnOnce
      <4> HIDE DEF j
      <4> QED BY <1>1, <1>3, <1>4, <4>1, <4>2 DEF NumberJobHolds
    <3>2. CASE r = s
      BY <1>1, <3>2 DEF NumberJobHolds, NoNumberJob
    <3> QED BY <3>1, <3>2
  <2>2. \A no \in Used' : project'[no].from = "import" \/ no \in 1 .. main_project_no_seq'
    BY <1>1, <1>2, <1>3, <1>4 DEF NumberIInv, DrawnOnce
  <2> QED BY <1>1, <2>1, <2>2, RestingNumberJob DEF NumberIInv, DrawnOnce
<1> QED BY <1>1, <1>5, <1>6 DEF NumberIInv, ImportIsExact, CollisionsAreImported

\* What an import makes of its sheet is what it should.
LEMMA ImportStep ==
  ASSUME NumberIInv, NEW s \in NumberJobs, ImportCommit(s)
  PROVE  NumberIInv'
<1> DEFINE j == numberJob[s]
           numbers == {j.sheet[i].no : i \in validated_rows(j.sheet, j.existing)}
<1>1. /\ numberJob' = [r \in NumberJobs |-> IF r = s THEN NoNumberJob ELSE numberJob[r]]
      /\ UNCHANGED << template, main_project_no_seq, collisions >>
      /\ j.op = "import" /\ numbers \cap Used = {} /\ NumberJobHolds(j)
  BY DEF NumberIInv, NumberTyped, DrawnOnce, NumberWrite, ImportCommit, Importing
<1>2. j.sheet \in Sheets
  BY <1>1 DEF NumberJobHolds, NoNumberJob
<1>3. /\ project' = [no \in Used \cup numbers |-> IF no \in Used THEN project[no] ELSE
             [status |-> "not_started", from |-> "import", total_budget |-> 0]]
      /\ Used' = Used \cup numbers
  BY DEF ImportCommit, Used
<1>4. imports' = imports \cup {[sheet |-> j.sheet, existing |-> j.existing, created |-> numbers]}
  BY DEF ImportCommit
<1>5. ImportIsExact'
  <2>1. numbers = {j.sheet[i].no : i \in {k \in DOMAIN j.sheet : ~ Faulty(j.sheet[k])}} \ j.existing
    BY <1>2, RowsValidated
  <2> HIDE DEF j, numbers
  <2> QED BY <1>4, <2>1 DEF NumberIInv, ImportIsExact
<1> HIDE DEF numbers
<1>6. /\ \A no \in Used : project'[no] = project[no]
      /\ \A no \in Used' \ Used : project'[no].status = "not_started" /\ project'[no].from = "import"
  BY <1>1, <1>3
<1>7. NumberTyped'
  <2>1. project' = [no \in Used' |-> project'[no]]
    BY <1>3
  <2>2. \A no \in Used' : project'[no].status \in {"pending_review", "not_started"}
    BY <1>6 DEF NumberIInv, NumberTyped
  <2> QED BY <1>1, <2>1, <2>2 DEF NumberIInv, NumberTyped, Used
<1>8. DrawnOnce'
  <2>1. ASSUME NEW r \in NumberJobs PROVE NumberJobHolds(numberJob[r])'
    <3>1. CASE r # s
      <4>1. numberJob'[r] = numberJob[r] /\ NumberJobHolds(numberJob[r])
        BY <1>1, <3>1 DEF NumberIInv, DrawnOnce
      <4> HIDE DEF j
      <4> QED BY <1>1, <1>6, <4>1 DEF NumberJobHolds
    <3>2. CASE r = s
      BY <1>1, <3>2 DEF NumberJobHolds, NoNumberJob
    <3> QED BY <3>1, <3>2
  <2>2. \A no \in Used' : project'[no].from = "import" \/ no \in 1 .. main_project_no_seq'
    BY <1>1, <1>6 DEF NumberIInv, DrawnOnce
  <2> QED BY <1>1, <2>1, <2>2, RestingNumberJob DEF NumberIInv, DrawnOnce
<1> QED BY <1>1, <1>5, <1>7, <1>8 DEF NumberIInv, CollisionsAreImported

\* A commit that fails on a number names an imported one.
LEMMA CollisionStep ==
  ASSUME NumberIInv, NEW s \in NumberJobs, InsertCollides(s) \/ ImportCollides(s)
  PROVE  NumberIInv'
<1> DEFINE j == numberJob[s]
<1>1. /\ numberJob' = [r \in NumberJobs |-> IF r = s THEN NoNumberJob ELSE numberJob[r]]
      /\ UNCHANGED << project, template, main_project_no_seq, imports >>
      /\ NumberJobHolds(j)
  BY DEF NumberIInv, NumberTyped, DrawnOnce, NumberWrite, InsertCollides, ImportCollides
<1>2. CollisionsAreImported'
  <2>1. CASE InsertCollides(s)
    <3>1. project[j.no].from = "import"
      BY <1>1, <2>1 DEF InsertCollides, NumberJobHolds, NoNumberJob
    <3>2. collisions' = collisions \cup {[op |-> "insert", with |-> project[j.no].from]}
      BY <2>1 DEF InsertCollides
    <3> QED BY <3>1, <3>2 DEF NumberIInv, CollisionsAreImported
  <2>2. CASE ImportCollides(s)
    <3> DEFINE rows == validated_rows(j.sheet, j.existing)
               taken == {j.sheet[i].no : i \in rows} \cap Used
    <3>1. j.sheet \in Sheets
      BY <1>1, <2>2 DEF ImportCollides, Importing, NumberJobHolds, NoNumberJob
    <3>2. \A i, k \in rows : j.sheet[i].no = j.sheet[k].no => i = k
      BY <3>1, RowsValidated
    <3>3. /\ taken # {} \/ \E i, k \in rows : i # k /\ j.sheet[i].no = j.sheet[k].no
          /\ collisions' = collisions \cup {[op |-> "import", since |-> taken # {}]}
      BY <2>2 DEF ImportCollides
    <3>4. taken # {}
      BY <3>2, <3>3
    <3>5. PICK c : c.op = "import" /\ c.since /\ collisions' = collisions \cup {c}
      <4> HIDE DEF taken
      <4> QED BY <3>3, <3>4
    <3> QED BY <3>5 DEF NumberIInv, CollisionsAreImported
  <2> QED BY <2>1, <2>2
<1>3. NumberTyped' /\ DrawnOnce'
  BY <1>1, RestingNumberJob DEF NumberIInv, NumberTyped, DrawnOnce, NumberJobHolds, Used
<1> QED BY <1>1, <1>2, <1>3 DEF NumberIInv, ImportIsExact

LEMMA TemplateStep ==
  ASSUME NumberIInv, NEW p \in People, NEW scope, NEW no \in Used,
         create_template_from_project(p, scope, no)
  PROVE  NumberIInv'
<1>1. UNCHANGED << project, main_project_no_seq, numberJob, imports, collisions >>
  BY DEF create_template_from_project
<1> DEFINE T == {template[i] : i \in 1 .. Len(template)} \cup
                {[scope |-> scope, owner |-> p, total_budget |-> project[no].total_budget]}
<1>2. template \in Seq(T)
  BY DEF NumberIInv, NumberTyped
<1>3. Len(template) + 1 \in 0 .. MaxTemplates
  <2>1. Len(template) \in 0 .. MaxTemplates /\ Len(template) < MaxTemplates
    BY DEF NumberIInv, NumberTyped, create_template_from_project
  <2> QED BY <2>1, NumbersAssumption
<1>4. template' = Append(template, [scope |-> scope, owner |-> p,
                                    total_budget |-> project[no].total_budget])
  BY DEF create_template_from_project
<1>5. template' \in Seq(T) /\ Len(template') = Len(template) + 1
  BY <1>2, <1>4
<1> HIDE DEF T
<1>6. /\ DOMAIN template' = 1 .. Len(template') /\ Len(template') \in 0 .. MaxTemplates
      /\ template' = [i \in 1 .. Len(template') |-> template'[i]]
  BY <1>3, <1>5
<1> QED BY <1>1, <1>6 DEF NumberIInv, NumberTyped, DrawnOnce, NumberJobHolds, ImportIsExact,
                          CollisionsAreImported, Used

LEMMA NumberKept == NumberIInv /\ [NumberNext]_numberVars => NumberIInv'
<1> SUFFICES ASSUME NumberIInv, [NumberNext]_numberVars PROVE NumberIInv'
  OBVIOUS
<1>1. CASE UNCHANGED numberVars
  BY <1>1 DEF numberVars, NumberIInv, NumberTyped, DrawnOnce, NumberJobHolds, ImportIsExact,
              CollisionsAreImported, Used
<1>2. ASSUME NEW s \in NumberJobs, NEW p \in People, NEW amount \in Amounts,
             create_project(s, p, amount)
      PROVE  NumberIInv'
  BY <1>2, DrawStep DEF create_project
<1>3. ASSUME NEW s \in NumberJobs, NEW p \in People, NEW amount \in Amounts, NEW i \in DOMAIN template,
             instantiate_template(s, p, template[i], amount)
      PROVE  NumberIInv'
  BY <1>3, DrawStep DEF instantiate_template
<1>4. ASSUME NEW s \in NumberJobs, NEW p \in People, NEW sheet \in Sheets, ImportLoad(s, p, sheet)
      PROVE  NumberIInv'
  <2> DEFINE j == [op |-> "import", sheet |-> sheet,
                   existing |-> Used \cap {sheet[i].no : i \in DOMAIN sheet}]
  <2>1. NumberJobHolds(j) /\ j.op # "insert"
    BY DEF NumberJobHolds
  <2>2. NumberWrite(s, j) /\ NumberReads /\ UNCHANGED main_project_no_seq
    BY <1>4 DEF ImportLoad
  <2> HIDE DEF j
  <2> QED BY <2>1, <2>2, NumberJobStep
<1>5. ASSUME NEW s \in NumberJobs, NumberRollback(s) PROVE NumberIInv'
  BY <1>5, NumberJobStep, RestingNumberJob DEF NumberRollback
<1> QED BY <1>1, <1>2, <1>3, <1>4, <1>5, InsertStep, ImportStep, CollisionStep, TemplateStep
        DEF NumberNext

LEMMA NumberInductive == NumberSpec => []NumberIInv
BY NumberInitHolds, NumberKept, PTL DEF NumberSpec

\* Type correctness of projects, templates and numbers (NumberTypeOK), for
\* every set of people and sheets and every bound.
THEOREM NumbersTypeCorrect == NumberSpec => []NumberTypeOK
<1>1. NumberIInv => NumberTypeOK
  BY NumbersAssumption DEF NumberIInv, NumberTyped, NumberTypeOK
<1> QED BY <1>1, NumberInductive, PTL

\* An import makes a project of every free number that some row gives without
\* errors (_validate_row), and a commit fails on a number only where an
\* import is involved, for any sheets, however the requests overlap.
THEOREM NumbersMeetOnlyImports == NumberSpec => []NumbersAreSound
<1>1. NumberIInv => NumbersAreSound
  BY DEF NumberIInv, NumbersAreSound
<1> QED BY <1>1, NumberInductive, PTL

-----------------------------------------------------------------------------
(***************************************************************************)
(* The components side by side: each of them takes its own steps or rests, *)
(* so what is proved of its specification holds in all of the system.      *)
(***************************************************************************)

LEMMA RecordsPayment == RecordsSpec => PaymentSpec
<1>1. RecordsInit => PaymentInit
  BY DEF RecordsInit
<1>2. [RecordsNext]_recordsVars => [PaymentNext]_paymentVars
  BY DEF RecordsNext, OthersRest, recordsVars
<1> QED BY <1>1, <1>2, PTL DEF RecordsSpec, PaymentSpec

LEMMA RecordsDocument == RecordsSpec => DocumentSpec
<1>1. RecordsInit => DocumentInit
  BY DEF RecordsInit
<1>2. [RecordsNext]_recordsVars => [DocumentNext]_documentVars
  BY DEF RecordsNext, OthersRest, recordsVars
<1> QED BY <1>1, <1>2, PTL DEF RecordsSpec, DocumentSpec

LEMMA RecordsGate == RecordsSpec => GateSpec
<1>1. RecordsInit => GateInit
  BY DEF RecordsInit
<1>2. [RecordsNext]_recordsVars => [GateNext]_gateVars
  BY DEF RecordsNext, OthersRest, recordsVars
<1> QED BY <1>1, <1>2, PTL DEF RecordsSpec, GateSpec

LEMMA RecordsStore == RecordsSpec => StoreSpec
<1>1. RecordsInit => StoreInit
  BY DEF RecordsInit
<1>2. [RecordsNext]_recordsVars => [StoreNext]_storeVars
  BY DEF RecordsNext, OthersRest, recordsVars
<1> QED BY <1>1, <1>2, PTL DEF RecordsSpec, StoreSpec

LEMMA RecordsSearch == RecordsSpec => SearchSpec
<1>1. RecordsInit => SearchInit
  BY DEF RecordsInit
<1>2. [RecordsNext]_recordsVars => [SearchNext]_searchVars
  BY DEF RecordsNext, OthersRest, recordsVars
<1> QED BY <1>1, <1>2, PTL DEF RecordsSpec, SearchSpec

LEMMA RecordsClassify == RecordsSpec => ClassifySpec
<1>1. RecordsInit => ClassifyInit
  BY DEF RecordsInit
<1>2. [RecordsNext]_recordsVars => [ClassifyNext]_classifyVars
  BY DEF RecordsNext, OthersRest, recordsVars
<1> QED BY <1>1, <1>2, PTL DEF RecordsSpec, ClassifySpec

LEMMA RecordsArch == RecordsSpec => ArchSpec
<1>1. RecordsInit => ArchInit
  BY DEF RecordsInit
<1>2. [RecordsNext]_recordsVars => [ArchNext]_archVars
  BY DEF RecordsNext, OthersRest, recordsVars
<1> QED BY <1>1, <1>2, PTL DEF RecordsSpec, ArchSpec

LEMMA RecordsBudget == RecordsSpec => BudgetSpec
<1>1. RecordsInit => BudgetInit
  BY DEF RecordsInit
<1>2. [RecordsNext]_recordsVars => [BudgetNext]_budgetVars
  BY DEF RecordsNext, OthersRest, recordsVars
<1> QED BY <1>1, <1>2, PTL DEF RecordsSpec, BudgetSpec

LEMMA RecordsNumber == RecordsSpec => NumberSpec
<1>1. RecordsInit => NumberInit
  BY DEF RecordsInit
<1>2. [RecordsNext]_recordsVars => [NumberNext]_numberVars
  BY DEF RecordsNext, OthersRest, recordsVars
<1> QED BY <1>1, <1>2, PTL DEF RecordsSpec, NumberSpec

LEMMA RecordsTeam == RecordsSpec => TeamSpec
<1>1. RecordsInit => TeamInit
  BY DEF RecordsInit
<1>2. [RecordsNext]_recordsVars => [TeamNext]_teamVars
  BY DEF RecordsNext, OthersRest, recordsVars
<1> QED BY <1>1, <1>2, PTL DEF RecordsSpec, TeamSpec

\* RecordsTypeOK: every variable of every component of the running system keeps
\* to its type.
THEOREM RecordsTypeCorrect == RecordsSpec => []RecordsTypeOK
<1>1. RecordsSpec => [](PaymentTypeOK /\ DocumentTypeOK /\ GateTypeOK /\ StoreTypeOK /\ SearchTypeOK)
  BY RecordsPayment, RecordsDocument, RecordsGate, RecordsStore, RecordsSearch,
     PaymentsTypeCorrect, DocumentsTypeCorrect, GatesTypeCorrect, FilesTypeCorrect,
     SearchTypeCorrect, PTL
<1>2. RecordsSpec => [](ClassifyTypeOK /\ ArchTypeOK /\ BudgetTypeOK /\ NumberTypeOK /\ TeamTypeOK)
  BY RecordsClassify, RecordsArch, RecordsBudget, RecordsNumber, RecordsTeam,
     ClassifyTypeCorrect, ArchivesTypeCorrect, BudgetsTypeCorrect, NumbersTypeCorrect,
     TeamsTypeCorrect, PTL
<1>3. /\ PaymentTypeOK /\ DocumentTypeOK /\ GateTypeOK /\ StoreTypeOK /\ SearchTypeOK
      /\ ClassifyTypeOK /\ ArchTypeOK /\ BudgetTypeOK /\ NumberTypeOK /\ TeamTypeOK
      => RecordsTypeOK
  BY DEF RecordsTypeOK
<1> QED BY <1>1, <1>2, <1>3, PTL

\* The totals of payments.py, the gates of phases.py, the budgets, numbers and
\* members of main_projects.py and sub_projects.py, in the running system.
THEOREM RecordsOfProjectsAreSound ==
  RecordsSpec => [](/\ LedgerIsSound /\ CompletedMeetsGate /\ ExcessIsConfirmed
                    /\ NumbersAreSound /\ RecordsOfLeaderAgree)
BY RecordsPayment, RecordsGate, RecordsBudget, RecordsNumber, RecordsTeam,
   TotalsFollowTheLedger, CompletedPhasesMeetTheirGate, ExcessWasConfirmed,
   NumbersMeetOnlyImports, LeadersAreRecorded, PTL

\* The versions of documents.py, the files of file_cleanup.py, the index of
\* search.py, suggestions and archives, in the running system.
THEOREM RecordsOfDocumentsAreSound ==
  RecordsSpec => [](/\ VersionIsFree /\ FilesAreSafe /\ SearchIsExact
                    /\ SuggestionsAreBest /\ InOnePlaceWithItsSubs)
BY RecordsDocument, RecordsStore, RecordsSearch, RecordsClassify, RecordsArch,
   ComputedVersionIsFree, FilesStaySafe, SearchFindsWhatIsThere, TheBestAreSuggested,
   ProjectsAreInOnePlace, PTL

\* What create_payment and the commits of documents.py may change, in the
\* running system.
THEOREM RecordsMoveAsAllowed == RecordsSpec => PaysAsAllowed /\ CurrentVersionMoves
BY RecordsPayment, RecordsDocument, PaymentsAreAllowed, CurrentVersionIsKept, PTL

=============================================================================

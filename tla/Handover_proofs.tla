-------------------------- MODULE Handover_proofs --------------------------
(***************************************************************************)
(* Proofs about Handover, for every set of leaders, sub-projects, requests *)
(* and sessions.                                                           *)
(*                                                                         *)
(* The inductive invariant says what the row locks keep for a session:     *)
(* nobody shares its request or its sub-projects, so what it has read of   *)
(* them is still so when it commits (SessionKeeps).                        *)
(***************************************************************************)
EXTENDS Handover, TLAPS

Answering == {"accepting", "declining", "forcing", "transferring"}
Reviewing == {"reviewing", "approving"}
Moving == {"reviewing", "approving", "forcing", "transferring"}

\* A sub-project is locked by one session.
HeldAlone == \A s, t \in Sessions : s # t => session[s].held \cap session[t].held = {}

\* A request is locked by one session.
RequestAlone ==
  \A s, t \in Sessions :
    s # t /\ session[s].request # NoRequest => session[s].request # session[t].request

\* A session that holds a request has copied it, and finds it where it was.
RequestKeeps(s) ==
  LET q == session[s].request IN
  /\ q # NoRequest <=> session[s].at \in Answering \cup Reviewing
  /\ session[s].at \in Answering => request[q].status = "pending_candidate"
  /\ session[s].at \in Reviewing => request[q].status = "pending_review"
  /\ q # NoRequest => session[s].from = request[q].from /\ session[s].to = request[q].to
  /\ session[s].at \in Moving => session[s].todo \cup session[s].held = request[q].subs

\* The sub-projects a session has locked are still as it found them.
SubsKeep(s) ==
  session[s].at \in Moving \cup {"submitting"} /\ session[s].fit =>
    \A u \in session[s].held : MayHandOver(u, session[s].from)

\* What its position says of a session.
Position(s) ==
  /\ session[s].at \in {"approving", "transferring"} =>
       session[s].todo = {} /\ session[s].fit
  /\ session[s].at = "submitting" =>
       /\ session[s].from \in Users
       /\ session[s].to \in Users \ {session[s].from}
       /\ session[s].todo \cup session[s].held # {}
  /\ session[s].at = "handing" => session[s].to \in Users
  /\ session[s].at = "disabling" => session[s].from \in Users

SessionKeeps(s) == RequestKeeps(s) /\ SubsKeep(s) /\ Position(s)

IInv ==
  /\ TypeOK
  /\ HeldAlone
  /\ RequestAlone
  /\ \A s \in Sessions : SessionKeeps(s)

-----------------------------------------------------------------------------
(* The initial state, and the steps in which one session comes to an end *)

\* The fields of a session at rest.
LEMMA IdleFields ==
  /\ Idle \in SessionRecords
  /\ Idle.at = "idle" /\ Idle.request = NoRequest /\ Idle.from = NoUser
  /\ Idle.to = NoUser /\ Idle.todo = {} /\ Idle.held = {} /\ Idle.fit
BY DEF Idle, SessionRecords

\* A row not filed yet.
LEMMA UnfiledFields ==
  /\ Unfiled \in RequestRows
  /\ Unfiled.status = "unfiled"
BY DEF Unfiled, RequestRows, Statuses

\* Nothing is locked or read at first.
LEMMA IInvInit == Init => IInv
<1> SUFFICES ASSUME Init PROVE IInv
  OBVIOUS
<1>1. TypeOK
  BY IdleFields, UnfiledFields DEF Init, TypeOK, SubRows
<1>2. \A s \in Sessions : session[s] = Idle
  BY DEF Init
<1>3. HeldAlone /\ RequestAlone
  BY <1>2, IdleFields DEF HeldAlone, RequestAlone
<1>4. ASSUME NEW s \in Sessions PROVE SessionKeeps(s)
  BY <1>2, IdleFields
  DEF SessionKeeps, RequestKeeps, SubsKeep, Position, Answering, Reviewing, Moving
<1>. QED
  BY <1>1, <1>3, <1>4 DEF IInv

\* What a step of another session leaves to t: its record, its request and
\* the sub-projects it has locked.
Spared(t) ==
  /\ session'[t] = session[t]
  /\ session[t].request # NoRequest =>
       LET q == session[t].request IN
       /\ request'[q].status = request[q].status
       /\ request'[q].from = request[q].from
       /\ request'[q].to = request[q].to
       /\ request'[q].subs = request[q].subs
  /\ \A u \in session[t].held : sub'[u] = sub[u]

\* A session that is spared keeps what it relies on.
LEMMA SparedKeeps ==
  ASSUME NEW t \in Sessions, SessionKeeps(t), Spared(t)
  PROVE  SessionKeeps(t)'
<1>1. RequestKeeps(t)'
  BY DEF SessionKeeps, RequestKeeps, Spared, Answering, Reviewing, Moving
<1>2. SubsKeep(t)'
  BY DEF SessionKeeps, SubsKeep, Spared, MayHandOver
<1>3. Position(t)'
  BY DEF SessionKeeps, Position, Spared
<1>. QED
  BY <1>1, <1>2, <1>3 DEF SessionKeeps

\* A session that ends gives up its locks and keeps nothing.
LEMMA BackToRest ==
  ASSUME IInv, NEW s \in Sessions, TypeOK',
         session' = [session EXCEPT ![s] = Idle],
         \A t \in Sessions \ {s} : Spared(t)
  PROVE  IInv'
<1>1. session'[s] = Idle /\ \A t \in Sessions \ {s} : session'[t] = session[t]
  BY DEF IInv, TypeOK
<1>2. HeldAlone' /\ RequestAlone'
  BY <1>1, IdleFields DEF IInv, HeldAlone, RequestAlone
<1>3. SessionKeeps(s)'
  BY <1>1, IdleFields
  DEF SessionKeeps, RequestKeeps, SubsKeep, Position, Answering, Reviewing, Moving
<1>4. \A t \in Sessions \ {s} : SessionKeeps(t)'
  BY SparedKeeps DEF IInv
<1>. QED
  BY <1>2, <1>3, <1>4 DEF IInv

-----------------------------------------------------------------------------
(* Types *)

\* A session that ends, whatever it writes: the types of the other variables.
LEMMA RestType ==
  ASSUME TypeOK, NEW s \in Sessions, session' = [session EXCEPT ![s] = Idle]
  PROVE  session' \in [Sessions -> SessionRecords]
BY IdleFields DEF TypeOK

\* The new status of a request changes nothing else about its type.
LEMMA StatusType ==
  ASSUME TypeOK, NEW q \in Requests, request[q] # Unfiled, NEW status \in Statuses,
         request' = [request EXCEPT ![q].status = status, ![q].overdue = FALSE]
  PROVE  /\ request' \in [Requests -> RequestRows]
         /\ \A p \in Requests : request'[p] # Unfiled =>
              /\ request'[p].from \in Users
              /\ request'[p].to \in Users \ {request'[p].from}
              /\ request'[p].subs # {}
         /\ request'[q].status = status
         /\ \A p \in Requests :
              /\ request'[p].from = request[p].from
              /\ request'[p].to = request[p].to
              /\ request'[p].subs = request[p].subs
         /\ \A p \in Requests \ {q} : request'[p] = request[p]
<1>1. request[q] \in RequestRows
  BY DEF TypeOK
<1>. QED
  BY <1>1 DEF TypeOK, RequestRows

-----------------------------------------------------------------------------
(* Steps that change the record of one session *)

\* What such a step has to show.
LEMMA RecordStep ==
  ASSUME IInv, NEW s \in Sessions, NEW record \in SessionRecords,
         session' = [session EXCEPT ![s] = record], UNCHANGED << sub, user, request >>,
         \A t \in Sessions \ {s} :
           /\ session[t].held \cap record.held = {}
           /\ record.request # NoRequest => session[t].request # record.request,
         SessionKeeps(s)'
  PROVE  IInv'
<1>1. session'[s] = record /\ \A t \in Sessions \ {s} : session'[t] = session[t]
  BY DEF IInv, TypeOK
<1>2. TypeOK'
  BY DEF IInv, TypeOK
<1>3. HeldAlone'
  BY <1>1 DEF IInv, HeldAlone
<1>4. RequestAlone'
  BY <1>1 DEF IInv, RequestAlone
<1>5. \A t \in Sessions \ {s} : Spared(t)
  BY <1>1 DEF Spared
<1>6. \A t \in Sessions \ {s} : SessionKeeps(t)'
  BY <1>5, SparedKeeps DEF IInv
<1>. QED
  BY <1>2, <1>3, <1>4, <1>6 DEF IInv

\* A session that begins without a request holds nothing yet.
LEMMA SubmitLoadStep ==
  ASSUME IInv, NEW s \in Sessions, NEW from \in Users, NEW to \in Users,
         NEW subs \in SUBSET Subs,
         SubmitLoad(s, from, to, subs)
  PROVE  IInv'
<1> DEFINE record == [Idle EXCEPT !.at = "submitting", !.from = from, !.to = to, !.todo = subs]
<1>1. session' = [session EXCEPT ![s] = record] /\ UNCHANGED << sub, user, request >>
  BY DEF SubmitLoad
<1>2. /\ record \in SessionRecords
      /\ record.at = "submitting" /\ record.request = NoRequest
      /\ record.from = from /\ record.to = to /\ record.todo = subs /\ record.held = {}
  BY DEF Idle, SessionRecords
<1>3. session'[s] = record
  BY <1>1 DEF IInv, TypeOK
<1>4. from # to /\ subs # {}
  BY DEF SubmitLoad, Candidate
<1> HIDE DEF record
<1>5. SessionKeeps(s)'
  BY <1>2, <1>3, <1>4
  DEF SessionKeeps, RequestKeeps, SubsKeep, Position, Answering, Reviewing, Moving
<1>. QED
  BY <1>1, <1>2, <1>5, RecordStep

\* The same for a direct handover, which never locks anything.
LEMMA DirectLoadStep ==
  ASSUME IInv, NEW s \in Sessions, NEW u \in Subs, NEW to \in Users,
         DirectLoad(s, u, to)
  PROVE  IInv'
<1> DEFINE record == [Idle EXCEPT !.at = "handing", !.to = to, !.todo = {u}]
<1>1. session' = [session EXCEPT ![s] = record] /\ UNCHANGED << sub, user, request >>
  BY DEF DirectLoad
<1>2. /\ record \in SessionRecords
      /\ record.at = "handing" /\ record.request = NoRequest
      /\ record.to = to /\ record.held = {}
  BY DEF Idle, SessionRecords
<1>3. session'[s] = record
  BY <1>1 DEF IInv, TypeOK
<1> HIDE DEF record
<1>4. SessionKeeps(s)'
  BY <1>2, <1>3
  DEF SessionKeeps, RequestKeeps, SubsKeep, Position, Answering, Reviewing, Moving
<1>. QED
  BY <1>1, <1>2, <1>4, RecordStep

\* The same for disabling a leader.
LEMMA DisableLoadStep ==
  ASSUME IInv, NEW s \in Sessions, NEW from \in Users,
         DisableLoad(s, from)
  PROVE  IInv'
<1> DEFINE record == [Idle EXCEPT !.at = "disabling", !.from = from]
<1>1. session' = [session EXCEPT ![s] = record] /\ UNCHANGED << sub, user, request >>
  BY DEF DisableLoad
<1>2. /\ record \in SessionRecords
      /\ record.at = "disabling" /\ record.request = NoRequest
      /\ record.from = from /\ record.held = {}
  BY DEF Idle, SessionRecords
<1>3. session'[s] = record
  BY <1>1 DEF IInv, TypeOK
<1> HIDE DEF record
<1>4. SessionKeeps(s)'
  BY <1>2, <1>3
  DEF SessionKeeps, RequestKeeps, SubsKeep, Position, Answering, Reviewing, Moving
<1>. QED
  BY <1>1, <1>2, <1>4, RecordStep

\* A session that takes a request in the status its position asks for.
LEMMA TakeStep ==
  ASSUME IInv, NEW s \in Sessions, NEW q \in Requests,
         NEW at \in (Answering \cup Reviewing) \ {"approving", "transferring"},
         NEW status, NEW subs \in SUBSET Subs,
         Take(s, q, status, at, subs),
         at \in Answering => status = "pending_candidate",
         at \in Reviewing => status = "pending_review",
         at \in Moving => subs = request[q].subs
  PROVE  IInv'
<1> DEFINE record == [Idle EXCEPT !.at = at, !.request = q, !.from = request[q].from,
                                  !.to = request[q].to, !.todo = subs]
<1>1. session' = [session EXCEPT ![s] = record] /\ UNCHANGED << sub, user, request >>
  BY DEF Take
<1>2. request[q] \in RequestRows
  BY DEF IInv, TypeOK
<1>3. /\ record \in SessionRecords
      /\ record.at = at /\ record.request = q /\ record.from = request[q].from
      /\ record.to = request[q].to /\ record.todo = subs /\ record.held = {}
  BY <1>2 DEF Idle, SessionRecords, RequestRows, Answering, Reviewing
<1>4. session'[s] = record
  BY <1>1 DEF IInv, TypeOK
<1>5. request[q].status = status /\ \A t \in Sessions \ {s} : session[t].request # q
  BY DEF Take, RequestRowFree
<1> HIDE DEF record
<1>6. RequestKeeps(s)'
  BY <1>1, <1>3, <1>4, <1>5, HandoverAssumption
  DEF RequestKeeps, Answering, Reviewing, Moving
<1>7. SubsKeep(s)' /\ Position(s)'
  BY <1>3, <1>4 DEF SubsKeep, Position, Answering, Reviewing, Moving
<1>. QED
  BY <1>1, <1>3, <1>5, <1>6, <1>7, RecordStep DEF SessionKeeps

\* The candidate's answer, the review and the administrator's force.
LEMMA TakeSteps ==
  ASSUME IInv, NEW s \in Sessions, NEW q \in Requests,
         Accept(s, q) \/ Decline(s, q) \/ Review(s, q) \/ ForceLoad(s, q)
  PROVE  IInv'
<1>1. request[q].subs \in SUBSET Subs
  BY DEF IInv, TypeOK, RequestRows
<1>2. CASE Accept(s, q)
  BY <1>1, <1>2, TakeStep DEF Accept, Answer, Answering, Reviewing, Moving
<1>3. CASE Decline(s, q)
  BY <1>3, TakeStep DEF Decline, Answer, Answering, Reviewing, Moving
<1>4. CASE Review(s, q)
  BY <1>1, <1>4, TakeStep DEF Review, Answering, Reviewing, Moving
<1>5. CASE ForceLoad(s, q)
  BY <1>1, <1>5, TakeStep DEF ForceLoad, Answering, Reviewing, Moving
<1>. QED
  BY <1>2, <1>3, <1>4, <1>5

\* A session that locks one more sub-project.
LEMMA LockSubStep ==
  ASSUME IInv, NEW s \in Sessions, NEW u \in Subs, LockSub(s, u)
  PROVE  IInv'
<1> DEFINE record == [session[s] EXCEPT !.todo = @ \ {u}, !.held = @ \cup {u},
                                        !.fit = @ /\ MayHandOver(u, session[s].from)]
<1>1. session' = [session EXCEPT ![s] = record] /\ UNCHANGED << sub, user, request >>
  BY DEF LockSub
<1>2. session[s] \in SessionRecords
  BY DEF IInv, TypeOK
<1>3. /\ record \in SessionRecords
      /\ record.at = session[s].at /\ record.request = session[s].request
      /\ record.from = session[s].from /\ record.to = session[s].to
      /\ record.todo = session[s].todo \ {u} /\ record.held = session[s].held \cup {u}
      /\ record.fit = (session[s].fit /\ MayHandOver(u, session[s].from))
  BY <1>2 DEF SessionRecords, MayHandOver
<1>4. session'[s] = record
  BY <1>1 DEF IInv, TypeOK
<1>5. u \in session[s].todo /\ \A t \in Sessions \ {s} : u \notin session[t].held
  BY DEF LockSub, SubRowFree
<1>6. SessionKeeps(s)
  BY DEF IInv
<1> HIDE DEF record
<1>7. record.todo \cup record.held = session[s].todo \cup session[s].held
  BY <1>3, <1>5
<1>8. RequestKeeps(s)'
  BY <1>1, <1>3, <1>4, <1>6, <1>7 DEF SessionKeeps, RequestKeeps
<1>9. SubsKeep(s)'
  BY <1>1, <1>3, <1>4, <1>6 DEF SessionKeeps, SubsKeep, MayHandOver
<1>10. Position(s)'
  BY <1>3, <1>4, <1>5, <1>6, <1>7 DEF SessionKeeps, Position
<1>11. \A t \in Sessions \ {s} :
         /\ session[t].held \cap record.held = {}
         /\ record.request # NoRequest => session[t].request # record.request
  BY <1>3, <1>5 DEF IInv, HeldAlone, RequestAlone
<1>. QED
  BY <1>1, <1>3, <1>8, <1>9, <1>10, <1>11, RecordStep DEF SessionKeeps

\* A session whose checks have passed.
LEMMA ApplyTransferStep ==
  ASSUME IInv, NEW s \in Sessions, Approve(s) \/ ForceTransfer(s)
  PROVE  IInv'
<1> DEFINE next == IF session[s].at = "reviewing" THEN "approving" ELSE "transferring"
<1> DEFINE record == [session[s] EXCEPT !.at = next]
<1>1. /\ session' = [session EXCEPT ![s] = record] /\ UNCHANGED << sub, user, request >>
      /\ \/ session[s].at = "reviewing" /\ next = "approving"
         \/ session[s].at = "forcing" /\ next = "transferring"
      /\ session[s].todo = {} /\ session[s].fit
  BY DEF Approve, ForceTransfer, ApplyTransfer
<1>2. session[s] \in SessionRecords
  BY DEF IInv, TypeOK
<1>3. /\ record \in SessionRecords
      /\ record.at = next /\ record.request = session[s].request
      /\ record.from = session[s].from /\ record.to = session[s].to
      /\ record.todo = session[s].todo /\ record.held = session[s].held
      /\ record.fit = session[s].fit
  BY <1>2 DEF SessionRecords
<1>4. session'[s] = record
  BY <1>1 DEF IInv, TypeOK
<1>5. SessionKeeps(s)
  BY DEF IInv
<1> HIDE DEF record, next
<1>6. RequestKeeps(s)'
  BY <1>1, <1>3, <1>4, <1>5 DEF SessionKeeps, RequestKeeps, Answering, Reviewing, Moving
<1>7. SubsKeep(s)'
  BY <1>1, <1>3, <1>4, <1>5 DEF SessionKeeps, SubsKeep, MayHandOver, Moving
<1>8. Position(s)'
  BY <1>1, <1>3, <1>4 DEF Position
<1>9. \A t \in Sessions \ {s} :
        /\ session[t].held \cap record.held = {}
        /\ record.request # NoRequest => session[t].request # record.request
  BY <1>3 DEF IInv, HeldAlone, RequestAlone
<1>. QED
  BY <1>1, <1>3, <1>6, <1>7, <1>8, <1>9, RecordStep DEF SessionKeeps

-----------------------------------------------------------------------------
(* Steps that write rows *)

\* A session that leaves the managers alone as it ends.
LEMMA EndStep ==
  ASSUME IInv, NEW s \in Sessions, Rollback(s) \/ DisableCommit(s)
  PROVE  IInv'
<1>1. session' = [session EXCEPT ![s] = Idle] /\ UNCHANGED << sub, request >>
  BY DEF Rollback, DisableCommit
<1>2. user' \in [Users -> {"active", "disabled"}]
  BY DEF IInv, TypeOK, Rollback, DisableCommit
<1>3. TypeOK'
  BY <1>1, <1>2, RestType DEF IInv, TypeOK
<1>4. \A t \in Sessions \ {s} : Spared(t)
  BY <1>1 DEF Spared, IInv, TypeOK
<1>. QED
  BY <1>1, <1>3, <1>4, BackToRest

\* A new row, to which no session can refer.
LEMMA SubmitCommitStep ==
  ASSUME IInv, NEW s \in Sessions, NEW q \in Requests, SubmitCommit(s, q)
  PROVE  IInv'
<1> DEFINE row == [status |-> "pending_candidate", from |-> session[s].from,
                   to |-> session[s].to, subs |-> session[s].held, overdue |-> FALSE]
<1>1. /\ session' = [session EXCEPT ![s] = Idle] /\ UNCHANGED << sub, user >>
      /\ request' = [request EXCEPT ![q] = row]
      /\ session[s].at = "submitting" /\ session[s].todo = {}
      /\ request[q].status = "unfiled"
  BY UnfiledFields DEF SubmitCommit
<1>2. session[s] \in SessionRecords /\ Position(s)
  BY DEF IInv, TypeOK, SessionKeeps
<1>3. /\ row \in RequestRows
      /\ row.from \in Users /\ row.to \in Users \ {row.from} /\ row.subs # {}
  BY <1>1, <1>2 DEF SessionRecords, RequestRows, Position, Statuses
<1> HIDE DEF row
<1>4. TypeOK'
  BY <1>1, <1>3, RestType DEF IInv, TypeOK
<1>5. ASSUME NEW t \in Sessions \ {s} PROVE Spared(t)
  <2>1. session[t].request # q
    BY <1>1, HandoverAssumption DEF IInv, SessionKeeps, RequestKeeps
  <2>. QED
    BY <1>1, <2>1 DEF Spared, IInv, TypeOK, SessionRecords
<1>. QED
  BY <1>1, <1>4, <1>5, BackToRest

\* The request that a session holds is a filed one, and nobody else's.
LEMMA HeldRequest ==
  ASSUME IInv, NEW s \in Sessions, session[s].at \in Answering \cup Reviewing
  PROVE  /\ session[s].request \in Requests
         /\ request[session[s].request] # Unfiled
         /\ session[s].from \in Users /\ session[s].to \in Users
         /\ \A t \in Sessions \ {s} : session[t].request # session[s].request
<1>1. session[s].request # NoRequest /\ session[s] \in SessionRecords /\ RequestKeeps(s)
  BY DEF IInv, TypeOK, SessionKeeps, RequestKeeps
<1>2. session[s].request \in Requests
  BY <1>1 DEF SessionRecords
<1>3. request[session[s].request] # Unfiled
  BY <1>1, UnfiledFields DEF RequestKeeps
<1>. QED
  BY <1>1, <1>2, <1>3 DEF RequestKeeps, IInv, TypeOK, RequestAlone

\* A session that sets the status of its request, and transfers what it has
\* locked or nothing.
LEMMA StatusStep ==
  ASSUME IInv, NEW s \in Sessions, session[s].at \in Answering \cup Reviewing,
         NEW status \in Statuses,
         session' = [session EXCEPT ![s] = Idle], UNCHANGED user,
         request' = [request EXCEPT ![session[s].request].status = status,
                                    ![session[s].request].overdue = FALSE],
         sub' \in [Subs -> SubRows],
         \A u \in Subs : u \notin session[s].held => sub'[u] = sub[u]
  PROVE  IInv'
<1>1. /\ session[s].request \in Requests
      /\ request[session[s].request] # Unfiled
      /\ \A t \in Sessions \ {s} : session[t].request # session[s].request
  BY HeldRequest
<1>2. /\ request' \in [Requests -> RequestRows]
      /\ \A p \in Requests : request'[p] # Unfiled =>
           /\ request'[p].from \in Users
           /\ request'[p].to \in Users \ {request'[p].from}
           /\ request'[p].subs # {}
      /\ \A p \in Requests \ {session[s].request} : request'[p] = request[p]
  BY <1>1, StatusType DEF IInv
<1>3. TypeOK'
  BY <1>2, RestType DEF IInv, TypeOK
<1>4. ASSUME NEW t \in Sessions \ {s} PROVE Spared(t)
  <2>1. session'[t] = session[t]
    BY DEF IInv, TypeOK
  <2>2. session[t].request # NoRequest => session[t].request \in Requests \ {session[s].request}
    BY <1>1 DEF IInv, TypeOK, SessionRecords
  <2>3. \A u \in session[t].held : u \in Subs /\ u \notin session[s].held
    BY DEF IInv, TypeOK, SessionRecords, HeldAlone
  <2>. QED
    BY <1>2, <2>1, <2>2, <2>3 DEF Spared
<1>. QED
  BY <1>3, <1>4, BackToRest

\* The candidate's answers and a rejection.
LEMMA DecideSteps ==
  ASSUME IInv, NEW s \in Sessions, AcceptCommit(s) \/ DeclineCommit(s) \/ RejectCommit(s)
  PROVE  IInv'
BY StatusStep
DEF AcceptCommit, DeclineCommit, RejectCommit, Decide, Answering, Reviewing, Statuses,
    IInv, TypeOK

\* The commits of _apply_transfer.
LEMMA TransferSteps ==
  ASSUME IInv, NEW s \in Sessions, ApproveCommit(s) \/ ForceCommit(s)
  PROVE  IInv'
<1>1. session[s].at \in Answering \cup Reviewing
  BY DEF ApproveCommit, ForceCommit, Transfer, Answering, Reviewing
<1>2. session[s].to \in Users
  BY <1>1, HeldRequest
<1>3. \A u \in Subs : [sub[u] EXCEPT !.manager = session[s].to] \in SubRows
  BY <1>2 DEF IInv, TypeOK, SubRows
<1>4. /\ sub' \in [Subs -> SubRows]
      /\ \A u \in Subs : u \notin session[s].held => sub'[u] = sub[u]
  BY <1>3 DEF ApproveCommit, ForceCommit, Transfer, IInv, TypeOK
<1>. QED
  BY <1>1, <1>4, StatusStep DEF ApproveCommit, ForceCommit, Transfer, Statuses

\* A direct handover writes a row that nobody has locked.
LEMMA DirectCommitStep ==
  ASSUME IInv, NEW s \in Sessions, NEW u \in Subs, DirectCommit(s, u)
  PROVE  IInv'
<1>1. /\ session' = [session EXCEPT ![s] = Idle] /\ UNCHANGED << user, request >>
      /\ sub' = [sub EXCEPT ![u].manager = session[s].to]
      /\ \A t \in Sessions \ {s} : u \notin session[t].held
  BY DEF DirectCommit, SubRowFree
<1>2. session[s].to \in Users
  BY DEF DirectCommit, IInv, SessionKeeps, Position
<1>3. sub' \in [Subs -> SubRows]
  BY <1>1, <1>2 DEF IInv, TypeOK, SubRows
<1>4. TypeOK'
  BY <1>1, <1>3, RestType DEF IInv, TypeOK
<1>5. ASSUME NEW t \in Sessions \ {s} PROVE Spared(t)
  BY <1>1 DEF Spared, IInv, TypeOK, SessionRecords
<1>. QED
  BY <1>1, <1>4, <1>5, BackToRest

\* Steps of no session: time, the status of a sub-project, a new password.
LEMMA OutsideSteps ==
  ASSUME IInv,
         \/ \E q \in Requests : BecomeOverdue(q)
         \/ \E u \in Subs : ChangeStatus(u)
         \/ \E l \in Users : Reinstate(l)
  PROVE  IInv'
<1>1. session' = session
  BY DEF BecomeOverdue, ChangeStatus, Reinstate
<1>2. HeldAlone' /\ RequestAlone'
  BY <1>1 DEF IInv, HeldAlone, RequestAlone
<1>3. TypeOK' /\ \A t \in Sessions : Spared(t)
  <2>1. CASE \E q \in Requests : BecomeOverdue(q)
    <3>1. PICK q \in Requests : BecomeOverdue(q)
      BY <2>1
    <3>2. /\ request[q] \in RequestRows /\ request[q] # Unfiled
          /\ request' = [request EXCEPT ![q] = [request[q] EXCEPT !.overdue = TRUE]]
      BY <3>1, UnfiledFields DEF BecomeOverdue, IInv, TypeOK
    <3>3. /\ request' \in [Requests -> RequestRows]
          /\ \A p \in Requests :
               /\ request'[p].status = request[p].status
               /\ request'[p].from = request[p].from
               /\ request'[p].to = request[p].to
               /\ request'[p].subs = request[p].subs
          /\ \A p \in Requests : request'[p] # Unfiled => request[p] # Unfiled
      BY <3>2 DEF IInv, TypeOK, RequestRows
    <3>4. UNCHANGED << sub, user, session >>
      BY <3>1 DEF BecomeOverdue
    <3>5. TypeOK'
      BY <3>3, <3>4 DEF IInv, TypeOK
    <3>6. ASSUME NEW t \in Sessions PROVE Spared(t)
      BY <3>3, <3>4 DEF Spared, IInv, TypeOK, SessionRecords
    <3>. QED
      BY <3>5, <3>6
  <2>2. CASE \E u \in Subs : ChangeStatus(u)
    <3>1. PICK u \in Subs : ChangeStatus(u)
      BY <2>2
    <3>2. sub' \in [Subs -> SubRows] /\ \A v \in Subs \ {u} : sub'[v] = sub[v]
      BY <3>1 DEF ChangeStatus, IInv, TypeOK, SubRows
    <3>3. UNCHANGED << user, request, session >> /\ \A t \in Sessions : u \notin session[t].held
      BY <3>1 DEF ChangeStatus
    <3>4. TypeOK'
      BY <3>2, <3>3 DEF IInv, TypeOK
    <3>5. ASSUME NEW t \in Sessions PROVE Spared(t)
      BY <3>2, <3>3 DEF Spared, IInv, TypeOK, SessionRecords
    <3>. QED
      BY <3>4, <3>5
  <2>3. CASE \E l \in Users : Reinstate(l)
    BY <2>3 DEF Reinstate, IInv, TypeOK, Spared
  <2>. QED
    BY <2>1, <2>2, <2>3
<1>4. \A t \in Sessions : SessionKeeps(t)'
  BY <1>3, SparedKeeps DEF IInv
<1>. QED
  BY <1>2, <1>3, <1>4 DEF IInv

\* Every step keeps the invariant.
LEMMA IInvStep == IInv /\ [Next]_vars => IInv'
<1> SUFFICES ASSUME IInv, [Next]_vars PROVE IInv'
  OBVIOUS
<1>1. CASE UNCHANGED vars
  BY SMTT(30), <1>1
  DEF vars, IInv, TypeOK, HeldAlone, RequestAlone, SessionKeeps, RequestKeeps, SubsKeep,
      Position, MayHandOver
<1>2. ASSUME NEW s \in Sessions, Step(s) PROVE IInv'
  BY <1>2, SubmitLoadStep, DirectLoadStep, DisableLoadStep, LockSubStep, DirectCommitStep,
     SubmitCommitStep, TakeSteps, DecideSteps, ApplyTransferStep, TransferSteps, EndStep
  DEF Step
<1>3. CASE \/ \E q \in Requests : BecomeOverdue(q)
           \/ \E u \in Subs : ChangeStatus(u)
           \/ \E l \in Users : Reinstate(l)
  BY <1>3, OutsideSteps
<1>. QED
  BY <1>1, <1>2, <1>3 DEF Next

\* The locks keep, for every session, what it has read under them.
THEOREM Inductive == Spec => []IInv
BY IInvInit, IInvStep, PTL DEF Spec

\* Types: rows, sessions and the leaders that requests name.
THEOREM TypeCorrect == Spec => []TypeOK
<1>1. IInv => TypeOK
  BY SMTT(30) DEF IInv
<1>. QED
  BY Inductive, <1>1, PTL

-----------------------------------------------------------------------------
(* Requests *)

\* Only commits of sessions change the status of a request.
LEMMA StatusWrites ==
  ASSUME IInv, Next, NEW q \in Requests, request'[q].status # request[q].status
  PROVE  \E s \in Sessions :
           \/ SubmitCommit(s, q)
           \/ /\ session[s].request = q
              /\ \/ AcceptCommit(s) \/ DeclineCommit(s) \/ RejectCommit(s)
                 \/ ApproveCommit(s) \/ ForceCommit(s)
<1>1. ASSUME NEW p \in Requests, BecomeOverdue(p) PROVE FALSE
  BY <1>1 DEF BecomeOverdue, IInv, TypeOK, RequestRows
<1>2. request' # request
  OBVIOUS
<1>3. PICK s \in Sessions : Step(s)
  BY <1>1, <1>2 DEF Next, ChangeStatus, Reinstate
<1>4. ASSUME NEW p \in Requests, SubmitCommit(s, p) PROVE p = q
  BY <1>4 DEF SubmitCommit, IInv, TypeOK
<1>5. ASSUME AcceptCommit(s) \/ DeclineCommit(s) \/ RejectCommit(s)
             \/ ApproveCommit(s) \/ ForceCommit(s)
      PROVE  session[s].request = q
  BY <1>5 DEF AcceptCommit, DeclineCommit, RejectCommit, Decide, ApproveCommit, ForceCommit,
              Transfer, IInv, TypeOK
<1>. QED
  BY <1>2, <1>3, <1>4, <1>5
  DEF Step, SubmitLoad, LockSub, DirectLoad, DirectCommit, Accept, Decline, Answer, Review,
      ForceLoad, Take, Approve, ForceTransfer, ApplyTransfer, DisableLoad, DisableCommit, Rollback

\* A transfer is whole, whatever runs beside it.
THEOREM TransfersWhole == Spec => TransfersAreWhole
<1>1. ASSUME IInv, Next, NEW q \in Requests,
             request[q].status \notin Transferred, request'[q].status \in Transferred,
             NEW u \in request[q].subs
      PROVE  sub[u].active /\ sub[u].manager = request[q].from /\ sub'[u].manager = request[q].to
  <2>1. PICK s \in Sessions :
          \/ SubmitCommit(s, q)
          \/ /\ session[s].request = q
             /\ \/ AcceptCommit(s) \/ DeclineCommit(s) \/ RejectCommit(s)
                \/ ApproveCommit(s) \/ ForceCommit(s)
    BY <1>1, StatusWrites
  <2>2. request[q] \in RequestRows /\ u \in Subs
    BY <1>1 DEF IInv, TypeOK, RequestRows
  <2>3. session[s].request = q /\ (ApproveCommit(s) \/ ForceCommit(s))
    <3>1. ~ SubmitCommit(s, q)
      BY <1>1 DEF SubmitCommit, Transferred, IInv, TypeOK
    <3>2. ~ (AcceptCommit(s) \/ DeclineCommit(s) \/ RejectCommit(s))
      BY <1>1, <2>1, <2>2, <3>1
      DEF AcceptCommit, DeclineCommit, RejectCommit, Decide, Transferred, IInv, TypeOK, RequestRows
    <3>. QED
      BY <2>1, <3>1, <3>2
  <2>4. SessionKeeps(s) /\ session[s].at \in {"approving", "transferring"}
    BY <1>1, <2>3 DEF IInv, ApproveCommit, ForceCommit, Transfer
  <2>5. /\ q # NoRequest /\ session[s].from = request[q].from /\ session[s].to = request[q].to
        /\ u \in session[s].held /\ session[s].fit
    BY <2>3, <2>4
    DEF SessionKeeps, RequestKeeps, Position, Answering, Reviewing, Moving
  <2>6. MayHandOver(u, request[q].from)
    BY <2>4, <2>5 DEF SessionKeeps, SubsKeep, Moving
  <2>7. sub'[u].manager = session[s].to
    BY <1>1, <2>2, <2>3, <2>5 DEF ApproveCommit, ForceCommit, Transfer, IInv, TypeOK, SubRows
  <2>. QED
    BY <2>5, <2>6, <2>7 DEF MayHandOver
<1>2. IInv /\ [Next]_vars =>
        [\A q \in Requests :
           request[q].status \notin Transferred /\ request'[q].status \in Transferred =>
             \A u \in request[q].subs :
               /\ sub[u].active
               /\ sub[u].manager = request[q].from
               /\ sub'[u].manager = request[q].to]_vars
  BY <1>1
<1>. QED
  BY Inductive, <1>2, PTL DEF Spec, TransfersAreWhole

\* A request is decided once, by the stage it has reached.
THEOREM RequestsDecidedOnce == Spec => DecidedOnce
<1> DEFINE Decisions == {<< "unfiled", "pending_candidate" >>,
                         << "pending_candidate", "candidate_rejected" >>,
                         << "pending_candidate", "pending_review" >>,
                         << "pending_candidate", "forced" >>,
                         << "pending_review", "review_rejected" >>,
                         << "pending_review", "approved" >>}
<1>1. ASSUME IInv, Next, NEW q \in Requests, request'[q].status # request[q].status
      PROVE  << request[q].status, request'[q].status >> \in Decisions
  <2>1. PICK s \in Sessions :
          \/ SubmitCommit(s, q)
          \/ /\ session[s].request = q
             /\ \/ AcceptCommit(s) \/ DeclineCommit(s) \/ RejectCommit(s)
                \/ ApproveCommit(s) \/ ForceCommit(s)
    BY <1>1, StatusWrites
  <2>2. request[q] \in RequestRows /\ RequestKeeps(s) /\ request \in [Requests -> RequestRows]
    BY <1>1 DEF IInv, TypeOK, SessionKeeps
  <2>3. CASE SubmitCommit(s, q)
    BY <2>2, <2>3, UnfiledFields DEF SubmitCommit
  <2>4. CASE session[s].request = q /\ (AcceptCommit(s) \/ DeclineCommit(s) \/ RejectCommit(s))
    BY <2>2, <2>4
    DEF AcceptCommit, DeclineCommit, RejectCommit, Decide, RequestKeeps, RequestRows,
        Answering, Reviewing
  <2>5. CASE session[s].request = q /\ (ApproveCommit(s) \/ ForceCommit(s))
    BY <2>2, <2>5
    DEF ApproveCommit, ForceCommit, Transfer, RequestKeeps, RequestRows, Answering, Reviewing
  <2>. QED
    BY <2>1, <2>3, <2>4, <2>5
<1>2. IInv /\ [Next]_vars =>
        [\A q \in Requests : request'[q].status # request[q].status =>
           << request[q].status, request'[q].status >> \in Decisions]_vars
  BY <1>1
<1>. QED
  BY Inductive, <1>2, PTL DEF Spec, DecidedOnce

=============================================================================

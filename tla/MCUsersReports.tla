--------------------------- MODULE MCUsersReports ---------------------------
(***************************************************************************)
(* Users, what they are told and what they are shown: notifications and    *)
(* their deliveries, accounts, OAuth bindings, permissions, API keys,      *)
(* departments, scheduled reports, report tables and queries, dashboards   *)
(* and benchmarks.  As in MCProjectRecords the instances are checked side  *)
(* by side: each behaviour is one of the component in focus, the others    *)
(* rest in one of their initial states.                                    *)
(***************************************************************************)
EXTENDS Notifications, NotificationDeliveries, Accounts, OAuthBindings, RolePermissions,
        ApiKeys, Departments, ScheduledReports, ReportTables, ReportQueries, Dashboards,
        ProjectInsight, TLC

CONSTANTS Parts, s1, s2

VARIABLE focus    \* the component whose behaviour this is

TwoSessions == {s1, s2}

\* The default, with mail switched on and the digest chosen; two choices
\* without the in-app channel.
TwoDefaults == {_default_preference, [in_app |-> TRUE, outside |-> TRUE, mode |-> "daily_digest"]}
TwoChoices == {[in_app |-> FALSE, outside |-> TRUE, mode |-> "real_time"],
               [in_app |-> FALSE, outside |-> FALSE, mode |-> "real_time"]}

\* Days of two ticks, and a month too short for the third day.
ThreeSchedules == {[frequency |-> "daily", time |-> 0, day |-> 1],
                   [frequency |-> "monthly", time |-> 0, day |-> 3],
                   [frequency |-> "weekly", time |-> 0, day |-> 2]}
ThreeMonths == <<3, 2, 31>>

TwoMains == {[id |-> "m1", dept |-> "d1", month |-> 1, total_budget |-> 5],
             [id |-> "m2", dept |-> "d2", month |-> 2, total_budget |-> 3]}
TwoWorks == {[id |-> "w1", main |-> "m1"], [id |-> "w2", main |-> "m2"]}
NoSubColumns == [id |-> "", main |-> ""]
PaymentAndReversal == {2, -2}

MainsAsked == {[id |-> "m1", dept |-> "d1", total_budget |-> 3],
               [id |-> "m2", dept |-> "d1", total_budget |-> 5]}
SubsAsked == {[id |-> "w1", main |-> "m1"], [id |-> "w2", main |-> "m1"],
              [id |-> "w3", main |-> "m2"]}
LeaderAndAdmin == {[id |-> "l1", role |-> "proj_leader"], [id |-> "a", role |-> "admin"]}

LeaderAndMember == {[id |-> "l1", role |-> "proj_leader"], [id |-> "p", role |-> "proj_member"]}

\* Peers of the same and of other types and departments, one of them hidden.
Peer(dept, kind, visible, cycle, stay) ==
  [dept |-> dept, kind |-> kind, visible |-> visible, cycle |-> cycle, stay |-> stay]
FivePeers == {Peer("d1", "k1", TRUE, 2, 1), Peer("d1", "k1", TRUE, 6, NoStay),
              Peer("d1", "k2", TRUE, 9, 3),
              Peer("d1", "k1", FALSE, 20, 0), Peer("d2", "k1", TRUE, 20, 0)}

-----------------------------------------------------------------------------

usersVars == <<focus, notifyVars, deliveryVars, accountVars, oauthVars, permissionVars,
               keyVars, deptVars, reportVars, tableVars, queryVars, dashVars, insightVars>>

\* The components with several initial states rest in the same one.
UsersInit ==
  /\ focus \in Parts
  /\ DeliveryInit /\ AccountInit /\ PermissionInit /\ KeyInit /\ DeptInit
  /\ ReportInit /\ TableInit
  /\ NotifyInit
  /\ focus # "notifications" => \A r \in Receivers : preference[r] = _default_preference
  /\ OAuthInit
  /\ focus # "oauth" => \A u \in OAuthUsers : binding[u] = Nobody
  /\ QueryInit
  /\ focus # "queries" => /\ \A m \in AskedMains : typeOf[m.id] = Null
                          /\ \A w \in AskedSubs : ownerOf[w.id] = "l1"
  /\ DashInit
  /\ focus # "dashboards" => \A w \in DashSubs : managed[w] = "l1"
  /\ InsightInit
  /\ focus # "insight" => facts.kind = "none"

\* All components but the one in focus rest.
OthersRest ==
  /\ UNCHANGED focus
  /\ focus # "notifications" => UNCHANGED notifyVars
  /\ focus # "deliveries" => UNCHANGED deliveryVars
  /\ focus # "accounts" => UNCHANGED accountVars
  /\ focus # "oauth" => UNCHANGED oauthVars
  /\ focus # "permissions" => UNCHANGED permissionVars
  /\ focus # "keys" => UNCHANGED keyVars
  /\ focus # "departments" => UNCHANGED deptVars
  /\ focus # "schedules" => UNCHANGED reportVars
  /\ focus # "tables" => UNCHANGED tableVars
  /\ focus # "queries" => UNCHANGED queryVars
  /\ focus # "dashboards" => UNCHANGED dashVars
  /\ focus # "insight" => UNCHANGED insightVars

UsersNext ==
  \/ focus = "notifications" /\ NotifyNext /\ OthersRest
  \/ focus = "deliveries" /\ DeliveryNext /\ OthersRest
  \/ focus = "accounts" /\ AccountNext /\ OthersRest
  \/ focus = "oauth" /\ OAuthNext /\ OthersRest
  \/ focus = "permissions" /\ PermissionNext /\ OthersRest
  \/ focus = "keys" /\ KeyNext /\ OthersRest
  \/ focus = "departments" /\ DeptNext /\ OthersRest
  \/ focus = "schedules" /\ ReportNext /\ OthersRest
  \/ focus = "tables" /\ TableNext /\ OthersRest
  \/ focus = "queries" /\ QueryNext /\ OthersRest
  \/ focus = "dashboards" /\ DashNext /\ OthersRest
  \/ focus = "insight" /\ InsightNext /\ OthersRest

UsersSpec == UsersInit /\ [][UsersNext]_usersVars

\* The account is followed up to the death of a process that leaves a counter
\* without an expiry: it then stays locked.
UntilOrphaned == ~orphaned

\* Sessions and workers are interchangeable.
Symmetry == Permutations(TwoSessions)

\* Every variable of every component keeps to its type.
UsersTypeOK ==
  /\ focus = "notifications" => NotifyTypeOK
  /\ focus = "deliveries" => DeliveryTypeOK
  /\ focus = "accounts" => AccountTypeOK
  /\ focus = "oauth" => OAuthTypeOK
  /\ focus = "permissions" => PermissionTypeOK
  /\ focus = "keys" => KeyTypeOK
  /\ focus = "departments" => DeptTypeOK
  /\ focus = "schedules" => ReportTypeOK
  /\ focus = "tables" => TableTypeOK
  /\ focus = "queries" => QueryTypeOK
  /\ focus = "dashboards" => DashTypeOK
  /\ focus = "insight" => InsightTypeOK

\* Notifications: nothing is marked as digested that no digest lists, nothing
\* is sent outside twice, and no delivery is given up before its attempts
\* were made and the administrators told.
NotifiedAsPromised == DigestedIsListed /\ SentOutsideOnce /\ DeadLetterIsEarned

\* What administrators set is what holds: a role has the permissions of the
\* last request, a revoked or expired key lets no call in, and no user who
\* can log in loses the department to a deletion that had counted them.
AdministrationHolds == EffectiveIsLastRequest /\ NotUsedWhenDead /\ StrandedJoinedLate

\* Reports agree with each other: the tables of a snapshot, and the queries
\* of one user.
ReportsAgree ==
  /\ focus = "tables" => TablesAgree
  /\ focus = "queries" => ReportsOfUserAgree

=============================================================================

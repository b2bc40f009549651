------------------------- MODULE Documents_proofs -------------------------
(***************************************************************************)
(* Document versions, stored files and the search index, for every set of  *)
(* documents, types, files, jobs and requests.                             *)
(*                                                                         *)
(* Versions: the version an upload or a reclassification computes is free. *)
(* The argument is about two locks.  The advisory lock on a type keeps     *)
(* everyone else from bringing a document into it, so that what the SELECT *)
(* found when it began is all there is when it has waited for its rows;    *)
(* the row locks keep the versions read from changing.  Neither suffices:  *)
(* a reclassification which waited for its keys may take a document out of *)
(* a type whose key it does not hold.                                      *)
(*                                                                         *)
(* Deletions: a deletion holds no key and may miss what is uploaded after  *)
(* its SELECT; but what it misses has the higher versions and a latest one *)
(* among it, so that its type is not left without a current version.       *)
(*                                                                         *)
(* Files: what a cleanup has listed stays fit to be deleted, because an    *)
(* upload old enough to be taken for an orphan gets no row any more.       *)
(*                                                                         *)
(* Index: a searchable document is in the index as what it is, or somebody *)
(* is still going to index it, or it is known that nobody will.            *)
(*                                                                         *)
(* Archives: no row is locked.  What a session has read of a project holds *)
(* as long as the project has not been moved: a candidate is closed for so *)
(* long that nothing else can change, and each move makes the number of    *)
(* migrations grow.                                                        *)
(*                                                                         *)
(* Suggestions: the only type a phase requires is as sure as nothing else, *)
(* and what is suggested was cut from a list of all the types there are.   *)
(***************************************************************************)
EXTENDS DocumentVersions, FileStore, DocumentSearch, Archives, DocumentClassification,
        FiniteLemmas, SequenceTheorems

\* Some rows and what is in them.
Loaded == UNION {[rows -> DocumentRows] : rows \in SUBSET Docs}

Requests == [op : {"idle", "upload", "delete", "move", "revoke"}, type : Types,
             target : Docs \cup {NoDoc}, keys : SUBSET Types, todo : Seq(Filters),
             scanned : BOOLEAN, scan : SUBSET Docs, found : [Filters -> SUBSET Docs],
             seen : Loaded]

\* What a request refers to exists, and it has read what it has locked.
Inside(s) ==
  /\ docSession[s].scan \subseteq DOMAIN doc
  /\ DOMAIN docSession[s].seen \subseteq DOMAIN doc
  /\ \A f \in Filters : docSession[s].found[f] \subseteq DOMAIN docSession[s].seen

\* How far a request of its kind can be with its SELECTs.
Orderly(s) ==
  LET r == docSession[s]
      last == {<< r.type >>, << >>}
  IN /\ r.scanned => r.todo # << >>
     /\ r.op \notin {"upload", "move"} => r.keys = {}
     /\ r.op = "upload" => r.type \in r.keys /\ r.target = NoDoc /\ r.todo \in last
     /\ r.op = "move" =>
          /\ \/ r.todo \in last
             \/ /\ \E old \in Types \ {r.type} : r.todo = << old, r.type >>
                /\ DOMAIN r.seen = {r.target}
          /\ r.type \in r.keys \/ (r.keys = {} /\ ~ r.scanned /\ r.todo \notin last)

\* Once it has the key of its type: until it reads the type, the rows it has
\* locked are of other types; what its SELECT found when it began includes all
\* there are now; and when it has read them, it knows them as they are.  The
\* document it reclassifies it has loaded earlier, and that may be outdated.
GroupRead(s) ==
  LET r == docSession[s]
  IN r.op \in {"upload", "move"} /\ r.type \in r.keys =>
       /\ r.todo # << >> =>
            \A d \in DOMAIN r.seen \ {r.target} :
              doc[d].type # r.type /\ \E f \in Filters : d \in r.found[f]
       /\ r.todo = << r.type >> /\ r.scanned => Matching(r.type) \subseteq r.scan
       /\ r.todo = << >> =>
            \A d \in Matching(r.type) :
              /\ d \in r.found[r.type]
              /\ d # r.target => r.seen[d] = doc[d]

Sound(s) == Inside(s) /\ Orderly(s) /\ GroupRead(s)

\* No two requests hold the advisory lock of one type.
KeysExclusive ==
  \A s, t \in DocumentSessions : s # t => docSession[s].keys \cap docSession[t].keys = {}

DocumentIInv ==
  /\ doc \in Loaded
  /\ moves \in 0 .. MaxMoves
  /\ docSession \in [DocumentSessions -> Requests]
  /\ \A s \in DocumentSessions : Sound(s)
  /\ KeysExclusive

-----------------------------------------------------------------------------
(* Versions. *)

\* Every version a request has read of a type is below the one it computes.
LEMMA NextVersionAbove ==
  ASSUME DocumentIInv, NEW s \in DocumentSessions, NEW type \in Types
  PROVE  /\ NextVersion(s, type) \in Nat \ {0}
         /\ \A d \in docSession[s].found[type] :
              docSession[s].seen[d].version < NextVersion(s, type)
<1> DEFINE rowsFound == docSession[s].found[type]
           Version(d) == docSession[s].seen[d].version
           versions == {0} \cup {Version(d) : d \in rowsFound}
<1>1. IsFiniteSet(rowsFound) /\ \A d \in rowsFound : Version(d) \in Nat
  <2>1. rowsFound \subseteq Docs /\ rowsFound \subseteq DOMAIN docSession[s].seen
    BY DEF DocumentIInv, Sound, Inside, Requests, Filters
  <2>2. docSession[s].seen \in Loaded
    BY DEF DocumentIInv, Requests
  <2>3. \A d \in DOMAIN docSession[s].seen : docSession[s].seen[d] \in DocumentRows
    BY <2>2 DEF Loaded
  <2> QED BY <2>1, <2>3, DocsAssumption, FS_Subset DEF DocumentRows
<1>2. IsFiniteSet(versions)
  <2>1. IsFiniteSet({Version(d) : d \in rowsFound})
    <3> DEFINE f == [d \in rowsFound |-> Version(d)]
    <3>1. f \in Surjection(rowsFound, {Version(d) : d \in rowsFound})
      BY DEF Surjection
    <3> QED BY <3>1, <1>1, FS_Surjection, FS_CardinalityType
  <2> QED BY <2>1, FS_EmptySet, FS_AddElement, FS_Singleton, FS_Union
<1>3. versions \in SUBSET Nat /\ versions # {}
  BY <1>1
<1>4. Max(versions) \in versions /\ \A n \in versions : n <= Max(versions)
  <2> HIDE DEF versions
  <2> QED BY <1>2, <1>3, MaxOfFinite
<1>5. NextVersion(s, type) = 1 + Max(versions)
  BY DEF NextVersion
<1>6. \A d \in rowsFound : Version(d) \in versions
  OBVIOUS
<1> HIDE DEF versions
<1>7. Max(versions) \in Nat
  BY <1>3, <1>4
<1>8. \A d \in rowsFound : Version(d) \in Nat /\ Version(d) <= Max(versions)
  BY <1>1, <1>4, <1>6
<1> QED BY <1>5, <1>7, <1>8

-----------------------------------------------------------------------------
(* What the steps have in common. *)

\* A request at rest holds nothing and has read nothing.
LEMMA IdleRequest ==
  ASSUME NEW type \in Types
  PROVE  /\ DocumentIdle(type) \in Requests
         /\ DOMAIN DocumentIdle(type).seen = {}
<1>1. << >> \in Loaded /\ DOMAIN << >> = {}
  <2>1. << >> \in [{} -> DocumentRows]
    OBVIOUS
  <2> QED BY <2>1 DEF Loaded
<1> QED BY <1>1 DEF DocumentIdle, Requests

LEMMA DocumentRestIsIdle == \E type \in Types : AtRest = DocumentIdle(type)
BY TypesAssumption DEF AtRest

\* A request that only reads leaves the others as sound as they were.
LEMMA DocumentRequestStep ==
  ASSUME DocumentIInv, NEW s \in DocumentSessions, UNCHANGED << doc, moves >>,
         docSession' = [docSession EXCEPT ![s] = docSession'[s]],
         docSession'[s] \in Requests, Sound(s)',
         \A t \in DocumentSessions \ {s} : docSession'[s].keys \cap docSession[t].keys = {}
  PROVE  DocumentIInv'
<1>1. docSession' \in [DocumentSessions -> Requests]
  BY DEF DocumentIInv
<1>2. \A t \in DocumentSessions \ {s} : docSession'[t] = docSession[t]
  BY DEF DocumentIInv
<1>3. ASSUME NEW t \in DocumentSessions PROVE Sound(t)'
  <2>1. CASE t = s
    BY <2>1
  <2>2. CASE t # s
    BY <2>2, <1>2 DEF DocumentIInv, Sound, Inside, Orderly, GroupRead, Matching
  <2> QED BY <2>1, <2>2
<1>4. KeysExclusive'
  BY <1>2 DEF DocumentIInv, KeysExclusive
<1> QED BY <1>1, <1>3, <1>4 DEF DocumentIInv

\* A request that goes back to rest is sound.
LEMMA RestIsSound ==
  ASSUME NEW s \in DocumentSessions, docSession'[s] = AtRest
  PROVE  Sound(s)' /\ docSession'[s] \in Requests /\ docSession'[s].keys = {}
<1>1. PICK type \in Types : docSession'[s] = DocumentIdle(type)
  BY DocumentRestIsIdle
<1> QED BY <1>1, IdleRequest DEF Sound, Inside, Orderly, GroupRead, DocumentIdle

\* A commit that leaves alone what others have locked, and brings documents
\* only into types whose keys it holds, leaves the others sound.
LEMMA DocumentCommitStep ==
  ASSUME DocumentIInv, NEW s \in DocumentSessions,
         docSession' = [docSession EXCEPT ![s] = AtRest],
         doc' \in Loaded, moves' \in 0 .. MaxMoves,
         DOMAIN doc \subseteq DOMAIN doc',
         \A t \in DocumentSessions \ {s} : \A d \in Locked(t) : doc'[d] = doc[d],
         \A d \in DOMAIN doc' :
           d \notin DOMAIN doc \/ doc'[d].type # doc[d].type =>
             doc'[d].type \in docSession[s].keys
  PROVE  DocumentIInv'
<1>1. docSession'[s] = AtRest /\ \A t \in DocumentSessions \ {s} : docSession'[t] = docSession[t]
  BY DEF DocumentIInv
<1>2. docSession' \in [DocumentSessions -> Requests]
  BY <1>1, RestIsSound DEF DocumentIInv
<1>3. ASSUME NEW t \in DocumentSessions \ {s} PROVE Sound(t)'
  <2>1. Sound(t) /\ docSession'[t] = docSession[t] /\ docSession[t] \in Requests
    BY <1>1 DEF DocumentIInv
  <2>2. Inside(t)' /\ Orderly(t)'
    BY <2>1 DEF Sound, Inside, Orderly
  <2>3. \A f \in Filters : \A d \in docSession[t].found[f] :
          doc'[d] = doc[d] /\ d \in DOMAIN doc
    BY <2>1 DEF Sound, Inside, Locked
  <2>4. ASSUME docSession[t].type \in docSession[t].keys
        PROVE  Matching(docSession[t].type)' \subseteq Matching(docSession[t].type)
    <3>1. docSession[t].type \notin docSession[s].keys /\ docSession[t].type # Current
      BY <2>1, <2>4, TypesAssumption DEF DocumentIInv, KeysExclusive, Requests
    <3> QED BY <2>1, <3>1 DEF Matching
  <2>5. GroupRead(t)'
    <3> DEFINE r == docSession[t]
    <3> SUFFICES ASSUME r.op \in {"upload", "move"}, r.type \in r.keys
                 PROVE  /\ r.todo # << >> =>
                             \A d \in DOMAIN r.seen \ {r.target} :
                               doc'[d].type # r.type /\ \E f \in Filters : d \in r.found[f]
                        /\ r.todo = << r.type >> /\ r.scanned => Matching(r.type)' \subseteq r.scan
                        /\ r.todo = << >> =>
                             \A d \in Matching(r.type)' :
                               /\ d \in r.found[r.type]
                               /\ d # r.target => r.seen[d] = doc'[d]
      BY <2>1 DEF GroupRead, Matching
    <3>1. GroupRead(t) /\ r.type \in Filters
      BY <2>1 DEF Sound, Requests, Filters
    <3> QED BY <3>1, <2>3, <2>4 DEF GroupRead
  <2> QED BY <2>2, <2>5 DEF Sound
<1>4. Sound(s)'
  BY <1>1, RestIsSound
<1>5. KeysExclusive'
  BY <1>1, RestIsSound DEF DocumentIInv, KeysExclusive
<1> QED BY <1>2, <1>3, <1>4, <1>5 DEF DocumentIInv

-----------------------------------------------------------------------------
(* The steps. *)

\* The SELECTs of a request are a list of filters.
LEMMA FilterLists ==
  ASSUME NEW x \in Filters, NEW y \in Filters
  PROVE  << x >> \in Seq(Filters) /\ << x, y >> \in Seq(Filters)
OBVIOUS

LEMMA TypesAreFilters == Types \subseteq Filters /\ Current \in Filters
BY DEF Filters

\* Nothing is stored and nobody is at work.
LEMMA DocumentInitHolds == DocumentInit => DocumentIInv
<1> SUFFICES ASSUME DocumentInit PROVE DocumentIInv
  OBVIOUS
<1>1. PICK type \in Types : AtRest = DocumentIdle(type)
  BY DocumentRestIsIdle
<1>2. docSession \in [DocumentSessions -> Requests]
  BY <1>1, IdleRequest DEF DocumentInit
<1>3. doc \in Loaded
  BY IdleRequest DEF DocumentInit, Requests, DocumentIdle
<1>4. ASSUME NEW s \in DocumentSessions PROVE Sound(s)
  BY <1>1, IdleRequest DEF DocumentInit, Sound, Inside, Orderly, GroupRead, DocumentIdle
<1>5. KeysExclusive
  BY <1>1 DEF DocumentInit, KeysExclusive, DocumentIdle
<1> QED BY <1>2, <1>3, <1>4, <1>5, DocsAssumption DEF DocumentIInv, DocumentInit

\* A request begins, and gives up.
LEMMA BeginStep ==
  ASSUME DocumentIInv, NEW s \in DocumentSessions, NEW type \in Types,
         \/ Upload(s, type) \/ Revoke(s) \/ DocumentRollback(s)
         \/ \E d \in Docs : Delete(s, d) \/ Move(s, d, type)
  PROVE  DocumentIInv'
<1>1. /\ UNCHANGED << doc, moves >>
      /\ docSession' = [docSession EXCEPT ![s] = docSession'[s]]
  BY DEF Upload, Delete, Move, Revoke, DocumentRollback, DocumentIInv
<1>2. ASSUME NEW d \in DOMAIN doc
      PROVE  d \in Docs /\ doc[d] \in DocumentRows /\ [x \in {d} |-> doc[x]] \in Loaded
  <2>1. d \in Docs /\ doc[d] \in DocumentRows
    BY DEF DocumentIInv, Loaded
  <2>2. [x \in {d} |-> doc[x]] \in [{d} -> DocumentRows]
    BY <2>1
  <2> QED BY <2>1, <2>2 DEF Loaded
<1>3. PICK rest \in Types : AtRest = DocumentIdle(rest)
  BY DocumentRestIsIdle
<1>4. /\ docSession'[s] \in Requests /\ Sound(s)'
      /\ \A t \in DocumentSessions \ {s} : docSession'[s].keys \cap docSession[t].keys = {}
  <2>1. CASE Upload(s, type)
    <3>1. docSession'[s] = [DocumentIdle(type) EXCEPT !.op = "upload", !.keys = {type},
                                                      !.todo = << type >>]
      BY <2>1 DEF Upload, DocumentIInv
    <3>2. docSession'[s] \in Requests
      <4>1. << type >> \in Seq(Filters)
        BY FilterLists, TypesAreFilters
      <4>2. {type} \in SUBSET Types
        OBVIOUS
      <4> QED BY <3>1, <4>1, <4>2, IdleRequest DEF Requests
    <3>3. Sound(s)'
      BY <3>1, IdleRequest, DocsAssumption
         DEF Sound, Inside, Orderly, GroupRead, DocumentIdle
    <3>4. docSession'[s].keys = {type}
      BY <3>1, IdleRequest DEF Requests
    <3> QED BY <2>1, <3>2, <3>3, <3>4 DEF Upload, KeyFree
  <2>2. CASE \E d \in Docs : Delete(s, d)
    <3>1. PICK d \in DOMAIN doc :
          /\ docSession'[s] = [DocumentIdle(doc[d].type) EXCEPT !.op = "delete", !.target = d,
                                 !.todo = << doc[d].type >>, !.seen = [x \in {d} |-> doc[x]]]
          /\ doc[d].type \in Types
      BY <2>2, <1>2 DEF Delete, DocumentIInv, DocumentRows
    <3>2. docSession'[s] \in Requests
      <4>1. << doc[d].type >> \in Seq(Filters)
        BY <3>1, FilterLists, TypesAreFilters
      <4> QED BY ZenonT(60), <3>1, <4>1, <1>2, IdleRequest DEF Requests
    <3>3. Sound(s)' /\ docSession'[s].keys = {}
      BY <1>1, <3>1, IdleRequest
         DEF Sound, Inside, Orderly, GroupRead, DocumentIdle
    <3> QED BY <3>2, <3>3
  <2>3. CASE \E d \in Docs : Move(s, d, type)
    <3>1. PICK d \in DOMAIN doc :
          /\ docSession'[s] = [DocumentIdle(type) EXCEPT !.op = "move", !.target = d,
                                 !.todo = << doc[d].type, type >>, !.seen = [x \in {d} |-> doc[x]]]
          /\ doc[d].type \in Types \ {type}
      BY <2>3, <1>2 DEF Move, DocumentIInv, DocumentRows
    <3>2. docSession'[s] \in Requests
      <4>1. << doc[d].type, type >> \in Seq(Filters)
        BY <3>1, FilterLists, TypesAreFilters
      <4> QED BY <3>1, <4>1, <1>2, IdleRequest DEF Requests
    <3>3. Sound(s)' /\ docSession'[s].keys = {}
      BY <1>1, <3>1, IdleRequest
         DEF Sound, Inside, Orderly, GroupRead, DocumentIdle
    <3> QED BY <3>2, <3>3
  <2>4. CASE Revoke(s)
    <3>1. docSession'[s] = [AtRest EXCEPT !.op = "revoke", !.todo = << Current >>]
      BY <2>4 DEF Revoke, DocumentIInv
    <3>2. docSession'[s] \in Requests
      BY ZenonT(60), <3>1, <1>3, IdleRequest, FilterLists, TypesAreFilters DEF Requests
    <3>3. Sound(s)' /\ docSession'[s].keys = {}
      BY <3>1, <1>3, IdleRequest DEF Sound, Inside, Orderly, GroupRead, DocumentIdle
    <3> QED BY <3>2, <3>3
  <2>5. CASE DocumentRollback(s)
    <3>1. docSession'[s] = AtRest
      BY <2>5 DEF DocumentRollback, DocumentIInv
    <3> QED BY <3>1, RestIsSound
  <2> QED BY <2>1, <2>2, <2>3, <2>4, <2>5
<1> QED BY SMTT(30), <1>1, <1>4, DocumentRequestStep

\* A reclassification gets its two keys.
LEMMA MoveLockStep ==
  ASSUME DocumentIInv, NEW s \in DocumentSessions, MoveLock(s)
  PROVE  DocumentIInv'
<1> DEFINE r == docSession[s]
           types == {r.todo[i] : i \in DOMAIN r.todo}
<1>1. /\ UNCHANGED << doc, moves >>
      /\ docSession' = [docSession EXCEPT ![s] = docSession'[s]]
      /\ docSession'[s] = [r EXCEPT !.keys = types]
      /\ r.op = "move" /\ r.keys = {} /\ \A type \in types : KeyFree(s, type)
  BY DEF MoveLock, DocumentIInv
<1>2. PICK old \in Types \ {r.type} : r.todo = << old, r.type >>
  BY <1>1 DEF DocumentIInv, Sound, Orderly
<1>3. types = {old, r.type} /\ r \in Requests
  BY <1>2 DEF DocumentIInv
<1>4. docSession'[s] \in Requests
  <2>1. docSession'[s] = [r EXCEPT !.keys = {old, r.type}]
    BY <1>1, <1>3
  <2>2. {old, r.type} \in SUBSET Types
    BY <1>3 DEF Requests
  <2> QED BY <2>1, <2>2, <1>3 DEF Requests
<1>5. Sound(s)'
  <2>1. DOMAIN r.seen = {r.target} /\ ~ r.scanned /\ Sound(s)
    BY <1>1, <1>2 DEF DocumentIInv, Sound, Orderly
  <2> HIDE DEF types
  <2>2. /\ docSession'[s].op = "move" /\ docSession'[s].todo = r.todo
        /\ docSession'[s].keys = types /\ docSession'[s].type = r.type
        /\ docSession'[s].seen = r.seen /\ docSession'[s].found = r.found
        /\ docSession'[s].scan = r.scan /\ docSession'[s].scanned = r.scanned
        /\ docSession'[s].target = r.target
    BY <1>1, <1>3 DEF Requests
  <2>3. Inside(s)'
    BY <2>1, <2>2, <1>1 DEF Sound, Inside
  <2>4. Orderly(s)'
    BY <2>1, <2>2, <1>2, <1>3 DEF Orderly
  <2>5. GroupRead(s)'
    BY <2>1, <2>2, <1>2 DEF GroupRead
  <2> QED BY <2>3, <2>4, <2>5 DEF Sound
<1>6. \A t \in DocumentSessions \ {s} : docSession'[s].keys \cap docSession[t].keys = {}
  BY <1>1, <1>3 DEF KeyFree, Requests
<1> QED BY <1>1, <1>4, <1>5, <1>6, DocumentRequestStep

\* A SELECT begins.
LEMMA ScanStep ==
  ASSUME DocumentIInv, NEW s \in DocumentSessions, Scan(s)
  PROVE  DocumentIInv'
<1> DEFINE r == docSession[s]
           rows == Matching(Head(r.todo))
<1>1. /\ UNCHANGED << doc, moves >>
      /\ docSession' = [docSession EXCEPT ![s] = docSession'[s]]
      /\ docSession'[s] = [r EXCEPT !.scanned = TRUE, !.scan = rows]
      /\ r.todo # << >> /\ (r.op = "move" => r.keys # {})
  BY DEF Scan, DocumentIInv
<1>2. r \in Requests /\ Sound(s) /\ rows \subseteq DOMAIN doc /\ DOMAIN doc \subseteq Docs
  BY DEF DocumentIInv, Matching, Loaded
<1>3. docSession'[s] \in Requests
  BY <1>1, <1>2 DEF Requests
<1>4. /\ docSession'[s].scanned /\ docSession'[s].scan = rows
      /\ docSession'[s].op = r.op /\ docSession'[s].todo = r.todo
      /\ docSession'[s].keys = r.keys /\ docSession'[s].type = r.type
      /\ docSession'[s].seen = r.seen /\ docSession'[s].found = r.found
      /\ docSession'[s].target = r.target
  BY <1>1, <1>2 DEF Requests
<1> HIDE DEF rows
<1>5. Inside(s)' /\ Orderly(s)'
  <2>1. Inside(s)'
    BY <1>1, <1>2, <1>4 DEF Sound, Inside
  <2>2. Inside(s) /\ Orderly(s) /\ (r.op = "move" => r.type \in r.keys)
    BY <1>1, <1>2 DEF Sound, Orderly
  <2>3. Orderly(s)'
    BY <2>2, <1>1, <1>4 DEF Orderly
  <2> QED BY <2>1, <2>3
<1>6. GroupRead(s)'
  <2>1. r.todo = << r.type >> => rows = Matching(r.type)
    BY DEF rows
  <2> QED BY <2>1, <1>1, <1>2, <1>4 DEF Sound, GroupRead, Matching
<1>7. \A t \in DocumentSessions \ {s} : docSession'[s].keys \cap docSession[t].keys = {}
  BY <1>4 DEF DocumentIInv, KeysExclusive
<1> QED BY <1>1, <1>3, <1>5, <1>6, <1>7, DocumentRequestStep DEF Sound

\* What a request makes of what it reads.
RowsRead(s) == docSession[s].scan \cap Matching(Head(docSession[s].todo))
RowsKnown(s) ==
  [d \in DOMAIN docSession[s].seen \cup RowsRead(s) |->
     IF d \in DOMAIN docSession[s].seen THEN docSession[s].seen[d] ELSE doc[d]]
AfterRead(s) ==
  [docSession[s] EXCEPT
     !.scanned = FALSE, !.scan = {}, !.todo = Tail(docSession[s].todo),
     !.found = [docSession[s].found EXCEPT ![Head(docSession[s].todo)] = RowsRead(s)],
     !.seen = RowsKnown(s)]

LEMMA ReadRequest ==
  ASSUME DocumentIInv, NEW s \in DocumentSessions, Read(s)
  PROVE  /\ UNCHANGED << doc, moves >>
         /\ docSession' = [docSession EXCEPT ![s] = docSession'[s]]
         /\ docSession'[s] = AfterRead(s)
         /\ docSession[s].scanned
<1> DEFINE r == docSession[s]
           filter == Head(r.todo)
           rowsFound == r.scan \cap Matching(filter)
           seen == [d \in DOMAIN r.seen \cup rowsFound |->
                      IF d \in DOMAIN r.seen THEN r.seen[d] ELSE doc[d]]
<1>1. /\ UNCHANGED << doc, moves >>
      /\ docSession' = [docSession EXCEPT ![s] = docSession'[s]]
      /\ docSession'[s] = [r EXCEPT !.scanned = FALSE, !.scan = {}, !.todo = Tail(r.todo),
                                    !.found = [r.found EXCEPT ![filter] = rowsFound],
                                    !.seen = seen]
      /\ r.scanned
  BY ZenonT(60) DEF Read, DocumentIInv
<1> QED BY <1>1, Zenon DEF AfterRead, RowsRead, RowsKnown

\* A SELECT has waited for its rows and reads those that still match.
LEMMA ReadStep ==
  ASSUME DocumentIInv, NEW s \in DocumentSessions, Read(s)
  PROVE  DocumentIInv'
<1> DEFINE r == docSession[s]
           filter == Head(r.todo)
           rowsFound == r.scan \cap Matching(filter)
           seen == [d \in DOMAIN r.seen \cup rowsFound |->
                      IF d \in DOMAIN r.seen THEN r.seen[d] ELSE doc[d]]
<1>1. /\ UNCHANGED << doc, moves >>
      /\ docSession' = [docSession EXCEPT ![s] = docSession'[s]]
      /\ docSession'[s] = [r EXCEPT !.scanned = FALSE, !.scan = {}, !.todo = Tail(r.todo),
                                    !.found = [r.found EXCEPT ![filter] = rowsFound],
                                    !.seen = seen]
      /\ r.scanned
  BY ReadRequest, Zenon DEF AfterRead, RowsRead, RowsKnown
<1>2. r \in Requests /\ Sound(s) /\ rowsFound \subseteq DOMAIN doc /\ DOMAIN doc \subseteq Docs
  BY DEF DocumentIInv, Matching, Loaded
<1>3. r.todo \in Seq(Filters) /\ r.todo # << >>
  BY <1>1, <1>2 DEF Requests, Sound, Orderly
<1>4. filter \in Filters /\ Tail(r.todo) \in Seq(Filters)
  BY <1>3
<1>5. seen \in Loaded /\ DOMAIN seen = DOMAIN r.seen \cup rowsFound
  <2>1. \A d \in DOMAIN doc : doc[d] \in DocumentRows
    BY DEF DocumentIInv, Loaded
  <2>2. DOMAIN r.seen \subseteq Docs /\ \A d \in DOMAIN r.seen : r.seen[d] \in DocumentRows
    BY <1>2 DEF Requests, Loaded
  <2>3. seen \in [DOMAIN r.seen \cup rowsFound -> DocumentRows]
    BY <1>2, <2>1, <2>2
  <2> QED BY <1>2, <2>2, <2>3 DEF Loaded
<1>6. [r.found EXCEPT ![filter] = rowsFound] \in [Filters -> SUBSET Docs]
  BY <1>2, <1>4 DEF Requests
<1>7. /\ docSession'[s] \in Requests
      /\ ~ docSession'[s].scanned /\ docSession'[s].scan = {}
      /\ docSession'[s].op = r.op /\ docSession'[s].todo = Tail(r.todo)
      /\ docSession'[s].keys = r.keys /\ docSession'[s].type = r.type
      /\ docSession'[s].seen = seen /\ docSession'[s].target = r.target
      /\ docSession'[s].found = [r.found EXCEPT ![filter] = rowsFound]
  <2> DEFINE locks == [r.found EXCEPT ![filter] = rowsFound]
             rest == Tail(r.todo)
  <2>1. docSession'[s] \in Requests
    <3>1. docSession'[s] = [r EXCEPT !.scanned = FALSE, !.scan = {}, !.todo = rest,
                                     !.found = locks, !.seen = seen]
      BY <1>1
    <3>2. rest \in Seq(Filters) /\ locks \in [Filters -> SUBSET Docs] /\ seen \in Loaded
      BY <1>4, <1>5, <1>6
    <3> HIDE DEF locks, rest, filter, rowsFound, seen
    <3> QED BY <3>1, <3>2, <1>2 DEF Requests
  <2> HIDE DEF filter, rowsFound, seen
  <2> QED BY <1>1, <1>2, <2>1 DEF Requests
<1>8. docSession'[s].found[filter] = rowsFound
  BY <1>2, <1>4, <1>7 DEF Requests
<1>9. Inside(s)'
  <2>1. ASSUME NEW f \in Filters PROVE docSession'[s].found[f] \subseteq DOMAIN seen
    BY <1>2, <1>4, <1>5, <1>7 DEF Sound, Inside, Requests
  <2> HIDE DEF seen
  <2> QED BY <2>1, <1>1, <1>2, <1>5, <1>7 DEF Sound, Inside
<1>10. Orderly(s)'
  <2>1. r.todo = << r.type >> => Tail(r.todo) = << >>
    OBVIOUS
  <2>2. \A old \in Types : r.todo = << old, r.type >> => Tail(r.todo) = << r.type >>
    OBVIOUS
  <2> HIDE DEF seen
  <2> QED BY <2>1, <2>2, <1>1, <1>2, <1>3, <1>7 DEF Sound, Orderly
<1>11. GroupRead(s)'
  <2> HIDE DEF seen, filter, rowsFound
  <2> SUFFICES ASSUME r.op \in {"upload", "move"}, r.type \in r.keys
               PROVE  /\ Tail(r.todo) # << >> =>
                           \A d \in DOMAIN seen \ {r.target} :
                             doc[d].type # r.type
                             /\ \E f \in Filters : d \in docSession'[s].found[f]
                      /\ Tail(r.todo) = << >> =>
                           \A d \in Matching(r.type) :
                             /\ d \in docSession'[s].found[r.type]
                             /\ d # r.target => seen[d] = doc[d]
    BY <1>1, <1>7 DEF GroupRead, Matching
  <2> USE DEF seen, filter, rowsFound
  <2>1. CASE r.todo = << r.type >>
    <3>1. Tail(r.todo) = << >> /\ filter = r.type
      BY <2>1
    <3>2. rowsFound = Matching(r.type) /\ \A d \in DOMAIN r.seen \ {r.target} : doc[d].type # r.type
      BY <2>1, <3>1, <1>1, <1>2, <1>3 DEF Sound, GroupRead
    <3>3. r.type \in Types /\ r.type # Current
      BY <1>2, TypesAssumption DEF Requests
    <3>4. \A d \in Matching(r.type) : d \in rowsFound /\ (d # r.target => seen[d] = doc[d])
      BY <3>2, <3>3 DEF Matching
    <3> QED BY <3>1, <3>4, <1>8
  <2>2. CASE \E old \in Types \ {r.type} : r.todo = << old, r.type >>
    <3>1. PICK old \in Types \ {r.type} : r.todo = << old, r.type >>
      BY <2>2
    <3>2. Tail(r.todo) # << >> /\ filter = old /\ old # Current
      BY <3>1, TypesAssumption
    <3>3. DOMAIN r.seen = {r.target}
      BY <3>1, <1>2 DEF Sound, Orderly
    <3>4. \A d \in DOMAIN seen \ {r.target} : d \in rowsFound /\ doc[d].type = old
      BY <3>2, <3>3, <1>5 DEF Matching
    <3> QED BY <3>1, <3>2, <3>4, <1>4, <1>8
  <2> QED BY <2>1, <2>2, <1>2, <1>3 DEF Sound, Orderly
<1>12. \A t \in DocumentSessions \ {s} : docSession'[s].keys \cap docSession[t].keys = {}
  BY <1>7 DEF DocumentIInv, KeysExclusive
<1> QED BY <1>1, <1>7, <1>9, <1>10, <1>11, <1>12, DocumentRequestStep DEF Sound

\* What an UPDATE leaves in a row: its type is the one before or the one
\* written, and nothing has changed if nothing was.
LEMMA UpdatedRow ==
  ASSUME DocumentIInv, NEW s \in DocumentSessions, NEW d \in DOMAIN docSession[s].seen,
         NEW new \in DocumentRows
  PROVE  /\ Updated(s, d, new) \in DocumentRows
         /\ \/ Updated(s, d, new).type = doc[d].type
            \/ /\ Updated(s, d, new).type = new.type
               /\ new.type # docSession[s].seen[d].type
         /\ new = docSession[s].seen[d] => Updated(s, d, new) = doc[d]
<1> DEFINE old == docSession[s].seen[d]
           row == doc[d]
<1>1. old \in DocumentRows /\ row \in DocumentRows
  <2>1. docSession[s].seen \in Loaded /\ Inside(s) /\ doc \in Loaded
    BY DEF DocumentIInv, Sound, Requests
  <2> QED BY <2>1 DEF Inside, Loaded
<1>2. Updated(s, d, new) =
        [field \in DOMAIN new |-> IF new[field] = old[field] THEN row[field] ELSE new[field]]
  BY DEF Updated
<1> HIDE DEF old, row
<1>3. DOMAIN new = {"type", "version", "latest", "deleted"} /\ DOMAIN row = DOMAIN new
  BY <1>1 DEF DocumentRows
<1>4. [field \in DOMAIN new |-> IF new[field] = old[field] THEN row[field] ELSE new[field]]
        \in DocumentRows
  BY <1>1, <1>3 DEF DocumentRows
<1>5. /\ \/ Updated(s, d, new).type = row.type
         \/ Updated(s, d, new).type = new.type /\ new.type # old.type
      /\ new = old => Updated(s, d, new) = row
  BY <1>1, <1>2, <1>3 DEF DocumentRows
<1> QED BY <1>2, <1>4, <1>5 DEF old, row

\* A commit leaves alone what others have locked.
LEMMA LockedRowsStay ==
  ASSUME DocumentIInv, NEW s \in DocumentSessions, NEW new, NEW inserted, Write(s, new, inserted),
         DOMAIN new = DOMAIN docSession[s].seen, \A d \in DOMAIN new : new[d] \in DocumentRows
  PROVE  \A t \in DocumentSessions \ {s} : \A d \in Locked(t) : doc'[d] = doc[d]
<1> SUFFICES ASSUME NEW t \in DocumentSessions \ {s}, NEW d \in Locked(t)
             PROVE  doc'[d] = doc[d]
  OBVIOUS
<1>1. d \in LockedByOthers(s)
  BY DEF LockedByOthers
<1>2. d \in DOMAIN doc
  BY DEF Locked, DocumentIInv, Sound, Inside
<1>3. /\ doc'[d] = IF d \in DOMAIN new THEN Updated(s, d, new[d]) ELSE doc[d]
      /\ d \in DOMAIN new => new[d] = docSession[s].seen[d]
  BY <1>1, <1>2 DEF Write
<1> QED BY <1>3, UpdatedRow

\* What a commit leaves in the rows there were.
LEMMA WrittenRow ==
  ASSUME DocumentIInv, NEW s \in DocumentSessions, NEW new, NEW inserted, Write(s, new, inserted),
         DOMAIN new = DOMAIN docSession[s].seen, NEW d \in DOMAIN doc,
         d \in DOMAIN new => new[d] \in DocumentRows
  PROVE  LET old == docSession[s].seen[d]
             Field(n, o, r) == IF n = o THEN r ELSE n
         IN /\ d \in DOMAIN doc'
            /\ d \notin DOMAIN new => doc'[d] = doc[d]
            /\ d \in DOMAIN new =>
                 /\ doc'[d].type = Field(new[d].type, old.type, doc[d].type)
                 /\ doc'[d].version = Field(new[d].version, old.version, doc[d].version)
                 /\ doc'[d].latest = Field(new[d].latest, old.latest, doc[d].latest)
                 /\ doc'[d].deleted = Field(new[d].deleted, old.deleted, doc[d].deleted)
<1>1. /\ d \in DOMAIN doc'
      /\ doc'[d] = IF d \in DOMAIN new THEN Updated(s, d, new[d]) ELSE doc[d]
  BY DEF Write
<1>2. d \in DOMAIN new => DOMAIN new[d] = {"type", "version", "latest", "deleted"}
  BY DEF DocumentRows
<1> QED BY <1>1, <1>2 DEF Updated

\* A commit that brings documents only into types whose keys it holds.
LEMMA WriteStep ==
  ASSUME DocumentIInv, NEW s \in DocumentSessions, NEW new, NEW inserted, Write(s, new, inserted),
         moves' \in 0 .. MaxMoves,
         DOMAIN new = DOMAIN docSession[s].seen, DOMAIN inserted \subseteq Docs,
         \A d \in DOMAIN new :
           /\ new[d] \in DocumentRows
           /\ new[d].type # docSession[s].seen[d].type => new[d].type \in docSession[s].keys,
         \A d \in DOMAIN inserted :
           inserted[d] \in DocumentRows /\ inserted[d].type \in docSession[s].keys
  PROVE  DocumentIInv'
<1>1. /\ docSession' = [docSession EXCEPT ![s] = AtRest]
      /\ doc' = [d \in DOMAIN doc \cup DOMAIN inserted |->
                   IF d \in DOMAIN new THEN Updated(s, d, new[d])
                   ELSE IF d \in DOMAIN doc THEN doc[d] ELSE inserted[d]]
      /\ \A d \in DOMAIN new : new[d] # docSession[s].seen[d] => d \notin LockedByOthers(s)
  BY DEF Write
<1>2. DOMAIN new \subseteq DOMAIN doc /\ DOMAIN doc \subseteq Docs
      /\ \A d \in DOMAIN doc : doc[d] \in DocumentRows
  BY DEF DocumentIInv, Sound, Inside, Loaded
<1>3. \A d \in DOMAIN new :
        /\ Updated(s, d, new[d]) \in DocumentRows
        /\ \/ Updated(s, d, new[d]).type = doc[d].type
           \/ Updated(s, d, new[d]).type \in docSession[s].keys
  BY UpdatedRow
<1>4. DOMAIN doc' = DOMAIN doc \cup DOMAIN inserted
  BY <1>1
<1>5. doc' \in Loaded
  <2>1. doc' \in [DOMAIN doc \cup DOMAIN inserted -> DocumentRows]
    BY <1>1, <1>2, <1>3
  <2> QED BY <2>1, <1>2 DEF Loaded
<1>6. \A t \in DocumentSessions \ {s} : \A d \in Locked(t) : doc'[d] = doc[d]
  BY LockedRowsStay
<1>7. \A d \in DOMAIN doc' :
        d \notin DOMAIN doc \/ doc'[d].type # doc[d].type =>
          doc'[d].type \in docSession[s].keys
  BY <1>1, <1>2, <1>3, <1>4
<1> QED BY <1>1, <1>4, <1>5, <1>6, <1>7, DocumentCommitStep

\* What a request makes of the rows it has loaded, before it gives one another
\* type, keeps their type.
LEMMA ChangedRows ==
  ASSUME DocumentIInv, NEW s \in DocumentSessions, NEW current, NEW former
  PROVE  /\ DOMAIN Changed(s, current, former) = DOMAIN docSession[s].seen
         /\ \A d \in DOMAIN docSession[s].seen :
              /\ Changed(s, current, former)[d] \in DocumentRows
              /\ Changed(s, current, former)[d].type = docSession[s].seen[d].type
<1>1. \A d \in DOMAIN docSession[s].seen : docSession[s].seen[d] \in DocumentRows
  <2>1. docSession[s].seen \in Loaded
    BY DEF DocumentIInv, Requests
  <2> QED BY <2>1 DEF Loaded
<1> SUFFICES ASSUME NEW d \in DOMAIN docSession[s].seen
             PROVE  /\ Changed(s, current, former)[d] \in DocumentRows
                    /\ Changed(s, current, former)[d].type = docSession[s].seen[d].type
  BY DEF Changed
<1> DEFINE old == docSession[s].seen[d]
           latest == d \in current \/ (old.latest /\ d \notin former)
<1>2. Changed(s, current, former)[d] = [old EXCEPT !.latest = latest]
  BY DEF Changed
<1>3. latest \in BOOLEAN /\ old \in DocumentRows
  BY <1>1 DEF DocumentRows
<1> HIDE DEF latest, old
<1>4. [old EXCEPT !.latest = latest] \in DocumentRows /\ [old EXCEPT !.latest = latest].type = old.type
  BY <1>3 DEF DocumentRows
<1> QED BY <1>2, <1>4 DEF old

LEMMA ChangedFields ==
  ASSUME DocumentIInv, NEW s \in DocumentSessions, NEW current, NEW former,
         NEW d \in DOMAIN docSession[s].seen
  PROVE  LET old == docSession[s].seen[d]
             new == Changed(s, current, former)[d]
         IN /\ old \in DocumentRows
            /\ new.version = old.version /\ new.deleted = old.deleted
            /\ new.latest = (d \in current \/ (old.latest /\ d \notin former))
<1> DEFINE old == docSession[s].seen[d]
           latest == d \in current \/ (old.latest /\ d \notin former)
<1>1. Changed(s, current, former)[d] = [old EXCEPT !.latest = latest]
  BY DEF Changed
<1>2. old \in DocumentRows
  BY DEF DocumentIInv, Requests, Loaded
<1> HIDE DEF latest, old
<1>3. /\ [old EXCEPT !.latest = latest].version = old.version
      /\ [old EXCEPT !.latest = latest].deleted = old.deleted
      /\ [old EXCEPT !.latest = latest].latest = latest
  BY <1>2 DEF DocumentRows
<1> QED BY <1>1, <1>2, <1>3 DEF old, latest

LEMMA NothingInserted == DOMAIN << >> = {}
OBVIOUS

\* The requests commit.
LEMMA UploadCommitStep ==
  ASSUME DocumentIInv, NEW s \in DocumentSessions, NEW d \in Docs, UploadCommit(s, d)
  PROVE  DocumentIInv'
<1> DEFINE type == docSession[s].type
           version == NextVersion(s, type)
           new == Changed(s, {}, docSession[s].found[type])
           inserted == [x \in {d} |-> [type |-> type, version |-> version,
                                       latest |-> TRUE, deleted |-> FALSE]]
<1>1. Write(s, new, inserted) /\ docSession[s].op = "upload" /\ moves' = moves
  BY DEF UploadCommit, Ready
<1>2. type \in Types /\ type \in docSession[s].keys
  BY <1>1 DEF DocumentIInv, Sound, Orderly, Requests
<1>3. version \in Nat \ {0}
  BY <1>2, NextVersionAbove
<1>4. DOMAIN inserted = {d} /\ inserted[d] \in DocumentRows /\ inserted[d].type = type
  BY <1>2, <1>3 DEF DocumentRows
<1> HIDE DEF new, inserted
<1>5. /\ DOMAIN new = DOMAIN docSession[s].seen
      /\ \A x \in DOMAIN new : new[x] \in DocumentRows /\ new[x].type = docSession[s].seen[x].type
  BY ChangedRows DEF new
<1> QED BY <1>1, <1>2, <1>4, <1>5, WriteStep DEF DocumentIInv

LEMMA DeleteCommitStep ==
  ASSUME DocumentIInv, NEW s \in DocumentSessions, DeleteCommit(s)
  PROVE  DocumentIInv'
<1> DEFINE d == docSession[s].target
           others == Changed(s, Replacement(s, docSession[s].type), {d})
           new == [others EXCEPT ![d].deleted = TRUE]
<1>1. Write(s, new, << >>) /\ moves' = moves
  BY DEF DeleteCommit
<1>2. /\ DOMAIN others = DOMAIN docSession[s].seen
      /\ \A x \in DOMAIN others :
           others[x] \in DocumentRows /\ others[x].type = docSession[s].seen[x].type
  BY ChangedRows
<1> HIDE DEF others
<1>3. /\ DOMAIN new = DOMAIN docSession[s].seen
      /\ \A x \in DOMAIN new : new[x] \in DocumentRows /\ new[x].type = docSession[s].seen[x].type
  BY <1>2 DEF DocumentRows
<1> HIDE DEF new
<1> QED BY <1>1, <1>3, NothingInserted, WriteStep DEF DocumentIInv

LEMMA MoveCommitStep ==
  ASSUME DocumentIInv, NEW s \in DocumentSessions, MoveCommit(s)
  PROVE  DocumentIInv'
<1> DEFINE d == docSession[s].target
           type == docSession[s].type
           version == NextVersion(s, type)
           others == Changed(s, {d} \cup Replacement(s, docSession[s].seen[d].type),
                             docSession[s].found[type])
           row == [others[d] EXCEPT !.type = type, !.version = version]
           new == [others EXCEPT ![d] = row]
<1>1. /\ Write(s, new, << >>)
      /\ docSession[s].op = "move" /\ docSession[s].todo = << >>
      /\ moves < MaxMoves /\ moves' = moves + 1
  BY DEF MoveCommit, Ready
<1>2. type \in Types /\ type \in docSession[s].keys
  BY <1>1 DEF DocumentIInv, Sound, Orderly, Requests
<1>3. version \in Nat \ {0}
  BY <1>2, NextVersionAbove
<1>4. /\ DOMAIN others = DOMAIN docSession[s].seen
      /\ \A x \in DOMAIN others :
           others[x] \in DocumentRows /\ others[x].type = docSession[s].seen[x].type
  BY ChangedRows
<1> HIDE DEF others, version
<1>5. d \in DOMAIN others => row \in DocumentRows /\ row.type = type
  BY <1>2, <1>3, <1>4 DEF DocumentRows
<1> HIDE DEF row
<1>6. /\ DOMAIN new = DOMAIN docSession[s].seen
      /\ \A x \in DOMAIN new :
           /\ new[x] \in DocumentRows
           /\ new[x].type # docSession[s].seen[x].type => new[x].type \in docSession[s].keys
  BY <1>2, <1>4, <1>5
<1>7. moves' \in 0 .. MaxMoves
  BY <1>1, DocsAssumption DEF DocumentIInv
<1> HIDE DEF new
<1> QED BY <1>1, <1>6, <1>7, NothingInserted, WriteStep

LEMMA RevokeCommitStep ==
  ASSUME DocumentIInv, NEW s \in DocumentSessions, RevokeCommit(s)
  PROVE  DocumentIInv'
<1> DEFINE seen == docSession[s].seen
           new == [d \in DOMAIN seen |-> [seen[d] EXCEPT !.deleted = TRUE]]
<1>1. Write(s, new, << >>) /\ moves' = moves
  BY DEF RevokeCommit
<1>2. \A d \in DOMAIN seen : seen[d] \in DocumentRows
  BY DEF DocumentIInv, Requests, Loaded
<1> HIDE DEF seen
<1>3. DOMAIN new = DOMAIN seen
      /\ \A d \in DOMAIN new : new[d] \in DocumentRows /\ new[d].type = seen[d].type
  BY <1>2 DEF DocumentRows
<1> HIDE DEF new
<1> QED BY <1>1, <1>3, NothingInserted, WriteStep DEF DocumentIInv, seen

\* Every step keeps the invariant.
LEMMA DocumentStepKeeps == DocumentIInv /\ [DocumentNext]_documentVars => DocumentIInv'
<1> SUFFICES ASSUME DocumentIInv, [DocumentNext]_documentVars PROVE DocumentIInv'
  OBVIOUS
<1>1. CASE UNCHANGED documentVars
  BY <1>1 DEF documentVars, DocumentIInv, Sound, Inside, Orderly, GroupRead, Matching, KeysExclusive
<1>2. CASE \E s \in DocumentSessions :
             \/ Revoke(s) \/ DocumentRollback(s)
             \/ \E type \in Types : Upload(s, type) \/ \E d \in Docs : Move(s, d, type)
             \/ \E d \in Docs : Delete(s, d)
  <2>1. PICK s \in DocumentSessions :
          \/ Revoke(s) \/ DocumentRollback(s)
          \/ \E type \in Types : Upload(s, type) \/ \E d \in Docs : Move(s, d, type)
          \/ \E d \in Docs : Delete(s, d)
    BY <1>2
  <2>2. \E type \in Types : \/ Upload(s, type) \/ Revoke(s) \/ DocumentRollback(s)
                            \/ \E d \in Docs : Delete(s, d) \/ Move(s, d, type)
    BY <2>1, TypesAssumption
  <2> QED BY <2>2, BeginStep
<1>3. CASE \E s \in DocumentSessions : MoveLock(s) \/ Scan(s) \/ Read(s)
  BY <1>3, MoveLockStep, ScanStep, ReadStep
<1>4. CASE \E s \in DocumentSessions :
             \/ \E d \in Docs : UploadCommit(s, d)
             \/ DeleteCommit(s) \/ MoveCommit(s) \/ RevokeCommit(s)
  BY <1>4, UploadCommitStep, DeleteCommitStep, MoveCommitStep, RevokeCommitStep
<1> QED BY <1>1, <1>2, <1>3, <1>4 DEF DocumentNext

-----------------------------------------------------------------------------
\* The strengthened invariant holds in every state.
THEOREM DocumentInductive == DocumentSpec => []DocumentIInv
BY DocumentInitHolds, DocumentStepKeeps, PTL DEF DocumentSpec

\* Every variable keeps to its type.
THEOREM DocumentsTypeCorrect == DocumentSpec => []DocumentTypeOK
<1>1. DocumentIInv => DocumentTypeOK
  <2> SUFFICES ASSUME DocumentIInv PROVE DocumentTypeOK
    OBVIOUS
  <2>1. DOMAIN doc \subseteq Docs /\ doc \in [DOMAIN doc -> DocumentRows]
    BY DEF DocumentIInv, Loaded
  <2>2. ASSUME NEW s \in DocumentSessions
        PROVE  /\ docSession[s] \in Requests /\ Inside(s)
               /\ docSession[s].seen \in [DOMAIN docSession[s].seen -> DocumentRows]
               /\ docSession[s].found \in [Filters -> SUBSET DOMAIN docSession[s].seen]
    BY DEF DocumentIInv, Sound, Inside, Requests, Loaded
  <2> QED BY <2>1, <2>2 DEF DocumentIInv, DocumentTypeOK, Inside, Requests
<1> QED BY <1>1, DocumentInductive, PTL

\* The version an upload or a reclassification computes belongs to no document
\* of the type but the one reclassified, however requests overlap
\* (upload_document, _move_document_to_doc_type).
THEOREM ComputedVersionIsFree == DocumentSpec => []VersionIsFree
<1>1. ASSUME DocumentIInv PROVE VersionIsFree
  <2> SUFFICES ASSUME NEW s \in DocumentSessions, docSession[s].op \in {"upload", "move"},
                      docSession[s].todo = << >>
               PROVE  LET type == docSession[s].type
                      IN /\ docSession[s].op = "upload" => docSession[s].target \notin DOMAIN doc
                         /\ VersionFree(type, NextVersion(s, type), {docSession[s].target})
    BY DEF VersionIsFree, Ready, VersionFree
  <2> DEFINE type == docSession[s].type
  <2>1. type \in Types /\ type # Current /\ Sound(s)
    BY <1>1, TypesAssumption DEF DocumentIInv, Requests
  <2>2. type \in docSession[s].keys
    BY <2>1 DEF Sound, Orderly
  <2>3. \A d \in Matching(type) :
          /\ d \in docSession[s].found[type]
          /\ d # docSession[s].target => docSession[s].seen[d] = doc[d]
    BY <2>1, <2>2 DEF Sound, GroupRead
  <2>4. \A d \in docSession[s].found[type] :
          docSession[s].seen[d].version < NextVersion(s, type)
    BY <1>1, <2>1, NextVersionAbove
  <2>5. ASSUME NEW d \in DOMAIN doc \ {docSession[s].target},
               doc[d].type = type, doc[d].version = NextVersion(s, type)
        PROVE  FALSE
    <3>1. d \in Matching(type)
      BY <2>1, <2>5 DEF Matching
    <3>2. doc[d].version < NextVersion(s, type)
      BY <2>3, <2>4, <2>5, <3>1
    <3>3. NextVersion(s, type) \in Nat
      BY <1>1, <2>1, NextVersionAbove
    <3> QED BY <2>5, <3>2, <3>3
  <2>6. docSession[s].op = "upload" => docSession[s].target \notin DOMAIN doc
    BY <1>1, <2>1, DocsAssumption DEF DocumentIInv, Sound, Orderly, Loaded
  <2> QED BY <2>5, <2>6 DEF VersionFree
<1> QED BY <1>1, DocumentInductive, PTL

\* The document of an upload is the only latest one of its type when it is
\* committed, whatever was deleted or given another type while it waited: the
\* first half of CurrentVersionMoves (upload_document).
THEOREM UploadIsLatest ==
  DocumentSpec => [][\A d \in DOMAIN doc' \ DOMAIN doc : UploadSupersedes(d)]_documentVars
<1>1. ASSUME DocumentIInv, NEW s \in DocumentSessions, NEW d \in Docs, UploadCommit(s, d),
             d \in DOMAIN doc' \ DOMAIN doc, NEW e \in DOMAIN doc' \ {d},
             doc'[e].type = doc'[d].type
      PROVE  ~ doc'[e].latest
  <2> DEFINE type == docSession[s].type
             seen == docSession[s].seen
             rowsFound == docSession[s].found[type]
             new == Changed(s, {}, rowsFound)
  <2>1. /\ doc' = [x \in DOMAIN doc \cup {d} |->
                     IF x \in DOMAIN new THEN Updated(s, x, new[x])
                     ELSE IF x \in DOMAIN doc THEN doc[x]
                     ELSE [type |-> type, version |-> NextVersion(s, type),
                           latest |-> TRUE, deleted |-> FALSE]]
        /\ docSession[s].op = "upload" /\ docSession[s].todo = << >>
    BY <1>1 DEF UploadCommit, Ready, Write
  <2>2. /\ type \in Types /\ type # Current /\ type \in docSession[s].keys /\ Sound(s)
        /\ docSession[s].target \notin DOMAIN doc
        /\ rowsFound \subseteq DOMAIN seen /\ DOMAIN seen \subseteq DOMAIN doc
    <3>1. type \in Types /\ type # Current /\ Sound(s) /\ DOMAIN doc \subseteq Docs
      BY <1>1, TypesAssumption DEF DocumentIInv, Requests, Loaded
    <3>2. type \in docSession[s].keys /\ docSession[s].target \notin DOMAIN doc
      BY <2>1, <3>1, DocsAssumption DEF Sound, Orderly
    <3>3. rowsFound \subseteq DOMAIN seen /\ DOMAIN seen \subseteq DOMAIN doc
      BY <3>1, TypesAreFilters DEF Sound, Inside
    <3> QED BY <3>1, <3>2, <3>3
  <2>3. \A x \in DOMAIN doc : doc[x].type = type => x \in rowsFound /\ seen[x] = doc[x]
    BY <2>1, <2>2 DEF Sound, GroupRead, Matching
  <2>4. DOMAIN new = DOMAIN seen /\ doc'[d].type = type /\ e \in DOMAIN doc
    BY <1>1, <2>1, <2>2, ChangedRows
  <2>5. CASE e \in DOMAIN seen
    <3>1. new[e] \in DocumentRows /\ new[e].type = seen[e].type
      BY <1>1, <2>5, ChangedRows
    <3>2. doc'[e] = Updated(s, e, new[e]) /\ Updated(s, e, new[e]).type = doc[e].type
      BY <1>1, <2>1, <2>4, <2>5, <3>1, UpdatedRow
    <3>3. e \in rowsFound /\ seen[e] = doc[e]
      BY <1>1, <2>3, <2>4, <3>2
    <3>4. seen[e] \in DocumentRows
      BY <1>1, <2>5 DEF DocumentIInv, Requests, Loaded
    <3>5. new[e] = [seen[e] EXCEPT !.latest = FALSE]
      <4>1. new[e] = [seen[e] EXCEPT !.latest = e \in {} \/ (seen[e].latest /\ e \notin rowsFound)]
        BY <2>5 DEF Changed
      <4> QED BY <4>1, <3>3
    <3>6. ~ Updated(s, e, new[e]).latest
      <4> DEFINE row == seen[e]
      <4>1. Updated(s, e, new[e]) = [field \in DOMAIN new[e] |->
              IF new[e][field] = row[field] THEN row[field] ELSE new[e][field]]
        BY <3>3 DEF Updated
      <4>2. "latest" \in DOMAIN new[e] /\ new[e].latest = FALSE
        BY <3>1, <3>4, <3>5 DEF DocumentRows
      <4> HIDE DEF row, new
      <4> QED BY <4>1, <4>2
    <3> QED BY <3>2, <3>6
  <2>6. CASE e \notin DOMAIN seen
    BY <1>1, <2>1, <2>2, <2>3, <2>4, <2>6
  <2> QED BY <2>5, <2>6
<1>2. ASSUME DocumentIInv, [DocumentNext]_documentVars, NEW d \in DOMAIN doc' \ DOMAIN doc
      PROVE  \E s \in DocumentSessions : UploadCommit(s, d)
  <2>1. PICK s \in DocumentSessions :
          \/ \E x \in Docs : UploadCommit(s, x)
          \/ DeleteCommit(s) \/ MoveCommit(s) \/ RevokeCommit(s)
    BY <1>2 DEF DocumentNext, documentVars, Upload, Move, Delete, MoveLock, Revoke, Scan, Read,
                DocumentRollback
  <2>2. ASSUME NEW new, Write(s, new, << >>) PROVE DOMAIN doc' = DOMAIN doc
    BY <2>2, NothingInserted DEF Write
  <2>3. PICK x \in Docs : UploadCommit(s, x)
    BY <2>1, <2>2 DEF DeleteCommit, MoveCommit, RevokeCommit
  <2>4. DOMAIN doc' = DOMAIN doc \cup {x}
    BY <2>3 DEF UploadCommit, Write
  <2> QED BY SMTT(30), <2>3, <2>4
<1>3. ASSUME DocumentIInv, [DocumentNext]_documentVars
      PROVE  \A d \in DOMAIN doc' \ DOMAIN doc : UploadSupersedes(d)
  <2> SUFFICES ASSUME NEW d \in DOMAIN doc' \ DOMAIN doc,
                      NEW e \in DOMAIN doc' \ {d}, doc'[e].type = doc'[d].type
               PROVE  ~ doc'[e].latest
    BY DEF UploadSupersedes
  <2>1. PICK s \in DocumentSessions : UploadCommit(s, d)
    BY <1>2, <1>3
  <2>2. d \in Docs
    BY <1>3, DocumentStepKeeps DEF DocumentIInv, Loaded
  <2> QED BY <1>1, <1>3, <2>1, <2>2
<1> QED BY <1>3, DocumentInductive, PTL DEF DocumentSpec

-----------------------------------------------------------------------------
(***************************************************************************)
(* Deletions.  As long as no document has been given another type, what    *)
(* came into a type after the SELECT of a deletion has higher versions     *)
(* than what it found, and is not without a latest one while it is not all *)
(* deleted.  A revocation may have deleted that one, but it stays marked.  *)
(***************************************************************************)

\* What a deletion has found of its type, and what came later.
Group(s) ==
  IF docSession[s].todo = << >> THEN docSession[s].found[docSession[s].type]
  ELSE docSession[s].scan
Later(s) == Matching(docSession[s].type) \ Group(s)

FoundOfType(s) == \A f \in Types : \A d \in docSession[s].found[f] : doc[d].type = f

\* A deletion has loaded its document, then the rows of its type.
RowsLoaded(s) ==
  LET r == docSession[s]
  IN /\ r.todo \in {<< r.type >>, << >>}
     /\ r.target \in DOMAIN r.seen /\ doc[r.target].type = r.type
     /\ ~ r.seen[r.target].deleted
     /\ r.todo # << >> => DOMAIN r.seen = {r.target}
     /\ r.todo = << >> => /\ DOMAIN r.seen = r.found[r.type]
                          /\ \A d \in r.found[r.type] \ {r.target} : r.seen[d] = doc[d]

GroupIsOlder(s) ==
  /\ docSession[s].target \in Group(s) /\ Group(s) \subseteq Matching(docSession[s].type)
  /\ \A d \in Group(s), e \in Later(s) : doc[d].version < doc[e].version

LaterHasLatest(s) ==
  (\E e \in Later(s) : ~ doc[e].deleted) => \E e \in Later(s) : doc[e].latest

Selected(s) == docSession[s].scanned \/ docSession[s].todo = << >>

Deleting(s) ==
  docSession[s].op = "delete" =>
    /\ RowsLoaded(s)
    /\ Selected(s) => GroupIsOlder(s) /\ LaterHasLatest(s)

\* Rows are numbered from 1 on.
DocumentsNumbered == \E n \in Nat : DOMAIN doc = 1 .. n

DeletionIInv ==
  DocumentIInv /\ DocumentsNumbered /\ (moves = 0 => \A s \in DocumentSessions : FoundOfType(s) /\ Deleting(s))

LEMMA DeletionInitHolds == DocumentInit => DeletionIInv
<1> SUFFICES ASSUME DocumentInit PROVE DeletionIInv
  OBVIOUS
<1>1. PICK type \in Types : AtRest = DocumentIdle(type)
  BY DocumentRestIsIdle
<1>2. ASSUME NEW s \in DocumentSessions PROVE FoundOfType(s) /\ Deleting(s)
  BY <1>1 DEF DocumentInit, DocumentIdle, FoundOfType, Deleting, Filters
<1>3. DOMAIN doc = 1 .. 0
  BY NothingInserted DEF DocumentInit
<1> QED BY <1>2, <1>3, DocumentInitHolds DEF DeletionIInv, DocumentsNumbered

\* A request that only reads leaves the others as they were.
LEMMA DeletionReadStep ==
  ASSUME DeletionIInv, DocumentIInv', NEW s \in DocumentSessions, UNCHANGED << doc, moves >>,
         docSession' = [docSession EXCEPT ![s] = docSession'[s]],
         moves = 0 => FoundOfType(s)' /\ Deleting(s)'
  PROVE  DeletionIInv'
<1>1. ASSUME NEW t \in DocumentSessions \ {s} PROVE docSession'[t] = docSession[t]
  BY DEF DeletionIInv, DocumentIInv
<1>2. ASSUME moves = 0, NEW t \in DocumentSessions \ {s}
      PROVE  FoundOfType(t)' /\ Deleting(t)'
  BY <1>1, <1>2 DEF DeletionIInv, FoundOfType, Deleting, RowsLoaded, Selected, GroupIsOlder,
                    LaterHasLatest, Later, Group, Matching
<1> QED BY <1>2 DEF DeletionIInv, DocumentsNumbered

\* A request begins, locks or gives up.
LEMMA DeletionBeginStep ==
  ASSUME DeletionIInv, DocumentIInv', NEW s \in DocumentSessions, NEW type \in Types,
         \/ Upload(s, type) \/ Revoke(s) \/ DocumentRollback(s) \/ MoveLock(s)
  PROVE  DeletionIInv'
<1>1. DocumentIInv
  BY DEF DeletionIInv
<1>2. /\ UNCHANGED << doc, moves >>
      /\ docSession' = [docSession EXCEPT ![s] = docSession'[s]]
  BY <1>1 DEF Upload, Revoke, DocumentRollback, MoveLock, DocumentIInv
<1>3. PICK rest \in Types : AtRest = DocumentIdle(rest)
  BY DocumentRestIsIdle
<1>4. ASSUME moves = 0 PROVE FoundOfType(s)' /\ Deleting(s)'
  <2>1. CASE MoveLock(s)
    <3>1. docSession'[s].op = "move" /\ docSession'[s].found = docSession[s].found
      BY <1>1, <2>1 DEF MoveLock, Requests, DocumentIInv
    <3> QED BY <3>1, <1>2, <1>4 DEF DeletionIInv, FoundOfType, Deleting
  <2>2. CASE Upload(s, type) \/ Revoke(s) \/ DocumentRollback(s)
    <3>1. docSession'[s].op # "delete" /\ docSession'[s].found = [f \in Filters |-> {}]
      <4>1. CASE Upload(s, type)
        BY <1>1, <4>1 DEF Upload, DocumentIdle, DocumentIInv
      <4>2. CASE Revoke(s)
        <5>1. docSession'[s] = [AtRest EXCEPT !.op = "revoke", !.todo = << Current >>]
          BY <1>1, <4>2 DEF Revoke, DocumentIInv
        <5> QED BY <5>1, <1>3 DEF DocumentIdle
      <4>3. CASE DocumentRollback(s)
        <5>1. docSession'[s] = AtRest
          BY <1>1, <4>3 DEF DocumentRollback, DocumentIInv
        <5> QED BY <5>1, <1>3 DEF DocumentIdle
      <4> QED BY <2>2, <4>1, <4>2, <4>3
    <3> QED BY <3>1, TypesAreFilters DEF FoundOfType, Deleting
  <2> QED BY <2>1, <2>2
<1> QED BY <1>2, <1>4, DeletionReadStep

\* A deletion or a reclassification loads its document.
LEMMA DeletionLoadStep ==
  ASSUME DeletionIInv, DocumentIInv', NEW s \in DocumentSessions, NEW type \in Types,
         NEW d \in Docs, Delete(s, d) \/ Move(s, d, type)
  PROVE  DeletionIInv'
<1>1. DocumentIInv
  BY DEF DeletionIInv
<1>2. CASE Delete(s, d)
  <2> DEFINE new == [DocumentIdle(doc[d].type) EXCEPT !.op = "delete", !.target = d,
                       !.todo = << doc[d].type >>, !.seen = [x \in {d} |-> doc[x]]]
  <2>1. docSession' = [docSession EXCEPT ![s] = new] /\ ~ doc[d].deleted
        /\ UNCHANGED << doc, moves >>
    BY <1>2, Zenon DEF Delete
  <2>2. /\ new.found = [f \in Filters |-> {}] /\ ~ new.scanned
        /\ new.type = doc[d].type /\ new.target = d /\ new.todo = << doc[d].type >>
        /\ new.seen = [x \in {d} |-> doc[x]]
    BY DEF DocumentIdle
  <2> HIDE DEF new
  <2>3. docSession'[s] = new /\ docSession' = [docSession EXCEPT ![s] = docSession'[s]]
    BY <1>1, <2>1 DEF DocumentIInv
  <2>4. FoundOfType(s)' /\ RowsLoaded(s)' /\ ~ Selected(s)'
    <3>1. FoundOfType(s)'
      BY <2>2, <2>3, TypesAreFilters DEF FoundOfType
    <3>2. doc' = doc /\ DOMAIN new.seen = {d} /\ new.seen[d] = doc[d]
      BY <2>1, <2>2
    <3> DEFINE select == << doc[d].type >>
    <3>3. select # << >> /\ new.todo = select
      BY <2>2
    <3>4. select = << new.type >>
      BY <2>2
    <3> HIDE DEF select
    <3>5. RowsLoaded(s)'
      BY <2>1, <2>2, <2>3, <3>2, <3>3, <3>4 DEF RowsLoaded
    <3>6. ~ Selected(s)'
      BY <2>2, <2>3, <3>3 DEF Selected
    <3> QED BY <3>1, <3>5, <3>6
  <2> QED BY <2>1, <2>3, <2>4, DeletionReadStep DEF Deleting
<1>3. CASE Move(s, d, type)
  <2> DEFINE new == [DocumentIdle(type) EXCEPT !.op = "move", !.target = d,
                       !.todo = << doc[d].type, type >>, !.seen = [x \in {d} |-> doc[x]]]
  <2>1. docSession' = [docSession EXCEPT ![s] = new] /\ UNCHANGED << doc, moves >>
    BY <1>3, Zenon DEF Move
  <2>2. new.found = [f \in Filters |-> {}] /\ new.op = "move"
    BY DEF DocumentIdle
  <2> HIDE DEF new
  <2>3. docSession'[s] = new /\ docSession' = [docSession EXCEPT ![s] = docSession'[s]]
    BY <1>1, <2>1 DEF DocumentIInv
  <2>4. FoundOfType(s)' /\ Deleting(s)'
    BY <2>2, <2>3, TypesAreFilters DEF FoundOfType, Deleting
  <2> QED BY <2>1, <2>3, <2>4, DeletionReadStep
<1> QED BY <1>2, <1>3

\* A SELECT begins: nothing of the type has come later yet.
LEMMA DeletionScanStep ==
  ASSUME DeletionIInv, DocumentIInv', NEW s \in DocumentSessions, Scan(s)
  PROVE  DeletionIInv'
<1> DEFINE r == docSession[s]
           rows == Matching(Head(r.todo))
<1>1. DocumentIInv /\ r \in Requests /\ Sound(s)
  BY DEF DeletionIInv, DocumentIInv
<1>2. /\ UNCHANGED << doc, moves >>
      /\ docSession' = [docSession EXCEPT ![s] = docSession'[s]]
      /\ docSession'[s] = [r EXCEPT !.scanned = TRUE, !.scan = rows]
      /\ r.todo # << >>
  BY <1>1 DEF Scan, DocumentIInv
<1>3. /\ docSession'[s].op = r.op /\ docSession'[s].todo = r.todo
      /\ docSession'[s].type = r.type /\ docSession'[s].target = r.target
      /\ docSession'[s].seen = r.seen /\ docSession'[s].found = r.found
      /\ docSession'[s].scan = rows
  BY <1>1, <1>2 DEF Requests
<1> HIDE DEF rows
<1>4. ASSUME moves = 0 PROVE FoundOfType(s)' /\ Deleting(s)'
  <2>1. FoundOfType(s)'
    BY <1>2, <1>3, <1>4 DEF DeletionIInv, FoundOfType
  <2>2. ASSUME r.op = "delete" PROVE RowsLoaded(s)' /\ GroupIsOlder(s)' /\ LaterHasLatest(s)'
    <3>1. RowsLoaded(s)
      BY <1>4, <2>2 DEF DeletionIInv, Deleting
    <3>2. RowsLoaded(s)'
      BY <1>2, <1>3, <3>1 DEF RowsLoaded
    <3>3. r.todo = << r.type >> /\ rows = Matching(r.type)
      BY <1>2, <3>1 DEF RowsLoaded, rows
    <3>4. Group(s)' = Matching(r.type) /\ Later(s)' = {} /\ Matching(r.type)' = Matching(r.type)
      BY <1>2, <1>3, <3>3 DEF Group, Later, Matching
    <3>5. r.target \in Matching(r.type)
      BY <1>1, <3>1, TypesAssumption DEF RowsLoaded, Matching, Sound, Inside, Requests
    <3> QED BY <1>3, <3>2, <3>4, <3>5 DEF GroupIsOlder, LaterHasLatest
  <2> QED BY <1>3, <2>1, <2>2 DEF Deleting
<1> QED BY <1>2, <1>4, DeletionReadStep

\* A SELECT has waited: the group is what it had found.
LEMMA DeletionGroupStep ==
  ASSUME DeletionIInv, DocumentIInv', NEW s \in DocumentSessions, Read(s)
  PROVE  DeletionIInv'
<1> DEFINE r == docSession[s]
           filter == Head(r.todo)
           rowsFound == r.scan \cap Matching(filter)
           seen == [d \in DOMAIN r.seen \cup rowsFound |->
                      IF d \in DOMAIN r.seen THEN r.seen[d] ELSE doc[d]]
           locks == [r.found EXCEPT ![filter] = rowsFound]
           rest == Tail(r.todo)
<1>0. DocumentIInv
  BY DEF DeletionIInv
<1>1. r \in Requests /\ Sound(s)
  BY <1>0 DEF DocumentIInv
<1>2. /\ UNCHANGED << doc, moves >>
      /\ docSession' = [docSession EXCEPT ![s] = docSession'[s]]
      /\ docSession'[s] = [r EXCEPT !.scanned = FALSE, !.scan = {}, !.todo = rest,
                                    !.found = locks, !.seen = seen]
      /\ r.scanned
  BY <1>0, ReadRequest, Zenon DEF AfterRead, RowsRead, RowsKnown
<1>3. r.todo \in Seq(Filters) /\ r.todo # << >> /\ r.found \in [Filters -> SUBSET Docs]
  BY <1>1, <1>2 DEF Requests, Sound, Orderly
<1>4. filter \in Filters
  BY <1>3
<1>5. \A f \in Filters : locks[f] = IF f = filter THEN rowsFound ELSE r.found[f]
  BY <1>3, <1>4
<1>6. DOMAIN seen = DOMAIN r.seen \cup rowsFound
      /\ \A d \in DOMAIN seen : seen[d] = IF d \in DOMAIN r.seen THEN r.seen[d] ELSE doc[d]
  OBVIOUS
<1> HIDE DEF filter, rowsFound, seen, locks, rest
<1>7. /\ docSession'[s].op = r.op /\ docSession'[s].todo = rest
      /\ docSession'[s].type = r.type /\ docSession'[s].target = r.target
      /\ docSession'[s].seen = seen /\ docSession'[s].found = locks
  BY <1>1, <1>2 DEF Requests
<1>8. ASSUME moves = 0 PROVE FoundOfType(s)' /\ Deleting(s)'
  <2>1. FoundOfType(s)'
    <3>1. FoundOfType(s)
      BY <1>8 DEF DeletionIInv
    <3>2. filter \in Types => \A d \in rowsFound : doc[d].type = filter
      BY TypesAssumption DEF rowsFound, Matching
    <3> QED BY <1>2, <1>5, <1>7, <3>1, <3>2, TypesAreFilters DEF FoundOfType
  <2>2. ASSUME r.op = "delete" PROVE RowsLoaded(s)' /\ GroupIsOlder(s)' /\ LaterHasLatest(s)'
    <3>1. RowsLoaded(s) /\ GroupIsOlder(s) /\ LaterHasLatest(s)
      BY <1>2, <1>8, <2>2 DEF DeletionIInv, Deleting, Selected
    <3>2. r.todo = << r.type >> /\ DOMAIN r.seen = {r.target}
      BY <1>3, <3>1 DEF RowsLoaded
    <3>3. filter = r.type /\ rest = << >>
      BY <3>2 DEF filter, rest
    <3>4. Group(s) = r.scan /\ rowsFound = r.scan
      BY <1>3, <3>1, <3>3 DEF Group, GroupIsOlder, rowsFound
    <3>5. locks[r.type] = r.scan
      BY <1>4, <1>5, <3>3, <3>4
    <3>6. Group(s)' = Group(s) /\ Later(s)' = Later(s)
      BY <1>2, <1>7, <3>3, <3>4, <3>5 DEF Group, Later, Matching
    <3>7. GroupIsOlder(s)' /\ LaterHasLatest(s)'
      BY <1>2, <1>7, <3>1, <3>6 DEF GroupIsOlder, LaterHasLatest, Matching
    <3>8. DOMAIN seen = r.scan /\ r.target \in r.scan
      BY <1>6, <3>1, <3>2, <3>4 DEF GroupIsOlder
    <3>9. RowsLoaded(s)'
      BY <1>2, <1>6, <1>7, <3>1, <3>2, <3>3, <3>5, <3>8 DEF RowsLoaded
    <3> QED BY <3>7, <3>9
  <2> QED BY <1>7, <2>1, <2>2 DEF Deleting
<1> QED BY <1>2, <1>8, DeletionReadStep

\* What came later than the SELECT of another deletion keeps a latest document,
\* and what is inserted comes later.
LaterKept(s, inserted) ==
  \A t \in DocumentSessions \ {s} :
    LET Came(e) == inserted[e].type = docSession[t].type
    IN docSession[t].op = "delete" /\ RowsLoaded(t) /\ GroupIsOlder(t) /\ LaterHasLatest(t) =>
         /\ \A e \in DOMAIN inserted : Came(e) =>
              \A d \in Group(t) : doc[d].version < inserted[e].version
         /\ (\E e \in Later(t) : ~ doc'[e].deleted) \/ (\E e \in DOMAIN inserted : Came(e)) =>
              \/ \E e \in Later(t) : doc'[e].latest
              \/ \E e \in DOMAIN inserted : Came(e) /\ inserted[e].latest

\* A commit that gives no document another type: of a deletion that has made
\* its SELECT it need only be said what it does to what has come later.
LEMMA DeletionCommitStep ==
  ASSUME DeletionIInv, DocumentIInv', NEW s \in DocumentSessions, NEW new, NEW inserted,
         Write(s, new, inserted), moves' = moves,
         DOMAIN new = DOMAIN docSession[s].seen, DOMAIN inserted \cap DOMAIN doc = {}, DocumentsNumbered',
         \A d \in DOMAIN new : /\ new[d] \in DocumentRows
                               /\ new[d].type = docSession[s].seen[d].type
                               /\ new[d].version = docSession[s].seen[d].version,
         moves = 0 => LaterKept(s, inserted)
  PROVE  DeletionIInv'
<1>1. DocumentIInv
  BY DEF DeletionIInv
<1>2. /\ docSession' = [docSession EXCEPT ![s] = AtRest]
      /\ DOMAIN doc' = DOMAIN doc \cup DOMAIN inserted
      /\ \A d \in DOMAIN inserted : doc'[d] = inserted[d]
  <2>1. DOMAIN new \subseteq DOMAIN doc
    BY <1>1 DEF DocumentIInv, Sound, Inside
  <2> QED BY <2>1 DEF Write
<1>3. \A d \in DOMAIN doc : doc'[d].type = doc[d].type /\ doc'[d].version = doc[d].version
  BY <1>1, WrittenRow
<1>4. \A t \in DocumentSessions \ {s} : docSession'[t] = docSession[t]
  BY <1>2
<1>5. \A t \in DocumentSessions \ {s} : \A d \in Locked(t) : doc'[d] = doc[d]
  BY <1>1, LockedRowsStay
<1>6. FoundOfType(s)' /\ Deleting(s)'
  <2>1. PICK type \in Types : AtRest = DocumentIdle(type)
    BY DocumentRestIsIdle
  <2>2. docSession'[s] = AtRest
    BY <1>1, <1>2 DEF DocumentIInv
  <2> QED BY <2>1, <2>2, TypesAreFilters DEF DocumentIdle, FoundOfType, Deleting
<1>7. ASSUME moves = 0, NEW t \in DocumentSessions \ {s}
      PROVE  FoundOfType(t)' /\ Deleting(t)'
  <2>1. Inside(t) /\ FoundOfType(t) /\ Deleting(t) /\ docSession[t] \in Requests
    BY <1>1, <1>7 DEF DeletionIInv, DocumentIInv, Sound
  <2>2. docSession'[t] = docSession[t] /\ docSession[t].type \in Types /\ docSession[t].type # Current
    BY <1>4, <2>1, TypesAssumption DEF Requests
  <2>3. FoundOfType(t)'
    BY <1>3, <2>1, <2>2, TypesAreFilters DEF FoundOfType, Inside
  <2>4. ASSUME docSession[t].op = "delete" PROVE RowsLoaded(t)'
    <3>1. \A d \in docSession[t].found[docSession[t].type] : doc'[d] = doc[d]
      BY <1>5, <2>2, TypesAreFilters DEF Locked
    <3>2. docSession[t].target \in DOMAIN docSession[t].seen => docSession[t].target \in DOMAIN doc
      BY <2>1 DEF Inside
    <3> QED BY <1>3, <2>1, <2>2, <2>4, <3>1, <3>2 DEF Deleting, RowsLoaded
  <2>5. ASSUME docSession[t].op = "delete", Selected(t) PROVE GroupIsOlder(t)' /\ LaterHasLatest(t)'
    <3> DEFINE type == docSession[t].type
               came == {e \in DOMAIN inserted : inserted[e].type = type}
    <3>1. RowsLoaded(t) /\ GroupIsOlder(t) /\ LaterHasLatest(t)
      BY <2>1, <2>5 DEF Deleting
    <3>2. Matching(type) \subseteq DOMAIN doc
      BY DEF Matching
    <3>3. Group(t)' = Group(t) /\ Matching(docSession[t].type)' = Matching(type) \cup came
      BY <1>2, <1>3, <2>2 DEF Group, Matching
    <3>4. Group(t) \subseteq DOMAIN doc /\ came \cap DOMAIN doc = {}
      BY <3>1, <3>2 DEF GroupIsOlder
    <3>5. Later(t)' = Later(t) \cup came
      BY <2>2, <3>3, <3>4 DEF Later
    <3>6. \A e \in came : \A d \in Group(t) : doc[d].version < inserted[e].version
      BY <1>7, <2>5, <3>1 DEF LaterKept
    <3>7. GroupIsOlder(t)'
      <4>1. docSession'[t].target \in Group(t)' /\ Group(t)' \subseteq Matching(docSession[t].type)'
        BY <2>2, <3>1, <3>3 DEF GroupIsOlder
      <4>2. ASSUME NEW d \in Group(t), NEW e \in Later(t) \cup came
            PROVE  doc'[d].version < doc'[e].version
        BY <1>2, <1>3, <3>1, <3>2, <3>4, <3>6 DEF GroupIsOlder, Later
      <4> QED BY <2>2, <3>3, <3>5, <4>1, <4>2 DEF GroupIsOlder
    <3>8. LaterHasLatest(t)'
      <4>1. (\E e \in Later(t) : ~ doc'[e].deleted) \/ (\E e \in came : TRUE) =>
              (\E e \in Later(t) : doc'[e].latest) \/ (\E e \in came : inserted[e].latest)
        BY <1>7, <2>5, <3>1 DEF LaterKept
      <4> QED BY <1>2, <3>5, <4>1 DEF LaterHasLatest
    <3> QED BY <3>7, <3>8
  <2> QED BY <2>2, <2>3, <2>4, <2>5 DEF Deleting, Selected
<1> QED BY <1>6, <1>7 DEF DeletionIInv

\* The document of an upload is a new one.
LEMMA UploadIsNew ==
  ASSUME DocumentsNumbered, NEW d, d = Cardinality(DOMAIN doc) + 1
  PROVE  d \notin DOMAIN doc /\ \E n \in Nat : DOMAIN doc \cup {d} = 1 .. n
<1>1. PICK n \in Nat : DOMAIN doc = 1 .. n
  BY DEF DocumentsNumbered
<1>2. d = n + 1
  <2>1. Cardinality(1 .. n) = IF 1 > n THEN 0 ELSE n - 1 + 1
    BY FS_Interval
  <2>2. Cardinality(1 .. n) = n
    BY <2>1
  <2> QED BY <1>1, <2>2
<1>3. d \notin 1 .. n /\ (1 .. n) \cup {d} = 1 .. (n + 1) /\ n + 1 \in Nat
  BY <1>2
<1> QED BY <1>1, <1>3

\* An upload brings its type a latest document with the highest version.
LEMMA DeletionUploadStep ==
  ASSUME DeletionIInv, DocumentIInv', NEW s \in DocumentSessions, NEW d \in Docs, UploadCommit(s, d)
  PROVE  DeletionIInv'
<1> DEFINE type == docSession[s].type
           seen == docSession[s].seen
           rowsFound == docSession[s].found[type]
           version == NextVersion(s, type)
           new == Changed(s, {}, rowsFound)
           inserted == [x \in {d} |-> [type |-> type, version |-> version,
                                       latest |-> TRUE, deleted |-> FALSE]]
<1>1. DocumentIInv
  BY DEF DeletionIInv
<1>2. /\ Write(s, new, inserted) /\ moves' = moves /\ d = Cardinality(DOMAIN doc) + 1
      /\ docSession[s].op = "upload" /\ docSession[s].todo = << >>
  BY DEF UploadCommit, Ready
<1>3. /\ type \in Types /\ type # Current /\ type \in docSession[s].keys /\ Sound(s)
      /\ docSession[s].target = NoDoc /\ DOMAIN doc \subseteq Docs
  BY <1>1, <1>2, TypesAssumption DEF DocumentIInv, Sound, Orderly, Requests, Loaded
<1>4. \A x \in Matching(type) : x \in rowsFound /\ seen[x] = doc[x]
  BY <1>2, <1>3, DocsAssumption DEF Sound, GroupRead, Matching
<1>5. \A x \in Matching(type) : doc[x].version < version
  BY <1>1, <1>3, <1>4, NextVersionAbove
<1>6. DOMAIN inserted = {d} /\ inserted[d].type = type /\ inserted[d].version = version
      /\ inserted[d].latest
  OBVIOUS
<1>7. \A x \in DOMAIN new : /\ new[x] \in DocumentRows
                            /\ new[x].type = seen[x].type /\ new[x].version = seen[x].version
                            /\ new[x].deleted = seen[x].deleted
                            /\ x \notin rowsFound => new[x].latest = seen[x].latest
  <2> SUFFICES ASSUME NEW x \in DOMAIN seen
               PROVE  /\ new[x] \in DocumentRows
                      /\ new[x].type = seen[x].type /\ new[x].version = seen[x].version
                      /\ new[x].deleted = seen[x].deleted
                      /\ x \notin rowsFound => new[x].latest = seen[x].latest
    BY <1>1, ChangedRows
  <2>1. new[x] \in DocumentRows /\ new[x].type = seen[x].type
    BY <1>1, ChangedRows
  <2>2. /\ seen[x] \in DocumentRows
        /\ new[x].version = seen[x].version /\ new[x].deleted = seen[x].deleted
        /\ new[x].latest = (x \in {} \/ (seen[x].latest /\ x \notin rowsFound))
    BY <1>1, ChangedFields
  <2>3. seen[x].latest \in BOOLEAN
    BY <2>2 DEF DocumentRows
  <2> HIDE DEF new, seen, rowsFound
  <2> QED BY <2>1, <2>2, <2>3
<1>8. DOMAIN new = DOMAIN seen
  BY <1>1, ChangedRows
<1> HIDE DEF new, inserted, version, seen, rowsFound
<1>9. ASSUME NEW x \in DOMAIN doc, x \notin rowsFound
      PROVE  doc'[x].latest = doc[x].latest /\ doc'[x].deleted = doc[x].deleted
  BY <1>1, <1>2, <1>7, <1>8, <1>9, WrittenRow DEF seen
<1>10. ASSUME moves = 0 PROVE LaterKept(s, inserted)
  <2> SUFFICES ASSUME NEW t \in DocumentSessions \ {s},
                      GroupIsOlder(t), LaterHasLatest(t)
               PROVE  /\ \A e \in DOMAIN inserted : inserted[e].type = docSession[t].type =>
                           \A x \in Group(t) : doc[x].version < inserted[e].version
                      /\ (\E e \in Later(t) : ~ doc'[e].deleted) \/
                         (\E e \in DOMAIN inserted : inserted[e].type = docSession[t].type) =>
                           \/ \E e \in Later(t) : doc'[e].latest
                           \/ \E e \in DOMAIN inserted :
                                inserted[e].type = docSession[t].type /\ inserted[e].latest
    BY DEF LaterKept
  <2>1. CASE docSession[t].type = type
    BY <1>5, <1>6, <1>10, <2>1 DEF GroupIsOlder
  <2>2. CASE docSession[t].type # type
    <3>1. docSession[t].type \in Types /\ docSession[t].type # Current
      BY <1>1, TypesAssumption DEF DocumentIInv, Requests
    <3>2. \A x \in rowsFound : doc[x].type = type
      BY <1>3, <1>10 DEF DeletionIInv, FoundOfType, rowsFound
    <3>3. \A x \in Later(t) : x \in DOMAIN doc /\ doc[x].type # type
      BY <2>2, <3>1 DEF Later, Matching
    <3>4. \A x \in Later(t) : doc'[x].latest = doc[x].latest /\ doc'[x].deleted = doc[x].deleted
      BY <1>9, <3>2, <3>3
    <3> QED BY <1>6, <1>10, <2>2, <3>4 DEF LaterHasLatest
  <2> QED BY <2>1, <2>2
<1>11. DOMAIN inserted \cap DOMAIN doc = {} /\ DocumentsNumbered'
  <2>1. d \notin DOMAIN doc /\ \E n \in Nat : DOMAIN doc \cup {d} = 1 .. n
    BY <1>2, UploadIsNew DEF DeletionIInv
  <2>2. DOMAIN doc' = DOMAIN doc \cup {d}
    BY <1>2, <1>6 DEF Write
  <2> QED BY <1>6, <2>1, <2>2 DEF DocumentsNumbered
<1> QED BY <1>2, <1>7, <1>8, <1>10, <1>11, DeletionCommitStep DEF seen

\* A revocation deletes rows and leaves the latest marks.
LEMMA DeletionRevokeStep ==
  ASSUME DeletionIInv, DocumentIInv', NEW s \in DocumentSessions, RevokeCommit(s)
  PROVE  DeletionIInv'
<1> DEFINE seen == docSession[s].seen
           new == [d \in DOMAIN seen |-> [seen[d] EXCEPT !.deleted = TRUE]]
           none == << >>
<1>1. Write(s, new, none) /\ moves' = moves /\ DocumentIInv /\ DOMAIN none = {}
  BY NothingInserted DEF RevokeCommit, DeletionIInv
<1>2. \A d \in DOMAIN seen : seen[d] \in DocumentRows
  BY <1>1 DEF DocumentIInv, Requests, Loaded
<1> HIDE DEF seen, none
<1>3. DOMAIN new = DOMAIN seen
      /\ \A d \in DOMAIN new : /\ new[d] \in DocumentRows
                               /\ new[d].type = seen[d].type /\ new[d].version = seen[d].version
                               /\ new[d].latest = seen[d].latest /\ new[d].deleted
  BY <1>2 DEF DocumentRows
<1> HIDE DEF new
<1>4. \A d \in DOMAIN doc : doc[d] \in DocumentRows
  BY <1>1 DEF DocumentIInv, Loaded
<1>5. ASSUME NEW d \in DOMAIN doc
      PROVE  doc'[d].latest = doc[d].latest /\ (~ doc'[d].deleted => ~ doc[d].deleted)
  BY <1>1, <1>3, <1>5, WrittenRow DEF seen
<1>6. ASSUME NEW t \in DocumentSessions, LaterHasLatest(t)
      PROVE  (\E e \in Later(t) : ~ doc'[e].deleted) => \E e \in Later(t) : doc'[e].latest
  <2>1. Later(t) \subseteq DOMAIN doc
    BY DEF Later, Matching
  <2> QED BY <1>5, <1>6, <2>1 DEF LaterHasLatest
<1>7. DocumentsNumbered'
  <2>1. DOMAIN doc' = DOMAIN doc
    BY <1>1 DEF Write
  <2> QED BY <2>1 DEF DeletionIInv, DocumentsNumbered
<1>8. LaterKept(s, none)
  BY <1>1, <1>6 DEF LaterKept
<1>9. DOMAIN none \cap DOMAIN doc = {}
  BY <1>1
<1>10. /\ DOMAIN new = DOMAIN docSession[s].seen
       /\ \A d \in DOMAIN new : /\ new[d] \in DocumentRows
                                /\ new[d].type = docSession[s].seen[d].type
                                /\ new[d].version = docSession[s].seen[d].version
  BY <1>3 DEF seen
<1> QED BY <1>1, <1>7, <1>8, <1>9, <1>10, DeletionCommitStep

\* Of the undeleted documents a deletion has found, but its own, one with the
\* highest version becomes the latest.
LEMMA ReplacementFound ==
  ASSUME DocumentIInv, NEW s \in DocumentSessions, NEW type \in Types,
         NEW e \in docSession[s].found[type] \ {docSession[s].target},
         ~ docSession[s].seen[e].deleted
  PROVE  \E r \in Replacement(s, type) :
           docSession[s].seen[e].version <= docSession[s].seen[r].version
<1> DEFINE seen == docSession[s].seen
           live == {d \in docSession[s].found[type] \ {docSession[s].target} : ~ seen[d].deleted}
           versions == {seen[d].version : d \in live}
<1>1. live \subseteq Docs /\ \A d \in live : seen[d].version \in Nat
  <2>1. live \subseteq Docs /\ live \subseteq DOMAIN seen
    BY TypesAreFilters DEF DocumentIInv, Sound, Inside, Requests
  <2>2. \A d \in DOMAIN seen : seen[d] \in DocumentRows
    BY DEF DocumentIInv, Requests, Loaded
  <2> QED BY <2>1, <2>2 DEF DocumentRows
<1>2. IsFiniteSet(versions)
  <2> DEFINE f == [d \in live |-> seen[d].version]
  <2>1. IsFiniteSet(live)
    BY <1>1, DocsAssumption, FS_Subset
  <2> HIDE DEF live
  <2>2. f \in Surjection(live, versions)
    BY DEF Surjection
  <2> QED BY <2>1, <2>2, FS_Surjection, FS_CardinalityType
<1>3. versions \in SUBSET Nat /\ e \in live
  BY <1>1
<1>4. seen[e].version \in versions
  BY <1>3
<1>5. Max(versions) \in versions /\ \A n \in versions : n <= Max(versions)
  <2> HIDE DEF versions
  <2> QED BY <1>2, <1>3, <1>4, MaxOfFinite
<1>6. PICK r \in live : seen[r].version = Max(versions)
  BY <1>5
<1>7. \A d \in live : seen[d].version <= seen[r].version
  BY <1>5, <1>6
<1> QED BY <1>3, <1>6, <1>7 DEF Replacement

\* What a deletion makes of the rows it has found.
LEMMA DeletionEffect ==
  ASSUME DeletionIInv, NEW s \in DocumentSessions, DeleteCommit(s), moves = 0
  PROVE  LET x == docSession[s].target
         IN /\ DOMAIN doc' = DOMAIN doc
            /\ \A d \in DOMAIN doc \ Group(s) : doc'[d] = doc[d]
            /\ \A d \in DOMAIN doc : doc'[d].type = doc[d].type
            /\ doc'[x].deleted
            /\ \A d \in Group(s) \ {x} :
                 /\ doc'[d].deleted = doc[d].deleted
                 /\ doc[d].latest => doc'[d].latest
                 /\ ~ doc[d].deleted =>
                      \E r \in Group(s) \ {x} : /\ doc'[r].latest /\ ~ doc'[r].deleted
                                                /\ doc[d].version <= doc[r].version
            /\ \A d \in Group(s) : d \in DOMAIN doc /\ doc[d].type = docSession[s].type
            /\ GroupIsOlder(s) /\ LaterHasLatest(s)
            /\ DOMAIN docSession[s].seen = Group(s)
<1> DEFINE x == docSession[s].target
           type == docSession[s].type
           seen == docSession[s].seen
           current == Replacement(s, type)
           others == Changed(s, current, {x})
           new == [others EXCEPT ![x].deleted = TRUE]
<1>1. /\ DocumentIInv /\ Write(s, new, << >>)
      /\ docSession[s].op = "delete" /\ docSession[s].todo = << >>
  BY DEF DeleteCommit, Ready, DeletionIInv
<1>2. type \in Types /\ type # Current
  BY <1>1, TypesAssumption DEF DocumentIInv, Requests
<1>3. RowsLoaded(s) /\ GroupIsOlder(s) /\ LaterHasLatest(s)
  BY <1>1 DEF DeletionIInv, Deleting, Selected
<1>4. /\ Group(s) = docSession[s].found[type] /\ DOMAIN seen = Group(s)
      /\ x \in Group(s) /\ ~ seen[x].deleted
      /\ \A d \in Group(s) \ {x} : seen[d] = doc[d]
  BY <1>1, <1>3 DEF Group, RowsLoaded, GroupIsOlder
<1>5. \A d \in Group(s) : d \in DOMAIN doc /\ doc[d].type = type
  BY <1>2, <1>3 DEF GroupIsOlder, Matching
<1>6. \A d \in Group(s) :
        /\ others[d] \in DocumentRows /\ seen[d] \in DocumentRows
        /\ others[d].deleted = seen[d].deleted
        /\ others[d].latest = (d \in current \/ (seen[d].latest /\ d \notin {x}))
  BY <1>1, <1>4, ChangedRows, ChangedFields
<1>7. DOMAIN others = Group(s)
  BY <1>1, <1>4, ChangedRows
<1>8. current \subseteq Group(s) \ {x} /\ \A d \in current : ~ seen[d].deleted
  BY <1>4 DEF Replacement
<1>9. \A e \in Group(s) \ {x} : ~ seen[e].deleted =>
        \E r \in current : seen[e].version <= seen[r].version
  BY <1>1, <1>2, <1>4, ReplacementFound
<1> HIDE DEF others, current
<1>10. /\ DOMAIN new = Group(s)
       /\ \A d \in Group(s) : new[d] \in DocumentRows
       /\ new[x].deleted = TRUE
       /\ \A d \in Group(s) \ {x} : new[d] = others[d]
  BY <1>4, <1>6, <1>7 DEF DocumentRows
<1> HIDE DEF new
<1>11. ASSUME NEW d \in Group(s) \ {x}
       PROVE  /\ doc'[d].deleted = doc[d].deleted
              /\ doc[d].latest => doc'[d].latest
              /\ d \in current => doc'[d].latest
  <2>1. /\ doc'[d].deleted = IF new[d].deleted = seen[d].deleted THEN doc[d].deleted
                             ELSE new[d].deleted
        /\ doc'[d].latest = IF new[d].latest = seen[d].latest THEN doc[d].latest
                            ELSE new[d].latest
    BY <1>1, <1>4, <1>5, <1>10, WrittenRow
  <2>2. new[d].deleted = seen[d].deleted
        /\ new[d].latest = (d \in current \/ seen[d].latest)
        /\ seen[d] = doc[d] /\ doc[d].latest \in BOOLEAN
    <3>1. seen[d] = doc[d] /\ new[d] = others[d] /\ seen[d].latest \in BOOLEAN
      BY <1>4, <1>6, <1>10 DEF DocumentRows
    <3> QED BY <1>6, <3>1
  <2> QED BY <2>1, <2>2
<1>12. doc'[x].deleted
  BY <1>1, <1>4, <1>5, <1>10, WrittenRow
<1>13. DOMAIN doc' = DOMAIN doc /\ \A d \in DOMAIN doc \ Group(s) : doc'[d] = doc[d]
  BY <1>1, <1>10, NothingInserted DEF Write
<1>14. ASSUME NEW d \in Group(s) \ {x}, ~ doc[d].deleted
       PROVE  \E r \in Group(s) \ {x} : /\ doc'[r].latest /\ ~ doc'[r].deleted
                                        /\ doc[d].version <= doc[r].version
  <2>1. PICK r \in current : seen[d].version <= seen[r].version
    BY <1>4, <1>9, <1>14
  <2>2. r \in Group(s) \ {x} /\ ~ seen[r].deleted
    BY <1>8, <2>1
  <2> QED BY <1>4, <1>11, <2>1, <2>2
<1>15. \A d \in DOMAIN doc : doc'[d].type = doc[d].type
  <2>1. ASSUME NEW d \in Group(s) PROVE new[d].type = seen[d].type
    BY <1>1, <1>4, <1>6, <1>7, ChangedRows DEF new, others, DocumentRows
  <2> QED BY <1>1, <1>4, <1>10, <1>13, <2>1, WrittenRow
<1> QED BY <1>3, <1>4, <1>5, <1>11, <1>12, <1>13, <1>14, <1>15

\* A deletion chooses the latest among what it has found; what another one
\* takes for later has its latest among that or among what came later still.
LEMMA DeletionDeleteStep ==
  ASSUME DeletionIInv, DocumentIInv', NEW s \in DocumentSessions, DeleteCommit(s)
  PROVE  DeletionIInv'
<1> DEFINE x == docSession[s].target
           seen == docSession[s].seen
           others == Changed(s, Replacement(s, docSession[s].type), {x})
           new == [others EXCEPT ![x].deleted = TRUE]
           none == << >>
<1>1. Write(s, new, none) /\ moves' = moves /\ DocumentIInv
  BY DEF DeleteCommit, DeletionIInv
<1>2. DOMAIN none = {}
  BY NothingInserted
<1>3. /\ DOMAIN others = DOMAIN seen
      /\ \A d \in DOMAIN seen : /\ others[d] \in DocumentRows
                                /\ others[d].type = seen[d].type
                                /\ others[d].version = seen[d].version
  BY <1>1, ChangedRows, ChangedFields
<1> HIDE DEF others, none, seen
<1>4. /\ DOMAIN new = DOMAIN seen
      /\ \A d \in DOMAIN new : /\ new[d] \in DocumentRows
                               /\ new[d].type = seen[d].type /\ new[d].version = seen[d].version
  BY <1>3 DEF DocumentRows
<1> HIDE DEF new
<1>5. ASSUME NEW t \in DocumentSessions \ {s}, moves = 0, docSession[t].op = "delete",
             RowsLoaded(t), GroupIsOlder(t), LaterHasLatest(t),
             NEW e \in Later(t), ~ doc'[e].deleted
      PROVE  \E f \in Later(t) : doc'[f].latest
  <2> DEFINE type == docSession[t].type
  <2>1. type \in Types /\ type # Current
    BY <1>1, TypesAssumption DEF DocumentIInv, Requests
  <2>2. \A d \in DOMAIN doc : doc[d].version \in Nat
    BY <1>1 DEF DocumentIInv, Loaded, DocumentRows
  <2>3. /\ \A d \in Later(t) : d \in DOMAIN doc /\ doc[d].type = type
        /\ \A d \in DOMAIN doc : doc[d].type = type => d \in Group(t) \/ d \in Later(t)
        /\ \A d \in Group(t) : d \in DOMAIN doc /\ \A f \in Later(t) : doc[d].version < doc[f].version
    BY <1>5, <2>1 DEF Later, Matching, GroupIsOlder
  <2>4. CASE docSession[s].type = type
    <3>1. /\ \A d \in Later(s) : d \in DOMAIN doc /\ doc[d].type = type /\ d \notin Group(s)
          /\ \A d \in DOMAIN doc : doc[d].type = type => d \in Group(s) \/ d \in Later(s)
      BY <2>1, <2>4 DEF Later, Matching
    <3>2. /\ x \in Group(s) /\ \A d \in Later(s) : doc[x].version < doc[d].version
          /\ \A d \in DOMAIN doc \ Group(s) : doc'[d] = doc[d]
          /\ LaterHasLatest(s) /\ e # x
      BY <1>5, DeletionEffect DEF GroupIsOlder
    <3>3. e \in DOMAIN doc /\ ~ doc[e].deleted
      BY <1>5, <2>3, <3>2, DeletionEffect
    <3>4. PICK y \in Later(t) : doc[y].latest
      BY <1>5, <3>3 DEF LaterHasLatest
    <3>5. CASE y # x
      <4>1. doc'[y].latest
        BY <1>5, <2>3, <3>2, <3>4, <3>5, DeletionEffect
      <4> QED BY <4>1
    <3>6. CASE x = y /\ e \in Group(s)
      <4>1. PICK r \in Group(s) \ {x} : doc'[r].latest /\ doc[e].version <= doc[r].version
        BY <1>5, <3>2, <3>3, <3>6, DeletionEffect
      <4>2. r \in DOMAIN doc /\ doc[r].type = type
        BY <1>5, <2>4, DeletionEffect
      <4>3. r \notin Group(t)
        BY <1>5, <2>2, <2>3, <3>3, <4>1, <4>2
      <4> QED BY <2>3, <4>1, <4>2, <4>3
    <3>7. CASE x = y /\ e \in Later(s)
      <4>1. PICK z \in Later(s) : doc[z].latest
        BY <3>2, <3>3, <3>7 DEF LaterHasLatest
      <4>2. /\ z \in DOMAIN doc /\ doc[z].type = type /\ doc'[z].latest
            /\ doc[x].version < doc[z].version /\ x \in DOMAIN doc
        BY <2>3, <3>1, <3>2, <3>7, <4>1
      <4>3. z \notin Group(t)
        BY <2>2, <2>3, <3>4, <3>7, <4>2
      <4> QED BY <2>3, <4>2, <4>3
    <3> QED BY <2>3, <3>1, <3>3, <3>5, <3>6, <3>7, <1>5
  <2>5. CASE docSession[s].type # type
    <3>1. \A d \in Later(t) : doc'[d] = doc[d]
      BY <1>5, <2>3, <2>5, DeletionEffect
    <3> QED BY <1>5, <3>1 DEF LaterHasLatest
  <2> QED BY <2>4, <2>5
<1>6. DocumentsNumbered'
  <2>1. DOMAIN doc' = DOMAIN doc
    BY <1>1, <1>2 DEF Write
  <2> QED BY <2>1 DEF DeletionIInv, DocumentsNumbered
<1>8. moves = 0 => LaterKept(s, none)
  BY <1>2, <1>5 DEF LaterKept
<1>9. DOMAIN none \cap DOMAIN doc = {}
  BY <1>2
<1>10. /\ DOMAIN new = DOMAIN docSession[s].seen
       /\ \A d \in DOMAIN new : /\ new[d] \in DocumentRows
                                /\ new[d].type = docSession[s].seen[d].type
                                /\ new[d].version = docSession[s].seen[d].version
  BY <1>4 DEF seen
<1> QED BY <1>1, <1>6, <1>8, <1>9, <1>10, DeletionCommitStep

\* After a reclassification there is nothing to keep.
LEMMA DeletionMoveStep ==
  ASSUME DeletionIInv, DocumentIInv', NEW s \in DocumentSessions, MoveCommit(s)
  PROVE  DeletionIInv'
<1>1. moves \in Nat /\ moves' = moves + 1
  <2>1. moves' = moves + 1
    BY DEF MoveCommit
  <2>2. moves \in 0 .. MaxMoves
    BY DEF DeletionIInv, DocumentIInv
  <2> QED BY SMTT(30), <2>1, <2>2, DocsAssumption
<1>2. moves' # 0
  BY SMTT(30), <1>1
<1>3. DOMAIN doc' = DOMAIN doc
  BY NothingInserted DEF MoveCommit, Write
<1> QED BY <1>2, <1>3 DEF DeletionIInv, DocumentsNumbered

LEMMA DeletionStepKeeps == DeletionIInv /\ [DocumentNext]_documentVars => DeletionIInv'
<1> SUFFICES ASSUME DeletionIInv, [DocumentNext]_documentVars PROVE DeletionIInv'
  OBVIOUS
<1>1. DocumentIInv'
  BY DocumentStepKeeps DEF DeletionIInv
<1>2. CASE UNCHANGED documentVars
  BY <1>1, <1>2 DEF documentVars, DeletionIInv, DocumentsNumbered, FoundOfType, Deleting, RowsLoaded, Selected,
                    GroupIsOlder, LaterHasLatest, Later, Group, Matching
<1>3. ASSUME NEW s \in DocumentSessions,
             \/ Revoke(s) \/ DocumentRollback(s) \/ MoveLock(s)
             \/ \E type \in Types : Upload(s, type)
      PROVE  DeletionIInv'
  <2>1. \E type \in Types : \/ Upload(s, type) \/ Revoke(s) \/ DocumentRollback(s) \/ MoveLock(s)
    BY <1>3, TypesAssumption
  <2> QED BY <1>1, <2>1, DeletionBeginStep
<1>4. ASSUME NEW s \in DocumentSessions, NEW d \in Docs,
             Delete(s, d) \/ \E type \in Types : Move(s, d, type)
      PROVE  DeletionIInv'
  <2>1. \E type \in Types : Delete(s, d) \/ Move(s, d, type)
    BY <1>4, TypesAssumption
  <2> QED BY <1>1, <2>1, DeletionLoadStep
<1>5. ASSUME NEW s \in DocumentSessions, Scan(s) \/ Read(s) PROVE DeletionIInv'
  BY <1>1, <1>5, DeletionScanStep, DeletionGroupStep
<1>6. ASSUME NEW s \in DocumentSessions,
             \/ \E d \in Docs : UploadCommit(s, d)
             \/ DeleteCommit(s) \/ MoveCommit(s) \/ RevokeCommit(s)
      PROVE  DeletionIInv'
  BY <1>1, <1>6, DeletionUploadStep, DeletionDeleteStep, DeletionMoveStep, DeletionRevokeStep
<1> QED BY <1>2, <1>3, <1>4, <1>5, <1>6 DEF DocumentNext

\* Whatever overlaps: an upload's document is the only latest one of its type
\* when it is committed, and a deletion leaves its type a current document
\* where there is one to be had (upload_document, delete_document,
\* _sync_document_group).
THEOREM CurrentVersionIsKept == DocumentSpec => CurrentVersionMoves
<1>1. ASSUME DeletionIInv, NEW s \in DocumentSessions, DeleteCommit(s), moves = 0
      PROVE  DeletionKeepsCurrent(s)
  <2> DEFINE type == docSession[s].type
             x == docSession[s].target
  <2> SUFFICES ASSUME NEW e \in DOMAIN doc', doc'[e].type = type, ~ doc'[e].deleted,
                      \A f \in Missed(s) : ~ (doc[f].type = type /\ doc[f].latest /\ doc[f].deleted)
               PROVE  HasCurrent(doc', type)
    BY DEF DeletionKeepsCurrent
  <2>1. DocumentIInv /\ type \in Types /\ type # Current /\ e \in DOMAIN doc /\ e # x
    BY <1>1, TypesAssumption, DeletionEffect DEF DeletionIInv, DocumentIInv, Requests
  <2>2. CASE e \in Group(s)
    <3>1. ~ doc[e].deleted
      BY <1>1, <2>1, <2>2, DeletionEffect
    <3>2. PICK r \in Group(s) \ {x} : doc'[r].latest /\ ~ doc'[r].deleted
      BY <1>1, <2>1, <2>2, <3>1, DeletionEffect
    <3>3. r \in DOMAIN doc' /\ doc'[r].type = type
      BY <1>1, <3>2, DeletionEffect
    <3> QED BY <3>2, <3>3 DEF HasCurrent
  <2>3. CASE e \notin Group(s)
    <3>1. doc'[e] = doc[e] /\ e \in Later(s)
      BY <1>1, <2>1, <2>3, DeletionEffect DEF Later, Matching
    <3>2. PICK z \in Later(s) : doc[z].latest
      BY <1>1, <3>1, DeletionEffect DEF LaterHasLatest
    <3>3. z \in DOMAIN doc \ Group(s) /\ doc[z].type = type
      BY <2>1 DEF Later, Matching
    <3>4. z \in Missed(s) /\ doc'[z] = doc[z] /\ DOMAIN doc' = DOMAIN doc
      BY <1>1, <3>3, DeletionEffect DEF Missed
    <3> QED BY <3>2, <3>3, <3>4 DEF HasCurrent
  <2> QED BY <2>2, <2>3
<1>2. ASSUME DeletionIInv, [DocumentNext]_documentVars, NEW s \in DocumentSessions,
             moves = 0, docSession[s].op = "delete", doc' # doc, docSession'[s] = AtRest
      PROVE  DeletionKeepsCurrent(s)
  <2>1. AtRest.op = "idle"
    BY SMTT(30), DocumentRestIsIdle DEF DocumentIdle
  <2>2. PICK t \in DocumentSessions :
          \/ \E d \in Docs : UploadCommit(t, d)
          \/ DeleteCommit(t) \/ MoveCommit(t) \/ RevokeCommit(t)
    BY ZenonT(60), <1>2 DEF DocumentNext, documentVars, Upload, Move, Delete, MoveLock, Revoke, Scan, Read,
                DocumentRollback
  <2>3. docSession' = [docSession EXCEPT ![t] = AtRest]
    BY <2>2 DEF UploadCommit, DeleteCommit, MoveCommit, RevokeCommit, Write
  <2>4. s = t
    BY <1>2, <2>1, <2>3
  <2>5. DeleteCommit(s)
    BY <1>2, <2>2, <2>4 DEF UploadCommit, MoveCommit, RevokeCommit, Ready
  <2> QED BY <1>1, <1>2, <2>5
<1>3. DeletionIInv /\ [DocumentNext]_documentVars =>
        [\A s \in DocumentSessions :
           moves = 0 /\ docSession[s].op = "delete" /\ doc' # doc /\ docSession'[s] = AtRest =>
             DeletionKeepsCurrent(s)]_documentVars
  BY <1>2
<1>4. DocumentSpec => []DeletionIInv
  BY DeletionInitHolds, DeletionStepKeeps, PTL DEF DocumentSpec
<1> QED BY <1>3, <1>4, UploadIsLatest, PTL DEF DocumentSpec, CurrentVersionMoves

-----------------------------------------------------------------------------
(* Stored files. *)

Keys == StoredDocs \cup AllJobs

StoreTyped ==
  /\ DOMAIN files \subseteq Keys
  /\ \A f \in DOMAIN files : files[f] \in 0 .. storeDay
  /\ storedDoc \in [StoredDocs -> Document]
  /\ fileJob \in [AllJobs -> FileJob]
  /\ storeDay \in 0 .. LastStoreDay
  /\ reader \in [Readers -> [doc : SUBSET StoredDocs, late : BOOLEAN]]
  /\ cleaner \in [at : {"idle", "files", "rows", "targets"}, old : SUBSET Keys,
                  referenced : SUBSET StoredDocs, targets : SUBSET Keys]
  /\ found \subseteq StoredDocs

\* A file that waits for its row is of today; the file of a document that
\* cleanups must keep is there; and what the scanner found infected is not
\* scanned again, so that its row refuses downloads for good.
DocumentSafe(d) ==
  LET row == storedDoc[d]
  IN /\ row.deleted_on <= row.at /\ row.at <= storeDay
     /\ row.upload = "none" => d \notin DOMAIN files
     /\ row.upload = "saved" => d \in DOMAIN files /\ files[d] = storeDay
     /\ row.is_deleted => HasRow(d)
     /\ row.queued => row.upload \in {"marking", "over"}
     /\ d \in found => /\ row.upload \in {"marking", "over"} /\ ~ row.queued
                       /\ row.scan \in {"infected", "failed"}
     /\ HasRow(d) /\ (row.is_deleted => row.deleted_on + DeletedRetention > storeDay) =>
          d \in DOMAIN files

\* A report or export that offers its file has one as old as itself, if any.
JobSafe(j) ==
  LET job == fileJob[j]
  IN /\ job.status \in {"none", "queued", "running"} => j \notin DOMAIN files
     /\ job.status = "saved" => j \in DOMAIN files /\ files[j] = storeDay
     /\ job.status = "completed" /\ job.key =>
          /\ j \in DOMAIN files => files[j] = job.finished_at
          /\ job.finished_at + OrphanRetention > storeDay => j \in DOMAIN files

\* What a cleanup has listed stays fit to be deleted: an upload it takes for
\* an orphan will not get a row any more.
OldDocument(d) ==
  /\ storedDoc[d].upload \notin {"none", "saved"}
  /\ cleaner.at = "rows" /\ HasRow(d) => d \in cleaner.referenced
DeadDocument(d) ==
  \/ storedDoc[d].upload = "gone"
  \/ /\ HasRow(d) /\ storedDoc[d].is_deleted
     /\ storedDoc[d].deleted_on + DeletedRetention <= storeDay
OldJob(j) ==
  /\ fileJob[j].status \in {"completed", "failed"}
  /\ fileJob[j].status = "completed" /\ fileJob[j].key =>
       fileJob[j].finished_at + OrphanRetention <= storeDay
ListedSafe ==
  /\ \A d \in cleaner.old \cap StoredDocs : OldDocument(d)
  /\ \A d \in cleaner.targets \cap StoredDocs : DeadDocument(d)
  /\ \A j \in (cleaner.old \cup cleaner.targets) \cap AllJobs : OldJob(j)

StoreIInv ==
  /\ StoreTyped
  /\ \A d \in StoredDocs : DocumentSafe(d)
  /\ \A j \in AllJobs : JobSafe(j)
  /\ ListedSafe
  /\ \A j \in reportCleaner : j \in ReportJobs /\ fileJob[j].status = "completed"
  /\ \A s \in Readers : ~ reader[s].late
  /\ exposed = {}

\* Nothing is stored yet.
LEMMA StoreInitHolds == StoreInit => StoreIInv
<1> SUFFICES ASSUME StoreInit PROVE StoreIInv
  OBVIOUS
<1>1. DOMAIN files = {} /\ cleaner = CleanerIdle /\ reportCleaner = {} /\ found = {} /\ exposed = {} /\ storeDay = 0
  BY DEF StoreInit
<1>2. NewDocument \in Document /\ NewFileJob \in FileJob
  BY DEF NewDocument, Document, DocumentScanStatus, NewFileJob, FileJob
<1>3. NoRead \in [doc : SUBSET StoredDocs, late : BOOLEAN] /\ ~ NoRead.late
  BY DEF NoRead
<1>4. CleanerIdle \in [at : {"idle", "files", "rows", "targets"}, old : SUBSET Keys,
                       referenced : SUBSET StoredDocs, targets : SUBSET Keys]
      /\ CleanerIdle.old = {} /\ CleanerIdle.targets = {}
  BY DEF CleanerIdle
<1>5. StoreTyped
  <2>1. storedDoc \in [StoredDocs -> Document] /\ fileJob \in [AllJobs -> FileJob]
    BY <1>2 DEF StoreInit
  <2>2. reader \in [Readers -> [doc : SUBSET StoredDocs, late : BOOLEAN]]
    BY <1>3 DEF StoreInit
  <2> QED BY <1>1, <1>4, <2>1, <2>2, StoreAssumption DEF StoreTyped
<1>6. ASSUME NEW d \in StoredDocs PROVE DocumentSafe(d)
  <2>1. storedDoc[d] = NewDocument
    BY DEF StoreInit
  <2> QED BY <1>1, <2>1 DEF DocumentSafe, HasRow, NewDocument
<1>7. ASSUME NEW j \in AllJobs PROVE JobSafe(j)
  <2>1. fileJob[j] = NewFileJob
    BY DEF StoreInit
  <2> QED BY <1>1, <2>1 DEF JobSafe, NewFileJob
<1>8. ListedSafe
  BY <1>1, <1>4 DEF ListedSafe
<1>9. \A s \in Readers : ~ reader[s].late
  BY <1>3 DEF StoreInit
<1> QED BY <1>1, <1>5, <1>6, <1>7, <1>8, <1>9 DEF StoreIInv

\* A step that writes one row and at most the file of that document.
LEMMA DocumentStep ==
  ASSUME StoreIInv, NEW d \in StoredDocs, NEW new \in Document, DocWrite(d, new),
         UNCHANGED << fileJob, reader, cleaner, reportCleaner, storeDay, exposed >>,
         DOMAIN files' \subseteq Keys,
         \A f \in Keys \ {d} : f \in DOMAIN files' <=> f \in DOMAIN files,
         \A f \in DOMAIN files' : files'[f] = files[f] \/ (f = d /\ files'[f] = storeDay),
         d \in DOMAIN files' /\ files'[d] # storeDay => d \in DOMAIN files,
         found' \subseteq found \cup {d},
         DocumentSafe(d)',
         d \in cleaner.old => OldDocument(d)',
         d \in cleaner.targets => DeadDocument(d)'
  PROVE  StoreIInv'
<1>1. /\ storedDoc'[d] = new /\ \A c \in StoredDocs \ {d} : storedDoc'[c] = storedDoc[c]
      /\ storedDoc' \in [StoredDocs -> Document]
  BY DEF StoreIInv, StoreTyped, DocWrite
<1>2. \A f \in DOMAIN files' : f # d => f \in DOMAIN files /\ files'[f] = files[f]
  OBVIOUS
<1>3. ASSUME NEW c \in StoredDocs, c # d PROVE DocumentSafe(c)'
  <2>1. storedDoc'[c] = storedDoc[c] /\ DocumentSafe(c) /\ (c \in found' => c \in found)
    BY <1>1, <1>3 DEF StoreIInv
  <2>2. (c \in DOMAIN files' <=> c \in DOMAIN files) /\ (c \in DOMAIN files => files'[c] = files[c])
    BY <1>3 DEF Keys
  <2> QED BY <2>1, <2>2 DEF DocumentSafe, HasRow
<1>4. ASSUME NEW j \in AllJobs PROVE JobSafe(j)'
  <2>1. j \in Keys /\ j # d
    BY StoreAssumption DEF Keys, AllJobs
  <2>2. (j \in DOMAIN files' <=> j \in DOMAIN files) /\ (j \in DOMAIN files => files'[j] = files[j])
    BY <2>1
  <2> QED BY <2>2 DEF JobSafe, StoreIInv
<1>5. StoreTyped'
  <2>1. \A f \in DOMAIN files' : files'[f] \in 0 .. storeDay
    BY <1>2 DEF StoreIInv, StoreTyped
  <2>2. found' \subseteq StoredDocs
    BY DEF StoreIInv, StoreTyped
  <2> QED BY <1>1, <2>1, <2>2 DEF StoreIInv, StoreTyped, Keys
<1>6. ListedSafe'
  <2>1. ASSUME NEW c \in cleaner.old \cap StoredDocs PROVE OldDocument(c)'
    BY <1>1 DEF StoreIInv, ListedSafe, OldDocument, HasRow
  <2>2. ASSUME NEW c \in cleaner.targets \cap StoredDocs PROVE DeadDocument(c)'
    BY <1>1 DEF StoreIInv, ListedSafe, DeadDocument, HasRow
  <2> QED BY <2>1, <2>2 DEF StoreIInv, ListedSafe, OldJob, AllJobs
<1>7. \A j \in reportCleaner' : j \in ReportJobs /\ fileJob'[j].status = "completed"
  BY DEF StoreIInv
<1> QED BY <1>3, <1>4, <1>5, <1>6, <1>7 DEF StoreIInv

\* The steps of an upload, its scan and its deletion: a cleanup never listed a
\* file that is still to get its row, and what it listed it may still take.
LEMMA UploadSteps ==
  ASSUME StoreIInv, NEW d \in StoredDocs,
         \/ _save_content(d) \/ StoreUpload(d) \/ _delete_saved_content(d) \/ UploadDies(d)
         \/ SoftDelete(d) \/ MarkScanFailed(d) \/ ScanLost(d)
  PROVE  StoreIInv'
<1> DEFINE row == storedDoc[d]
<1>1. /\ row \in Document /\ DocumentSafe(d) /\ d \in Keys /\ storeDay \in Nat
      /\ DOMAIN files \subseteq Keys /\ exposed = {}
      /\ d \in cleaner.old => OldDocument(d)
      /\ d \in cleaner.targets => DeadDocument(d)
  BY StoreAssumption DEF StoreIInv, StoreTyped, ListedSafe, Keys
<1>2. DOMAIN storedDoc = StoredDocs
  BY DEF StoreIInv, StoreTyped
<1>3. CASE _save_content(d)
  <2>1. row.upload = "none" /\ storedDoc'[d] = [row EXCEPT !.upload = "saved"]
        /\ DocWrite(d, [row EXCEPT !.upload = "saved"]) /\ [row EXCEPT !.upload = "saved"] \in Document
    BY <1>1, <1>2, <1>3 DEF _save_content, DocWrite, Document
  <2>2. /\ DOMAIN files' = DOMAIN files \cup {d} /\ files'[d] = storeDay
        /\ \A f \in DOMAIN files' : f # d => files'[f] = files[f]
    BY <1>3 DEF _save_content, save
  <2>3. UNCHANGED << fileJob, reader, cleaner, reportCleaner, storeDay, found, exposed >>
    BY <1>3 DEF _save_content, StoreRest
  <2>4. d \notin cleaner.old /\ d \notin cleaner.targets
    BY <1>1, <2>1 DEF OldDocument, DeadDocument, HasRow
  <2>5. DocumentSafe(d)'
    BY <1>1, <2>1, <2>2, <2>3 DEF DocumentSafe, HasRow, Document
  <2> QED BY <1>1, <2>1, <2>2, <2>3, <2>4, <2>5, DocumentStep
<1>4. CASE StoreUpload(d)
  <2> DEFINE new == [row EXCEPT !.upload = "row", !.at = storeDay]
  <2>1. /\ row.upload = "saved" /\ storedDoc'[d] = new /\ DocWrite(d, new) /\ new \in Document
        /\ UNCHANGED << files, fileJob, reader, cleaner, reportCleaner, storeDay, found, exposed >>
    BY <1>1, <1>2, <1>4 DEF StoreUpload, DocWrite, Document, StoreRest
  <2>2. d \notin cleaner.old /\ d \notin cleaner.targets
    BY <1>1, <2>1 DEF OldDocument, DeadDocument, HasRow
  <2>3. DocumentSafe(d)'
    BY <1>1, <2>1 DEF DocumentSafe, HasRow, Document
  <2> HIDE DEF new
  <2> QED BY <1>1, <2>1, <2>2, <2>3, DocumentStep
<1>5. CASE _delete_saved_content(d)
  <2> DEFINE new == [row EXCEPT !.upload = "gone"]
  <2>1. row.upload = "saved" /\ storedDoc'[d] = new /\ DocWrite(d, new) /\ new \in Document
        /\ UNCHANGED << fileJob, reader, cleaner, reportCleaner, storeDay, found, exposed >>
    BY <1>1, <1>2, <1>5 DEF _delete_saved_content, DocWrite, Document, StoreRest
  <2>2. /\ DOMAIN files' = DOMAIN files \ {d}
        /\ \A f \in DOMAIN files' : files'[f] = files[f]
    BY <1>5 DEF _delete_saved_content, delete
  <2>3. d \notin cleaner.old /\ d \notin cleaner.targets
    BY <1>1, <2>1 DEF OldDocument, DeadDocument, HasRow
  <2>4. DocumentSafe(d)'
    BY <1>1, <2>1 DEF DocumentSafe, HasRow, Document
  <2> HIDE DEF new
  <2> QED BY <1>1, <2>1, <2>2, <2>3, <2>4, DocumentStep
<1>6. CASE UploadDies(d)
  <2> DEFINE new == [row EXCEPT !.upload = IF row.upload = "saved" THEN "gone" ELSE "over"]
  <2>1. /\ row.upload \in {"saved", "row", "marking"} /\ storedDoc'[d] = new
        /\ DocWrite(d, new) /\ new \in Document
        /\ UNCHANGED << files, fileJob, reader, cleaner, reportCleaner, storeDay, found, exposed >>
    BY <1>1, <1>2, <1>6 DEF UploadDies, DocWrite, Document, StoreRest
  <2>2. d \in cleaner.old => OldDocument(d)'
    BY <1>1, <2>1 DEF OldDocument, HasRow, Document
  <2>3. d \in cleaner.targets => DeadDocument(d)'
    BY <1>1, <2>1 DEF DeadDocument, HasRow, Document
  <2>4. DocumentSafe(d)'
    BY <1>1, <2>1 DEF DocumentSafe, HasRow, Document
  <2> HIDE DEF new
  <2> QED BY <1>1, <2>1, <2>2, <2>3, <2>4, DocumentStep
<1>7. CASE SoftDelete(d)
  <2> DEFINE new == [row EXCEPT !.is_deleted = TRUE, !.at = storeDay, !.deleted_on = storeDay]
  <2>1. /\ HasRow(d) /\ ~ row.is_deleted /\ storedDoc'[d] = new
        /\ DocWrite(d, new) /\ new \in Document
        /\ UNCHANGED << files, fileJob, reader, cleaner, reportCleaner, storeDay, found, exposed >>
    BY <1>1, <1>2, <1>7 DEF SoftDelete, DocWrite, Document, StoreRest
  <2>2. d \in cleaner.old => OldDocument(d)'
    BY <1>1, <2>1 DEF OldDocument, HasRow, Document
  <2>3. d \notin cleaner.targets
    BY <1>1, <2>1 DEF DeadDocument, HasRow
  <2>4. DocumentSafe(d)'
    BY <1>1, <2>1 DEF DocumentSafe, HasRow, Document
  <2> HIDE DEF new
  <2> QED BY <1>1, <2>1, <2>2, <2>3, <2>4, DocumentStep
<1>8. CASE MarkScanFailed(d)
  <2> DEFINE new == [row EXCEPT !.upload = "over", !.scan = "failed", !.at = storeDay]
  <2>1. /\ row.upload = "marking" /\ storedDoc'[d] = new
        /\ DocWrite(d, new) /\ new \in Document
        /\ UNCHANGED << files, fileJob, reader, cleaner, reportCleaner, storeDay, found, exposed >>
    BY <1>1, <1>2, <1>8 DEF MarkScanFailed, DocWrite, Document, DocumentScanStatus, StoreRest
  <2>2. d \in cleaner.old => OldDocument(d)'
    BY <1>1, <2>1 DEF OldDocument, HasRow, Document
  <2>3. d \in cleaner.targets => DeadDocument(d)'
    BY <1>1, <2>1 DEF DeadDocument, HasRow, Document
  <2>4. DocumentSafe(d)'
    BY <1>1, <2>1 DEF DocumentSafe, HasRow, Document
  <2> HIDE DEF new
  <2> QED BY <1>1, <2>1, <2>2, <2>3, <2>4, DocumentStep
<1>9. CASE ScanLost(d)
  <2> DEFINE new == [row EXCEPT !.queued = FALSE]
  <2>1. /\ storedDoc'[d] = new /\ DocWrite(d, new) /\ new \in Document
        /\ UNCHANGED << files, fileJob, reader, cleaner, reportCleaner, storeDay, found, exposed >>
    BY <1>1, <1>2, <1>9 DEF ScanLost, DocWrite, Document, StoreRest
  <2>2. d \in cleaner.old => OldDocument(d)'
    BY <1>1, <2>1 DEF OldDocument, HasRow, Document
  <2>3. d \in cleaner.targets => DeadDocument(d)'
    BY <1>1, <2>1 DEF DeadDocument, HasRow, Document
  <2>4. DocumentSafe(d)'
    BY <1>1, <2>1 DEF DocumentSafe, HasRow, Document
  <2> HIDE DEF new
  <2> QED BY <1>1, <2>1, <2>2, <2>3, <2>4, DocumentStep
<1> QED BY <1>3, <1>4, <1>5, <1>6, <1>7, <1>8, <1>9

\* The scan is queued, or its document may have it queued all the same.
LEMMA EnqueueScanStep ==
  ASSUME StoreIInv, NEW d \in StoredDocs, NEW fails \in BOOLEAN, NEW arrives \in BOOLEAN,
         EnqueueScan(d, fails, arrives)
  PROVE  StoreIInv'
<1> DEFINE row == storedDoc[d]
<1>1. /\ row \in Document /\ DocumentSafe(d) /\ d \in Keys /\ storeDay \in Nat
      /\ DOMAIN files \subseteq Keys /\ exposed = {}
      /\ d \in cleaner.old => OldDocument(d)
      /\ d \in cleaner.targets => DeadDocument(d)
  BY StoreAssumption DEF StoreIInv, StoreTyped, ListedSafe, Keys
<1>2. DOMAIN storedDoc = StoredDocs
  BY DEF StoreIInv, StoreTyped
<1> DEFINE new == [row EXCEPT !.upload = IF fails THEN "marking" ELSE "over",
                              !.queued = arrives]
<1>3. /\ row.upload = "row" /\ storedDoc'[d] = new /\ DocWrite(d, new) /\ new \in Document
      /\ UNCHANGED << files, fileJob, reader, cleaner, reportCleaner, storeDay, found, exposed >>
  BY <1>1, <1>2 DEF EnqueueScan, DocWrite, Document, StoreRest
<1>4. d \in cleaner.old => OldDocument(d)'
  BY <1>1, <1>3 DEF OldDocument, HasRow, Document
<1>5. d \in cleaner.targets => DeadDocument(d)'
  BY <1>1, <1>3 DEF DeadDocument, HasRow, Document
<1>6. DocumentSafe(d)'
  BY <1>1, <1>3 DEF DocumentSafe, HasRow, Document
<1> HIDE DEF new
<1> QED BY <1>1, <1>3, <1>4, <1>5, <1>6, DocumentStep

\* The scanner's answer, the last there is for a document.
LEMMA ScanDocumentStep ==
  ASSUME StoreIInv, NEW d \in StoredDocs, NEW r \in DocumentScanStatus \ {"pending"},
         scan_document(d, r)
  PROVE  StoreIInv'
<1> DEFINE row == storedDoc[d]
<1>1. /\ row \in Document /\ DocumentSafe(d) /\ d \in Keys /\ storeDay \in Nat
      /\ DOMAIN files \subseteq Keys /\ exposed = {}
      /\ d \in cleaner.old => OldDocument(d)
      /\ d \in cleaner.targets => DeadDocument(d)
  BY StoreAssumption DEF StoreIInv, StoreTyped, ListedSafe, Keys
<1>2. DOMAIN storedDoc = StoredDocs
  BY DEF StoreIInv, StoreTyped
<1> DEFINE new == [row EXCEPT !.queued = FALSE, !.scan = r, !.at = storeDay]
<1>3. /\ row.queued /\ storedDoc'[d] = new /\ DocWrite(d, new) /\ new \in Document
      /\ UNCHANGED << files, fileJob, reader, cleaner, reportCleaner, storeDay, exposed >>
  BY <1>1, <1>2 DEF scan_document, DocWrite, Document, StoreRest
<1>4. found' \subseteq found \cup {d} /\ (d \in found' => d \in found \/ r = "infected")
  BY DEF scan_document
<1>5. d \in cleaner.old => OldDocument(d)'
  BY <1>1, <1>3 DEF OldDocument, HasRow, Document
<1>6. d \in cleaner.targets => DeadDocument(d)'
  BY <1>1, <1>3 DEF DeadDocument, HasRow, Document
<1>7. DocumentSafe(d)'
  BY <1>1, <1>3, <1>4 DEF DocumentSafe, HasRow, Document
<1> HIDE DEF new
<1> QED BY <1>1, <1>3, <1>4, <1>5, <1>6, <1>7, DocumentStep

\* What a download was allowed to read had not been found infected.
LEMMA ReaderSteps ==
  ASSUME StoreIInv, NEW s \in Readers,
         (\E d \in StoredDocs : DownloadRead(s, d)) \/ DownloadServe(s)
  PROVE  StoreIInv'
<1>1. /\ reader \in [Readers -> [doc : SUBSET StoredDocs, late : BOOLEAN]]
      /\ \A t \in Readers : ~ reader[t].late
      /\ exposed = {}
  BY DEF StoreIInv, StoreTyped
<1>2. UNCHANGED << files, storedDoc, fileJob, cleaner, reportCleaner, storeDay, found >>
  BY DEF DownloadRead, DownloadServe
<1>3. exposed' = {}
  BY <1>1 DEF DownloadRead, DownloadServe
<1>4. \E read \in [doc : SUBSET StoredDocs, late : {FALSE}] :
        reader' = [reader EXCEPT ![s] = read]
  <2>1. ASSUME NEW d \in StoredDocs, DownloadRead(s, d) PROVE <1>4
    <3>1. (d \in found) = FALSE
      BY <2>1 DEF DownloadRead, StoreIInv, DocumentSafe, _ensure_scan_allows_access
    <3>2. reader' = [reader EXCEPT ![s] = [doc |-> {d}, late |-> FALSE]]
      BY <2>1, <3>1 DEF DownloadRead
    <3> QED BY <3>2
  <2>2. CASE DownloadServe(s)
    BY <2>2 DEF DownloadServe, NoRead
  <2> QED BY <2>1, <2>2
<1>5. /\ reader' \in [Readers -> [doc : SUBSET StoredDocs, late : BOOLEAN]]
      /\ \A t \in Readers : ~ reader'[t].late
  BY <1>1, <1>4
<1> QED BY <1>2, <1>3, <1>5 DEF StoreIInv, StoreTyped, DocumentSafe, HasRow, JobSafe,
                               ListedSafe, OldDocument, DeadDocument, OldJob

\* A step that writes one job and at most its file.
LEMMA JobStep ==
  ASSUME StoreIInv, NEW j \in AllJobs, NEW new \in FileJob, JobWrite(j, new),
         UNCHANGED << storedDoc, reader, cleaner, storeDay, found, exposed >>,
         reportCleaner' \subseteq reportCleaner,
         fileJob[j].status = "completed" => new.status = "completed",
         DOMAIN files' \subseteq Keys,
         \A f \in Keys \ {j} : f \in DOMAIN files' <=> f \in DOMAIN files,
         \A f \in DOMAIN files' : files'[f] = files[f] \/ (f = j /\ files'[f] = storeDay),
         j \in DOMAIN files' /\ files'[j] # storeDay => j \in DOMAIN files,
         JobSafe(j)',
         j \in cleaner.old \cup cleaner.targets => OldJob(j)'
  PROVE  StoreIInv'
<1>1. /\ fileJob'[j] = new /\ \A k \in AllJobs \ {j} : fileJob'[k] = fileJob[k]
      /\ fileJob' \in [AllJobs -> FileJob]
  BY DEF StoreIInv, StoreTyped, JobWrite
<1>2. \A f \in DOMAIN files' : f # j => f \in DOMAIN files /\ files'[f] = files[f]
  OBVIOUS
<1>3. ASSUME NEW d \in StoredDocs PROVE DocumentSafe(d)'
  <2>1. d \in Keys /\ d # j
    BY StoreAssumption DEF Keys, AllJobs
  <2>2. (d \in DOMAIN files' <=> d \in DOMAIN files) /\ (d \in DOMAIN files => files'[d] = files[d])
    BY <2>1
  <2> QED BY <2>2 DEF StoreIInv, DocumentSafe, HasRow
<1>4. ASSUME NEW k \in AllJobs, k # j PROVE JobSafe(k)'
  <2>1. (k \in DOMAIN files' <=> k \in DOMAIN files) /\ (k \in DOMAIN files => files'[k] = files[k])
    BY <1>4 DEF Keys
  <2> QED BY <1>1, <1>4, <2>1 DEF JobSafe, StoreIInv
<1>5. StoreTyped'
  <2>1. \A f \in DOMAIN files' : files'[f] \in 0 .. storeDay
    BY <1>2 DEF StoreIInv, StoreTyped
  <2> QED BY <1>1, <2>1 DEF StoreIInv, StoreTyped, Keys
<1>6. ListedSafe'
  <2>1. ASSUME NEW k \in (cleaner.old \cup cleaner.targets) \cap AllJobs PROVE OldJob(k)'
    BY <1>1 DEF StoreIInv, ListedSafe, OldJob
  <2> QED BY <2>1 DEF StoreIInv, ListedSafe, OldDocument, DeadDocument, HasRow
<1>7. \A k \in reportCleaner' : k \in ReportJobs /\ fileJob'[k].status = "completed"
  BY <1>1 DEF StoreIInv, AllJobs
<1> QED BY <1>3, <1>4, <1>5, <1>6, <1>7 DEF StoreIInv

\* A job writes its file on the day it ends, and no cleanup has listed a file
\* before it is there.
LEMMA JobSteps ==
  ASSUME StoreIInv, NEW j \in AllJobs,
         \/ CreateJob(j) \/ JobRunning(j) \/ JobSaves(j) \/ JobCompletes(j) \/ JobFails(j)
  PROVE  StoreIInv'
<1> DEFINE job == fileJob[j]
<1>1. /\ job \in FileJob /\ JobSafe(j) /\ j \in Keys /\ storeDay \in Nat
      /\ DOMAIN files \subseteq Keys /\ DOMAIN fileJob = AllJobs
      /\ j \in cleaner.old \cup cleaner.targets => OldJob(j)
  BY StoreAssumption DEF StoreIInv, StoreTyped, ListedSafe, Keys
<1>2. OrphanRetention \in Nat \ {0}
  BY StoreAssumption
<1>3. CASE JobSaves(j)
  <2> DEFINE new == [job EXCEPT !.status = "saved"]
  <2>1. /\ job.status = "running" /\ fileJob'[j] = new /\ JobWrite(j, new) /\ new \in FileJob
        /\ UNCHANGED << storedDoc, reader, cleaner, reportCleaner, storeDay, found, exposed >>
    BY <1>1, <1>3 DEF JobSaves, JobWrite, FileJob, JobRest
  <2>2. /\ DOMAIN files' = DOMAIN files \cup {j} /\ files'[j] = storeDay
        /\ \A f \in DOMAIN files' : f # j => files'[f] = files[f]
    BY <1>3 DEF JobSaves, save
  <2>3. j \notin cleaner.old \cup cleaner.targets
    BY <1>1, <2>1 DEF OldJob
  <2>4. JobSafe(j)'
    BY <1>1, <2>1, <2>2 DEF JobSafe, FileJob
  <2> HIDE DEF new
  <2> QED BY <1>1, <2>1, <2>2, <2>3, <2>4, JobStep
<1>4. CASE CreateJob(j) \/ JobRunning(j)
  <2> DEFINE new == [job EXCEPT !.status = IF job.status = "none" THEN "queued" ELSE "running"]
  <2>1. /\ job.status \in {"none", "queued"} /\ fileJob'[j] = new /\ JobWrite(j, new) /\ new \in FileJob
        /\ UNCHANGED << files, storedDoc, reader, cleaner, reportCleaner, storeDay, found, exposed >>
    BY <1>1, <1>4 DEF CreateJob, JobRunning, JobWrite, FileJob, JobRest
  <2>2. j \notin cleaner.old \cup cleaner.targets
    BY <1>1, <2>1 DEF OldJob
  <2>3. JobSafe(j)'
    BY <1>1, <2>1 DEF JobSafe, FileJob
  <2> HIDE DEF new
  <2> QED BY <1>1, <2>1, <2>2, <2>3, JobStep
<1>5. CASE JobCompletes(j)
  <2> DEFINE new == [status |-> "completed", key |-> TRUE, finished_at |-> storeDay]
  <2>1. /\ job.status = "saved" /\ fileJob'[j] = new /\ JobWrite(j, new) /\ new \in FileJob
        /\ UNCHANGED << files, storedDoc, reader, cleaner, reportCleaner, storeDay, found, exposed >>
    BY <1>1, <1>5 DEF JobCompletes, JobWrite, FileJob, JobRest
  <2>2. j \notin cleaner.old \cup cleaner.targets
    BY <1>1, <2>1 DEF OldJob
  <2>3. JobSafe(j)'
    BY <1>1, <2>1 DEF JobSafe, FileJob
  <2> HIDE DEF new
  <2> QED BY <1>1, <2>1, <2>2, <2>3, JobStep
<1>6. CASE JobFails(j)
  <2> DEFINE new == [status |-> "failed", key |-> job.status = "saved", finished_at |-> storeDay]
  <2>1. /\ job.status \in {"running", "saved"} /\ fileJob'[j] = new /\ JobWrite(j, new)
        /\ UNCHANGED << files, storedDoc, reader, cleaner, reportCleaner, storeDay, found, exposed >>
    BY <1>1, <1>6 DEF JobFails, JobWrite, JobRest
  <2>2. j \notin cleaner.old \cup cleaner.targets
    BY <1>1, <2>1 DEF OldJob
  <2>3. JobSafe(j)'
    BY <1>1, <2>1 DEF JobSafe, FileJob
  <2>4. new \in FileJob
    BY <1>1 DEF FileJob
  <2> HIDE DEF new
  <2> QED BY <1>1, <2>1, <2>2, <2>3, <2>4, JobStep
<1> QED BY <1>3, <1>4, <1>5, <1>6

\* The cleanups list what is old, compare it with the rows, and delete it.
LEMMA CleanupSteps ==
  ASSUME StoreIInv,
         \/ CleanupListFiles \/ CleanupListRows \/ CleanupListDeleted \/ CleanupEnds
         \/ ReportCleanupList \/ ReportCleanupDies
  PROVE  StoreIInv'
<1>1. /\ UNCHANGED << files, storedDoc, fileJob, reader, storeDay, found, exposed >>
      /\ StoreTyped /\ ListedSafe /\ storeDay \in Nat
  BY DEF StoreIInv, StoreTyped, CleanRest, ReportCleanRest, CleanupListFiles, CleanupListRows,
         CleanupListDeleted, CleanupEnds, ReportCleanupList, ReportCleanupDies
<1>2. \A f \in cleaner.old \cup cleaner.targets : f \in Keys
  BY <1>1 DEF StoreTyped
<1> DEFINE lists == [at : {"idle", "files", "rows", "targets"}, old : SUBSET Keys,
                     referenced : SUBSET StoredDocs, targets : SUBSET Keys]
<1>3. cleaner' \in lists /\ ListedSafe'
  <2>1. CASE ReportCleanupList \/ ReportCleanupDies
    BY <1>1, <2>1 DEF ReportCleanupList, ReportCleanupDies, ReportCleanRest, StoreTyped, ListedSafe,
                      OldDocument, DeadDocument, OldJob, HasRow
  <2>2. CASE CleanupEnds
    BY <1>1, <2>2 DEF CleanupEnds, CleanerIdle, ListedSafe
  <2>3. CASE CleanupListFiles
    <3>1. cleaner' = [at |-> "files", old |-> OldFiles, referenced |-> {}, targets |-> {}]
      BY <2>3 DEF CleanupListFiles, CleanerIdle
    <3>2. OldFiles \subseteq Keys
      BY <1>1 DEF OldFiles, StoreTyped
    <3>3. \A f \in OldFiles : f \in DOMAIN files /\ files[f] # storeDay
                              /\ files[f] + OrphanRetention <= storeDay
      BY <1>1, StoreAssumption DEF OldFiles, StoreTyped
    <3>4. ASSUME NEW d \in OldFiles \cap StoredDocs PROVE OldDocument(d)'
      BY <1>1, <3>1, <3>3 DEF StoreIInv, DocumentSafe, OldDocument
    <3>5. ASSUME NEW j \in OldFiles \cap AllJobs PROVE OldJob(j)'
      <4>1. fileJob[j] \in FileJob /\ JobSafe(j)
        BY <1>1 DEF StoreIInv, StoreTyped
      <4>2. j \in DOMAIN files /\ files[j] # storeDay /\ files[j] + OrphanRetention <= storeDay
        BY <3>3
      <4>3. OldJob(j)
        BY <4>1, <4>2 DEF JobSafe, OldJob, FileJob
      <4> QED BY <1>1, <4>3 DEF OldJob
    <3> QED BY <3>1, <3>2, <3>4, <3>5 DEF ListedSafe
  <2>4. CASE CleanupListRows
    <3>1. cleaner' = [cleaner EXCEPT !.at = "rows", !.referenced = list_referenced_file_paths]
      BY <2>4 DEF CleanupListRows
    <3>2. list_referenced_file_paths = {d \in StoredDocs : HasRow(d)}
      BY DEF list_referenced_file_paths
    <3> DEFINE rows == {d \in StoredDocs : HasRow(d)}
    <3>7. rows \subseteq StoredDocs /\ cleaner' = [cleaner EXCEPT !.at = "rows", !.referenced = rows]
      BY <3>1, <3>2
    <3>8. \A d \in StoredDocs : HasRow(d) => d \in rows
      OBVIOUS
    <3> HIDE DEF rows
    <3>3. /\ cleaner' \in lists /\ cleaner'.old = cleaner.old /\ cleaner'.targets = cleaner.targets
          /\ cleaner'.at = "rows" /\ cleaner'.referenced = rows
      BY <1>1, <3>7 DEF StoreTyped
    <3>4. ASSUME NEW d \in cleaner.old \cap StoredDocs PROVE OldDocument(d)'
      BY <1>1, <3>3, <3>8 DEF ListedSafe, OldDocument, HasRow
    <3>5. ASSUME NEW d \in cleaner.targets \cap StoredDocs PROVE DeadDocument(d)'
      BY <1>1 DEF ListedSafe, DeadDocument, HasRow
    <3>6. ASSUME NEW j \in (cleaner.old \cup cleaner.targets) \cap AllJobs PROVE OldJob(j)'
      BY <1>1 DEF ListedSafe, OldJob
    <3> QED BY <3>3, <3>4, <3>5, <3>6 DEF ListedSafe, AllJobs
  <2>5. CASE CleanupListDeleted
    <3> DEFINE chosen == (cleaner.old \ cleaner.referenced) \cup list_soft_deleted_documents
    <3>1. /\ cleaner.at = "rows"
          /\ cleaner' = [at |-> "targets", old |-> {}, referenced |-> {}, targets |-> chosen]
      BY <2>5 DEF CleanupListDeleted, CleanerIdle
    <3>2. chosen \subseteq Keys
      BY <1>1 DEF StoreTyped, list_soft_deleted_documents, Keys
    <3>3. ASSUME NEW d \in chosen \cap StoredDocs PROVE DeadDocument(d)
      <4>1. storedDoc[d] \in Document /\ DocumentSafe(d) /\ DeletedRetention \in Nat
        BY <1>1, StoreAssumption DEF StoreIInv, StoreTyped
      <4>2. CASE d \in list_soft_deleted_documents
        BY <1>1, <4>1, <4>2 DEF list_soft_deleted_documents, DocumentSafe, DeadDocument, Document
      <4>3. CASE d \in cleaner.old \ cleaner.referenced
        BY <1>1, <3>1, <4>1, <4>3 DEF ListedSafe, OldDocument, HasRow, DeadDocument, Document
      <4> QED BY <4>2, <4>3
    <3>4. ASSUME NEW j \in chosen \cap AllJobs PROVE OldJob(j)
      <4>1. j \notin list_soft_deleted_documents
        BY StoreAssumption DEF list_soft_deleted_documents, AllJobs
      <4> QED BY <1>1, <4>1 DEF ListedSafe
    <3> HIDE DEF chosen
    <3>5. \A d \in chosen \cap StoredDocs : DeadDocument(d)'
      BY <1>1, <3>3 DEF DeadDocument, HasRow
    <3>6. \A j \in chosen \cap AllJobs : OldJob(j)'
      BY <1>1, <3>4 DEF OldJob
    <3> QED BY <3>1, <3>2, <3>5, <3>6 DEF ListedSafe, AllJobs
  <2> QED BY <2>1, <2>2, <2>3, <2>4, <2>5
<1>4. \A j \in reportCleaner' : j \in ReportJobs /\ fileJob[j].status = "completed"
  BY DEF StoreIInv, CleanRest, CleanupListFiles, CleanupListRows, CleanupListDeleted, CleanupEnds,
         ReportCleanupList, ReportCleanupDies, list_expired_completed_jobs
<1> QED BY <1>1, <1>3, <1>4 DEF StoreIInv, StoreTyped, DocumentSafe, HasRow, JobSafe

\* A file that is deleted was fit to be.
LEMMA DeleteSteps ==
  ASSUME StoreIInv, NEW k \in Keys,
         CleanupDelete(k) \/ (k \in ReportJobs /\ cleanup_expired_reports(k))
  PROVE  StoreIInv'
<1>1. /\ UNCHANGED << storedDoc, reader, storeDay, found, exposed >>
      /\ StoreTyped /\ ListedSafe /\ storeDay \in Nat
  BY DEF StoreIInv, StoreTyped, CleanRest, ReportCleanRest, CleanupDelete, cleanup_expired_reports
<1>2. DOMAIN files' = DOMAIN files \ {k} /\ \A f \in DOMAIN files' : files'[f] = files[f]
  BY DEF CleanupDelete, cleanup_expired_reports, delete
<1>3. CASE CleanupDelete(k)
  <2>1. k \in cleaner.targets /\ UNCHANGED fileJob /\ cleaner' = [cleaner EXCEPT !.targets = @ \ {k}]
    BY <1>3 DEF CleanupDelete, CleanRest
  <2>2. ASSUME NEW d \in StoredDocs PROVE DocumentSafe(d)'
    <3>1. CASE d = k
      <4>1. DeadDocument(d) /\ DocumentSafe(d) /\ storedDoc[d] \in Document /\ DeletedRetention \in Nat
        BY <1>1, <2>1, <3>1, StoreAssumption DEF ListedSafe, StoreIInv, StoreTyped
      <4> QED BY <1>1, <1>2, <3>1, <4>1 DEF DeadDocument, DocumentSafe, HasRow, Document
    <3>2. CASE d # k
      <4>1. (d \in DOMAIN files' <=> d \in DOMAIN files) /\ (d \in DOMAIN files => files'[d] = files[d])
        BY <1>2, <3>2
      <4> QED BY <1>1, <4>1 DEF StoreIInv, DocumentSafe, HasRow
    <3> QED BY <3>1, <3>2
  <2>3. ASSUME NEW j \in AllJobs PROVE JobSafe(j)'
    <3>1. CASE j = k
      <4>1. OldJob(j) /\ JobSafe(j) /\ fileJob[j] \in FileJob /\ OrphanRetention \in Nat
        BY <1>1, <2>1, <3>1, StoreAssumption DEF ListedSafe, StoreIInv, StoreTyped
      <4> QED BY <1>1, <1>2, <2>1, <3>1, <4>1 DEF OldJob, JobSafe, FileJob
    <3>2. CASE j # k
      <4>1. (j \in DOMAIN files' <=> j \in DOMAIN files) /\ (j \in DOMAIN files => files'[j] = files[j])
        BY <1>2, <3>2
      <4> QED BY <1>1, <2>1, <4>1 DEF StoreIInv, JobSafe
    <3> QED BY <3>1, <3>2
  <2>4. /\ cleaner'.old = cleaner.old /\ cleaner'.targets = cleaner.targets \ {k}
        /\ cleaner'.at = cleaner.at /\ cleaner'.referenced = cleaner.referenced
        /\ cleaner' \in [at : {"idle", "files", "rows", "targets"}, old : SUBSET Keys,
                         referenced : SUBSET StoredDocs, targets : SUBSET Keys]
    BY <1>1, <2>1 DEF StoreTyped
  <2>5. ListedSafe'
    BY <1>1, <2>1, <2>4 DEF ListedSafe, OldDocument, DeadDocument, OldJob, HasRow
  <2>6. reportCleaner' = reportCleaner
    BY <1>3 DEF CleanupDelete, CleanRest
  <2> QED BY <1>1, <1>2, <2>1, <2>2, <2>3, <2>4, <2>5, <2>6 DEF StoreIInv, StoreTyped
<1>4. CASE k \in ReportJobs /\ cleanup_expired_reports(k)
  <2> DEFINE new == [fileJob[k] EXCEPT !.key = FALSE]
  <2>1. k \in AllJobs /\ fileJob[k] \in FileJob
    BY <1>1, <1>4 DEF AllJobs, StoreTyped
  <2>2. /\ JobWrite(k, new) /\ new \in FileJob /\ fileJob'[k] = new /\ UNCHANGED cleaner
    BY <1>1, <1>4, <2>1 DEF cleanup_expired_reports, ReportCleanRest, JobWrite, StoreTyped, FileJob
  <2>3. JobSafe(k) /\ (k \in cleaner.old \cup cleaner.targets => OldJob(k))
    BY <1>1, <2>1 DEF StoreIInv, ListedSafe
  <2>4. k \in cleaner.old \cup cleaner.targets => OldJob(k)'
    BY <2>1, <2>2, <2>3 DEF OldJob, FileJob
  <2>5. k \in reportCleaner
    BY <1>4 DEF cleanup_expired_reports
  <2>6. fileJob[k].status = "completed" /\ reportCleaner' \subseteq reportCleaner
    BY <1>4, <2>5 DEF StoreIInv, cleanup_expired_reports
  <2>7. JobSafe(k)'
    BY <1>2, <2>1, <2>2, <2>3, <2>6 DEF JobSafe, FileJob
  <2>8. new.status = "completed"
    BY <2>1, <2>6 DEF FileJob
  <2> HIDE DEF new
  <2> QED BY <1>1, <1>2, <2>1, <2>2, <2>4, <2>6, <2>7, <2>8, JobStep DEF StoreTyped
<1> QED BY <1>3, <1>4

\* A new day finds nothing half written and no cleanup at work.
LEMMA StoreDayStep ==
  ASSUME StoreIInv, NextStoreDay
  PROVE  StoreIInv'
<1>1. /\ UNCHANGED << files, storedDoc, fileJob, reader, cleaner, reportCleaner, found, exposed >>
      /\ storeDay' = storeDay + 1 /\ storeDay \in Nat /\ storeDay' \in 0 .. LastStoreDay
      /\ cleaner.old = {} /\ cleaner.targets = {}
  BY StoreAssumption DEF StoreIInv, StoreTyped, NextStoreDay, CleanerIdle
<1>2. ASSUME NEW d \in StoredDocs PROVE DocumentSafe(d)'
  <2>1. storedDoc[d] \in Document /\ DocumentSafe(d) /\ DeletedRetention \in Nat
        /\ storedDoc[d].upload # "saved"
    BY StoreAssumption DEF StoreIInv, StoreTyped, NextStoreDay
  <2> QED BY <1>1, <2>1 DEF DocumentSafe, HasRow, Document
<1>3. ASSUME NEW j \in AllJobs PROVE JobSafe(j)'
  <2>1. fileJob[j] \in FileJob /\ JobSafe(j) /\ OrphanRetention \in Nat /\ fileJob[j].status # "saved"
    BY StoreAssumption DEF StoreIInv, StoreTyped, NextStoreDay
  <2> QED BY <1>1, <2>1 DEF JobSafe, FileJob
<1>4. ListedSafe'
  BY <1>1 DEF ListedSafe
<1>5. StoreTyped'
  BY <1>1 DEF StoreIInv, StoreTyped
<1> QED BY <1>1, <1>2, <1>3, <1>4, <1>5 DEF StoreIInv

LEMMA StoreStepKeeps == StoreIInv /\ [StoreNext]_storeVars => StoreIInv'
<1> SUFFICES ASSUME StoreIInv, [StoreNext]_storeVars PROVE StoreIInv'
  OBVIOUS
<1>1. CASE UNCHANGED storeVars
  BY <1>1 DEF storeVars, StoreIInv, StoreTyped, DocumentSafe, HasRow, JobSafe, ListedSafe,
              OldDocument, DeadDocument, OldJob
<1>2. CASE StoreNext
  <2>1. ASSUME NEW d \in StoredDocs,
               \/ _save_content(d) \/ StoreUpload(d) \/ _delete_saved_content(d) \/ UploadDies(d)
               \/ SoftDelete(d) \/ MarkScanFailed(d) \/ ScanLost(d)
        PROVE  StoreIInv'
    BY <2>1, UploadSteps
  <2>2. ASSUME NEW d \in StoredDocs, NEW fails \in BOOLEAN, NEW arrives \in BOOLEAN,
               EnqueueScan(d, fails, arrives)
        PROVE  StoreIInv'
    BY <2>2, EnqueueScanStep
  <2>3. ASSUME NEW d \in StoredDocs, NEW r \in DocumentScanStatus \ {"pending"}, scan_document(d, r)
        PROVE  StoreIInv'
    BY <2>3, ScanDocumentStep
  <2>4. ASSUME NEW s \in Readers, (\E d \in StoredDocs : DownloadRead(s, d)) \/ DownloadServe(s)
        PROVE  StoreIInv'
    BY <2>4, ReaderSteps
  <2>5. ASSUME NEW j \in AllJobs,
               \/ CreateJob(j) \/ JobRunning(j) \/ JobSaves(j) \/ JobCompletes(j) \/ JobFails(j)
        PROVE  StoreIInv'
    BY <2>5, JobSteps
  <2>6. ASSUME \/ CleanupListFiles \/ CleanupListRows \/ CleanupListDeleted \/ CleanupEnds
               \/ ReportCleanupList \/ ReportCleanupDies
        PROVE  StoreIInv'
    BY <2>6, CleanupSteps
  <2>7. ASSUME NEW k \in Keys, CleanupDelete(k) \/ (k \in ReportJobs /\ cleanup_expired_reports(k))
        PROVE  StoreIInv'
    BY <2>7, DeleteSteps
  <2>8. CASE NextStoreDay
    BY <2>8, StoreDayStep
  <2> QED BY <1>2, <2>1, <2>2, <2>3, <2>4, <2>5, <2>6, <2>7, <2>8 DEF StoreNext, Keys, AllJobs
<1> QED BY <1>1, <1>2

LEMMA StoreInductive == StoreSpec => []StoreIInv
BY StoreInitHolds, StoreStepKeeps, PTL DEF StoreSpec

\* Files, rows, jobs and the cleanups keep to their types.
THEOREM FilesTypeCorrect == StoreSpec => []StoreTypeOK
<1>1. StoreIInv => StoreTypeOK
  BY DEF StoreIInv, StoreTyped, StoreTypeOK, Keys
<1> QED BY <1>1, StoreInductive, PTL

\* Whatever uploads, scans, jobs and cleanups overlap, stop half way or are
\* lost: the cleanups leave the file of a document that is not deleted, or was
\* lately, and of a young report or export, and no download begins after the
\* scanner has found its document infected.
THEOREM FilesStaySafe == StoreSpec => []FilesAreSafe
<1>1. StoreIInv => NeededFilesStay
  BY DEF StoreIInv, NeededFilesStay, DocumentSafe, JobSafe
<1>2. StoreIInv => FilesAreSafe
  BY <1>1 DEF StoreIInv, FilesAreSafe, InfectedIsNotServed
<1> QED BY <1>2, StoreInductive, PTL


-----------------------------------------------------------------------------
(* The search index *)

\* What is known of an uploaded document.
IndexedRows == [type : WordTypes, is_deleted : BOOLEAN,
                scan_status : {"pending", "clean", "infected", "failed"}]

\* A worker without a task, before it reads and before it writes.
IndexJobs == [at : {"idle"}] \cup [at : {"read"}, doc : Uploaded]
                \cup [at : {"write"}, doc : Uploaded, row : IndexedRows, found : BOOLEAN]

SearchTypes ==
  /\ SearchTypeOK
  /\ docRow \in [Uploaded -> IndexedRows]
  /\ indexJob \in [IndexTasks -> IndexJobs]
  /\ \A d \in SearchDocs : queued[d] # 0 => d \in Uploaded

\* Someone is still going to index the document as it is now, or it is known
\* that nobody will.
IndexingToCome(d) ==
  \/ queued[d] # 0 \/ d \in scanDue \cup lost \cup late
  \/ \E s \in IndexTasks : indexJob[s].at = "read" /\ indexJob[s].doc = d
  \/ \E s \in IndexTasks :
        indexJob[s].at = "write" /\ indexJob[s].doc = d /\ indexJob[s].row = docRow[d]

\* A document that can be found is in the index as what it is, or will be.
IndexFollows ==
  \A d \in Uploaded :
     Indexable(docRow[d]) => IndexingToCome(d) \/ entry[d] = docRow[d].type

SearchIInv == SearchTypes /\ IndexFollows

LEMMA SearchStarts == SearchInit => SearchIInv
<1> SUFFICES ASSUME SearchInit PROVE SearchIInv
    OBVIOUS
<1> USE SearchAssumption DEF SearchInit, Uploaded
<1>1. Uploaded = {} /\ docRow \in [Uploaded -> IndexedRows]
      OBVIOUS
<1>2. SearchTypeOK
      BY <1>1 DEF SearchTypeOK
<1>3. indexJob \in [IndexTasks -> IndexJobs]
      BY DEF IndexJobs, NoIndexJob
<1> QED
    BY <1>1, <1>2, <1>3 DEF SearchIInv, SearchTypes, IndexFollows

\* A message more keeps the queue to its type, or the message is lost.
LEMMA EnqueueKeepsType ==
  ASSUME NEW d \in SearchDocs, Enqueue(d), queued \in [SearchDocs -> 0 .. MaxQueued]
  PROVE  /\ queued' \in [SearchDocs -> 0 .. MaxQueued]
         /\ queued'[d] # 0 \/ d \in lost'
         /\ \A e \in SearchDocs \ {d} : queued'[e] = queued[e]
         /\ lost \subseteq lost'
<1>1. CASE /\ queued[d] < MaxQueued
           /\ queued' = [queued EXCEPT ![d] = @ + 1]
           /\ UNCHANGED lost
      BY <1>1, SearchAssumption
<1>2. CASE lost' = lost \cup {d} /\ queued' = queued
      BY <1>2
<1> QED
    BY <1>1, <1>2 DEF Enqueue

\* The jobs of the others stay what they are when no document goes away.
LEMMA IndexJobsKeepType ==
  ASSUME SearchTypes, NEW s \in IndexTasks, NEW j \in IndexJobs', IndexWrite(s, j),
         Uploaded \subseteq Uploaded'
  PROVE  indexJob' \in [IndexTasks -> IndexJobs]'
<1>1. IndexJobs \subseteq IndexJobs'
      BY DEF IndexJobs
<1> QED
    BY <1>1 DEF IndexWrite, SearchTypes

LEMMA UploadsKeepSearchTypes ==
  ASSUME SearchTypes, NEW d \in SearchDocs, NEW t \in WordTypes, UploadDocument(d, t)
  PROVE  SearchTypes'
<1> DEFINE row == [type |-> t, is_deleted |-> FALSE, scan_status |-> "pending"]
<1>1. row \in IndexedRows
      BY DEF IndexedRows
<1>2. docRow' = [x \in Uploaded \cup {d} |-> IF x = d THEN row ELSE docRow[x]]
      BY DEF UploadDocument
<1> HIDE DEF row
<1>3. Uploaded' = Uploaded \cup {d}
      BY <1>2 DEF Uploaded
<1>4. docRow' \in [Uploaded' -> IndexedRows]
      BY <1>1, <1>2, <1>3 DEF SearchTypes
<1>5. indexJob' \in [IndexTasks -> IndexJobs]'
      BY <1>3 DEF SearchTypes, IndexJobs, UploadDocument
<1>6. /\ queued' \in [SearchDocs -> 0 .. MaxQueued]
      /\ \A e \in SearchDocs \ {d} : queued'[e] = queued[e]
      BY EnqueueKeepsType DEF UploadDocument, SearchTypes, SearchTypeOK
<1> QED
    BY <1>3, <1>4, <1>5, <1>6 DEF SearchTypes, SearchTypeOK, UploadDocument

\* A step that brings no document.
LEMMA RowsKeepSearchTypes ==
  ASSUME SearchTypes, docRow' \in [DOMAIN docRow -> IndexedRows],
         entry' \in [SearchDocs -> WordTypes \cup {NoEntry, "failed"}],
         queued' \in [SearchDocs -> 0 .. MaxQueued],
         \A d \in SearchDocs : queued'[d] # 0 => d \in Uploaded,
         scanDue' \subseteq scanDue, indexJob' \in [IndexTasks -> IndexJobs]
  PROVE  SearchTypes'
<1>1. Uploaded' = Uploaded /\ DOMAIN docRow' = DOMAIN docRow
      BY DEF Uploaded
<1>2. IndexJobs' = IndexJobs
      BY <1>1 DEF IndexJobs
<1>3. SearchTypeOK'
      BY <1>1 DEF SearchTypes, SearchTypeOK
<1> QED
    BY <1>1, <1>2, <1>3 DEF SearchTypes, Uploaded

LEMMA SearchTypesKept ==
  ASSUME SearchTypes, [SearchNext]_searchVars
  PROVE  SearchTypes'
<1> USE DEF SearchTypes, SearchTypeOK
<1> DEFINE Words == [SearchDocs -> WordTypes \cup {NoEntry, "failed"}]
<1>1. /\ entry \in Words /\ scanDue \subseteq DOMAIN docRow
      /\ docRow \in [DOMAIN docRow -> IndexedRows]
      /\ Uploaded = DOMAIN docRow
      BY DEF Uploaded
<1>2. ASSUME NEW d \in SearchDocs, NEW t \in WordTypes, _move_document_to_doc_type(d, t)
      PROVE  SearchTypes'
  <2>1. docRow' \in [DOMAIN docRow -> IndexedRows]
        BY <1>1, <1>2 DEF _move_document_to_doc_type, IndexedRows
  <2>2. /\ queued' \in [SearchDocs -> 0 .. MaxQueued]
        /\ \A e \in SearchDocs : queued'[e] # 0 => e \in Uploaded
        BY <1>2, EnqueueKeepsType DEF _move_document_to_doc_type
  <2> QED
      BY <1>1, <1>2, <2>1, <2>2, RowsKeepSearchTypes DEF _move_document_to_doc_type
<1>3. ASSUME NEW d \in SearchDocs, DeleteDocument(d)
      PROVE  SearchTypes'
  <2>1. docRow' \in [DOMAIN docRow -> IndexedRows]
        BY <1>1, <1>3 DEF DeleteDocument, IndexedRows
  <2> QED
      BY <1>1, <1>3, <2>1, RowsKeepSearchTypes DEF DeleteDocument
<1>4. ASSUME NEW s \in IndexTasks, NEW d \in SearchDocs, NEW r \in {"clean", "infected", "failed"},
             ScanDocument(s, d, r)
      PROVE  SearchTypes'
  <2>1. docRow' \in [DOMAIN docRow -> IndexedRows]
        BY <1>1, <1>4 DEF ScanDocument, IndexedRows
  <2>2. indexJob' \in [IndexTasks -> IndexJobs]
        BY <1>4 DEF ScanDocument, IndexWrite, IndexJobs
  <2> QED
      BY <1>1, <1>4, <2>1, <2>2, RowsKeepSearchTypes DEF ScanDocument
<1>5. ASSUME NEW s \in IndexTasks, NEW d \in SearchDocs, TakeMessage(s, d)
      PROVE  SearchTypes'
  <2>1. queued[d] > 0 /\ queued' = [queued EXCEPT ![d] = @ - 1]
        BY <1>5 DEF TakeMessage
  <2>2. d \in Uploaded
        BY <2>1
  <2>3. indexJob' \in [IndexTasks -> IndexJobs]
        BY <1>5, <2>2 DEF TakeMessage, IndexWrite, IndexJobs
  <2>4. /\ queued' \in [SearchDocs -> 0 .. MaxQueued]
        /\ \A e \in SearchDocs : queued'[e] # 0 => e \in Uploaded
        BY <2>1, <2>2, SearchAssumption
  <2> QED
      BY <1>1, <1>5, <2>3, <2>4, RowsKeepSearchTypes DEF TakeMessage, IndexSame
<1>6. ASSUME NEW u \in Searchers, MembersChange(u)
      PROVE  SearchTypes'
      BY <1>1, <1>6, RowsKeepSearchTypes DEF MembersChange
<1>7. ASSUME NEW s \in IndexTasks, IndexRead(s)
      PROVE  SearchTypes'
  <2> DEFINE d == indexJob[s].doc
             j == [at |-> "write", doc |-> d, row |-> docRow[d], found |-> entry[d] # NoEntry]
  <2>1. indexJob[s].at = "read" /\ indexJob' = [indexJob EXCEPT ![s] = j]
        BY <1>7 DEF IndexRead, IndexWrite
  <2>2. d \in Uploaded
        BY <2>1 DEF IndexJobs
  <2>3. j \in IndexJobs
        BY <2>2 DEF IndexJobs
  <2> HIDE DEF j
  <2>4. indexJob' \in [IndexTasks -> IndexJobs]
        BY <2>1, <2>3
  <2> QED
      BY <1>1, <1>7, <2>4, RowsKeepSearchTypes DEF IndexRead, IndexSame
<1>8. ASSUME NEW s \in IndexTasks, indexJob' = [indexJob EXCEPT ![s] = NoIndexJob]
      PROVE  indexJob' \in [IndexTasks -> IndexJobs]
      BY <1>8 DEF IndexJobs, NoIndexJob
<1>9. ASSUME NEW s \in IndexTasks, IndexCommit(s)
      PROVE  SearchTypes'
  <2>1. indexJob[s].at = "write" => indexJob[s].row.type \in WordTypes
        BY DEF IndexJobs, IndexedRows
  <2>2. entry' \in Words
        BY <1>1, <1>9, <2>1 DEF IndexCommit
  <2> QED
      BY <1>1, <1>8, <1>9, <2>2, RowsKeepSearchTypes DEF IndexCommit, IndexSame, IndexWrite
<1>10. ASSUME NEW s \in IndexTasks, IndexFails(s)
       PROVE  SearchTypes'
  <2>1. entry' \in Words
        BY <1>1, <1>10 DEF IndexFails
  <2> QED
      BY <1>1, <1>8, <1>10, <2>1, RowsKeepSearchTypes DEF IndexFails, IndexSame, IndexWrite
<1>11. ASSUME NEW s \in IndexTasks, IndexDies(s)
       PROVE  SearchTypes'
       BY <1>1, <1>8, <1>11, RowsKeepSearchTypes DEF IndexDies, IndexSame, IndexWrite
<1>12. CASE UNCHANGED searchVars
       BY <1>1, <1>12, RowsKeepSearchTypes DEF searchVars
<1> QED
    BY <1>2, <1>3, <1>4, <1>5, <1>6, <1>7, <1>9, <1>10, <1>11, <1>12, UploadsKeepSearchTypes
    DEF SearchNext

\* Documents to be indexed are still to be indexed after a step that leaves
\* their rows and entries alone, and messages, jobs and what is known alone or
\* adds to them.
LEMMA IndexingStaysToCome ==
  ASSUME SearchTypes, IndexFollows, NEW d \in Uploaded,
         docRow'[d] = docRow[d], entry'[d] = entry[d],
         queued[d] # 0 => IndexingToCome(d)',
         d \in scanDue \cup lost \cup late => IndexingToCome(d)',
         \A s \in IndexTasks :
            indexJob[s].at # "idle" /\ indexJob[s].doc = d => \/ indexJob'[s] = indexJob[s]
                                                             \/ IndexingToCome(d)'
  PROVE  Indexable(docRow'[d]) => IndexingToCome(d)' \/ entry'[d] = docRow'[d].type
<1> SUFFICES ASSUME Indexable(docRow'[d]), entry[d] # docRow[d].type
             PROVE  IndexingToCome(d)'
    OBVIOUS
<1>1. IndexingToCome(d)
      BY DEF IndexFollows
<1>2. ASSUME NEW s \in IndexTasks, indexJob[s].at = "read", indexJob[s].doc = d,
             indexJob'[s] = indexJob[s]
      PROVE  IndexingToCome(d)'
      BY <1>2 DEF IndexingToCome
<1>3. ASSUME NEW s \in IndexTasks, indexJob[s].at = "write", indexJob[s].doc = d,
             indexJob[s].row = docRow[d], indexJob'[s] = indexJob[s]
      PROVE  IndexingToCome(d)'
      BY <1>3 DEF IndexingToCome
<1> QED
    BY <1>1, <1>2, <1>3 DEF IndexingToCome

LEMMA IndexFollowsOn ==
  ASSUME SearchIInv, SearchTypes', [SearchNext]_searchVars
  PROVE  IndexFollows'
<1> USE DEF SearchIInv
<1> SUFFICES ASSUME NEW d \in Uploaded'
             PROVE  Indexable(docRow'[d]) => IndexingToCome(d)' \/ entry'[d] = docRow'[d].type
    BY DEF IndexFollows
<1>1. d \in SearchDocs /\ Uploaded = DOMAIN docRow
      BY DEF SearchTypes, SearchTypeOK, Uploaded
<1> DEFINE Goal == Indexable(docRow'[d]) => IndexingToCome(d)' \/ entry'[d] = docRow'[d].type
<1>2. /\ queued'[d] # 0 => IndexingToCome(d)'
      /\ d \in scanDue' \cup lost' \cup late' => IndexingToCome(d)'
      /\ \A s \in IndexTasks : indexJob'[s].at = "read" /\ indexJob'[s].doc = d => IndexingToCome(d)'
      BY DEF IndexingToCome
<1>3. ASSUME NEW e \in SearchDocs, NEW t \in WordTypes, UploadDocument(e, t)
      PROVE  Goal
  <2>1. CASE e = d
        BY <1>2, <1>3, <2>1 DEF UploadDocument
  <2>2. CASE e # d
    <3>1. d \in Uploaded /\ docRow'[d] = docRow[d] /\ entry' = entry /\ indexJob' = indexJob
          BY <1>3, <2>2 DEF UploadDocument, Uploaded
    <3>2. queued'[d] = queued[d] /\ lost \subseteq lost' /\ scanDue \subseteq scanDue' /\ late' = late
          BY <1>1, <1>3, <2>2, EnqueueKeepsType DEF UploadDocument, SearchTypes, SearchTypeOK
    <3> QED
        BY <1>2, <3>1, <3>2, IndexingStaysToCome
  <2> QED
      BY <2>1, <2>2
<1>4. ASSUME NEW e \in SearchDocs, NEW t \in WordTypes, _move_document_to_doc_type(e, t)
      PROVE  Goal
  <2>1. CASE e = d
        BY <1>2, <1>4, <2>1, EnqueueKeepsType
        DEF _move_document_to_doc_type, SearchTypes, SearchTypeOK
  <2>2. CASE e # d
    <3>1. d \in Uploaded /\ docRow'[d] = docRow[d] /\ entry' = entry /\ indexJob' = indexJob
          BY <1>1, <1>4, <2>2 DEF _move_document_to_doc_type, Uploaded, SearchTypes
    <3>2. queued'[d] = queued[d] /\ lost \subseteq lost' /\ scanDue' = scanDue /\ late' = late
          BY <1>1, <1>4, <2>2, EnqueueKeepsType
          DEF _move_document_to_doc_type, SearchTypes, SearchTypeOK
    <3> QED
        BY <1>2, <3>1, <3>2, IndexingStaysToCome
  <2> QED
      BY <2>1, <2>2
<1>5. ASSUME NEW e \in SearchDocs, DeleteDocument(e)
      PROVE  Goal
  <2>1. /\ docRow' = [docRow EXCEPT ![e].is_deleted = TRUE] /\ e \in Uploaded
        /\ UNCHANGED <<entry, queued, scanDue, indexJob, lost, late>>
        BY <1>5 DEF DeleteDocument
  <2>2. d \in Uploaded
        BY <1>1, <2>1 DEF Uploaded
  <2>3. CASE e = d
        BY <1>1, <2>1, <2>2, <2>3 DEF Indexable, SearchTypes, IndexedRows
  <2>4. CASE e # d
        BY <1>1, <1>2, <2>1, <2>2, <2>4, IndexingStaysToCome
  <2> QED
      BY <2>3, <2>4
<1>6. ASSUME NEW s \in IndexTasks, NEW e \in SearchDocs, NEW r \in {"clean", "infected", "failed"},
             ScanDocument(s, e, r)
      PROVE  Goal
  <2>1. /\ docRow' = [docRow EXCEPT ![e].scan_status = r]
        /\ indexJob[s] = NoIndexJob
        /\ indexJob' = [indexJob EXCEPT ![s] = [at |-> "read", doc |-> e]]
        /\ scanDue' = scanDue \ {e} /\ UNCHANGED <<entry, queued, lost, late>>
        BY <1>6 DEF ScanDocument, IndexWrite
  <2>2. indexJob'[s] = [at |-> "read", doc |-> e]
        BY <2>1 DEF SearchTypes
  <2>3. CASE e = d
        BY <1>2, <2>2, <2>3
  <2>4. CASE e # d
    <3>1. d \in Uploaded /\ docRow'[d] = docRow[d]
          BY <1>1, <2>1, <2>4 DEF Uploaded, SearchTypes
    <3>2. \A x \in IndexTasks : indexJob[x].at # "idle" => indexJob'[x] = indexJob[x]
          BY <2>1 DEF SearchTypes, NoIndexJob
    <3> QED
        BY <1>2, <2>1, <2>4, <3>1, <3>2, IndexingStaysToCome
  <2> QED
      BY <2>3, <2>4
<1>7. ASSUME NEW s \in IndexTasks, NEW e \in SearchDocs, TakeMessage(s, e)
      PROVE  Goal
  <2>1. /\ indexJob[s] = NoIndexJob /\ queued' = [queued EXCEPT ![e] = @ - 1]
        /\ indexJob' = [indexJob EXCEPT ![s] = [at |-> "read", doc |-> e]]
        /\ UNCHANGED <<docRow, entry, scanDue, lost, late>>
        BY <1>7 DEF TakeMessage, IndexWrite, IndexSame
  <2>2. indexJob'[s] = [at |-> "read", doc |-> e] /\ d \in Uploaded
        BY <1>1, <2>1 DEF SearchTypes, Uploaded
  <2>3. CASE e = d
        BY <1>2, <2>2, <2>3
  <2>4. CASE e # d
    <3>1. queued'[d] = queued[d]
          BY <1>1, <2>1, <2>4 DEF SearchTypes, SearchTypeOK
    <3>2. \A x \in IndexTasks : indexJob[x].at # "idle" => indexJob'[x] = indexJob[x]
          BY <2>1 DEF SearchTypes, NoIndexJob
    <3> QED
        BY <1>2, <2>1, <2>2, <2>4, <3>1, <3>2, IndexingStaysToCome
  <2> QED
      BY <2>3, <2>4
<1>8. ASSUME NEW u \in Searchers, MembersChange(u)
      PROVE  Goal
  <2>1. /\ UNCHANGED <<docRow, entry, queued, scanDue, indexJob, lost, late>>
        /\ d \in Uploaded
        BY <1>1, <1>8 DEF MembersChange, Uploaded
  <2> QED
      BY <1>2, <2>1, IndexingStaysToCome
<1>9. ASSUME NEW s \in IndexTasks, IndexRead(s)
      PROVE  Goal
  <2> DEFINE e == indexJob[s].doc
             j == [at |-> "write", doc |-> e, row |-> docRow[e], found |-> entry[e] # NoEntry]
  <2>1. /\ indexJob' = [indexJob EXCEPT ![s] = j]
        /\ UNCHANGED <<docRow, entry, queued, scanDue, lost, late>>
        BY <1>9 DEF IndexRead, IndexWrite, IndexSame
  <2>2. indexJob'[s] = j /\ d \in Uploaded
        BY <1>1, <2>1 DEF SearchTypes, Uploaded
  <2>3. e = d => IndexingToCome(d)'
        BY <2>1, <2>2 DEF IndexingToCome
  <2>4. \A x \in IndexTasks \ {s} : indexJob'[x] = indexJob[x]
        BY <2>1 DEF SearchTypes
  <2> HIDE DEF j
  <2> QED
      BY <1>2, <2>1, <2>2, <2>3, <2>4, IndexingStaysToCome
<1>10. ASSUME NEW s \in IndexTasks, indexJob' = [indexJob EXCEPT ![s] = NoIndexJob],
              indexJob[s].at # "idle", indexJob[s].doc # d,
              UNCHANGED <<docRow, queued, scanDue>>, entry'[d] = entry[d],
              lost \ {indexJob[s].doc} \subseteq lost', late \ {indexJob[s].doc} \subseteq late'
       PROVE  Goal
  <2>1. d \in Uploaded
        BY <1>1, <1>10 DEF Uploaded
  <2>2. \A x \in IndexTasks \ {s} : indexJob'[x] = indexJob[x]
        BY <1>10 DEF SearchTypes
  <2> QED
      BY <1>2, <1>10, <2>1, <2>2, IndexingStaysToCome
<1>11. ASSUME NEW s \in IndexTasks, IndexCommit(s)
       PROVE  Goal
  <2> DEFINE e == indexJob[s].doc
             row == indexJob[s].row
  <2>1. /\ indexJob[s].at = "write" /\ indexJob' = [indexJob EXCEPT ![s] = NoIndexJob]
        /\ entry' = [entry EXCEPT ![e] = IF Indexable(row) THEN row.type ELSE NoEntry]
        /\ late' = IF row = docRow[e] THEN late \ {e} ELSE late \cup {e}
        /\ UNCHANGED <<docRow, queued, scanDue, lost>>
        BY <1>11 DEF IndexCommit, IndexWrite, IndexSame
  <2>2. CASE e = d
    <3>1. entry'[d] = IF Indexable(row) THEN row.type ELSE NoEntry
          BY <1>1, <2>1, <2>2 DEF SearchTypes, SearchTypeOK
    <3>2. row # docRow[d] => d \in late'
          BY <2>1, <2>2
    <3> QED
        BY <1>2, <2>1, <3>1, <3>2
  <2>3. CASE e # d
    <3>1. entry'[d] = entry[d]
          BY <1>1, <2>1, <2>3 DEF SearchTypes, SearchTypeOK
    <3> QED
        BY <1>10, <2>1, <2>3, <3>1
  <2> QED
      BY <2>2, <2>3
<1>12. ASSUME NEW s \in IndexTasks, IndexFails(s)
       PROVE  Goal
  <2>1. /\ indexJob[s].at = "write" /\ indexJob' = [indexJob EXCEPT ![s] = NoIndexJob]
        /\ entry' = [entry EXCEPT ![indexJob[s].doc] = "failed"]
        /\ lost' = lost \cup {indexJob[s].doc}
        /\ UNCHANGED <<docRow, queued, scanDue, late>>
        BY <1>12 DEF IndexFails, IndexWrite, IndexSame
  <2>2. indexJob[s].doc # d => entry'[d] = entry[d]
        BY <1>1, <2>1 DEF SearchTypes, SearchTypeOK
  <2> QED
      BY <1>2, <1>10, <2>1, <2>2
<1>13. ASSUME NEW s \in IndexTasks, IndexDies(s)
       PROVE  Goal
  <2>1. /\ indexJob[s] # NoIndexJob /\ indexJob' = [indexJob EXCEPT ![s] = NoIndexJob]
        /\ lost' = lost \cup {indexJob[s].doc}
        /\ UNCHANGED <<docRow, entry, queued, scanDue, late>>
        BY <1>13 DEF IndexDies, IndexWrite, IndexSame
  <2>2. indexJob[s].at # "idle"
        BY <2>1 DEF SearchTypes, IndexJobs, NoIndexJob
  <2> QED
      BY <1>2, <1>10, <2>1, <2>2
<1>14. CASE UNCHANGED searchVars
  <2>1. /\ UNCHANGED <<docRow, entry, queued, scanDue, indexJob, lost, late>>
        /\ d \in Uploaded
        BY <1>1, <1>14 DEF searchVars, Uploaded
  <2> QED
      BY <1>2, <2>1, IndexingStaysToCome
<1> QED
    BY <1>3, <1>4, <1>5, <1>6, <1>7, <1>8, <1>9, <1>11, <1>12, <1>13, <1>14 DEF SearchNext

LEMMA SearchKept == SearchSpec => []SearchIInv
<1>1. SearchInit => SearchIInv
      BY SearchStarts
<1>2. SearchIInv /\ [SearchNext]_searchVars => SearchIInv'
      BY SearchTypesKept, IndexFollowsOn DEF SearchIInv
<1> QED
    BY <1>1, <1>2, PTL DEF SearchSpec

\* Type correctness of the search index (SearchTypeOK), for every set of
\* documents, of workers and of searchers and every bound on the queue.
THEOREM SearchTypeCorrect == SearchSpec => []SearchTypeOK
<1>1. SearchIInv => SearchTypeOK
      BY DEF SearchIInv, SearchTypes
<1> QED
    BY <1>1, SearchKept, PTL

\* When nothing is under way for a document and none of its indexings was lost
\* or overtaken, a search finds it under its present type only, and for every
\* user who may open it as long as fewer are found than the limit lets through
\* (search_documents after index_document), however many indexings, scans,
\* changes of type and deletions overlapped before.
THEOREM SearchFindsWhatIsThere == SearchSpec => []SearchIsExact
<1>1. SearchIInv => SearchIsExact
  <2> SUFFICES ASSUME SearchIInv, NEW u \in Searchers, NEW t \in WordTypes,
                      NEW answer \in search_entries(u, t), NEW d \in Uploaded
               PROVE  LET readable == Indexable(docRow[d]) /\ CanSee(u)
                      IN  /\ d \in answer => readable /\ (Settled(d) => docRow[d].type = t)
                          /\ Settled(d) /\ readable /\ docRow[d].type = t =>
                               d \in answer \/ Cardinality(answer) = SearchLimit
      BY DEF SearchIsExact
  <2>1. /\ answer \subseteq Hits(u, t)
        /\ answer = Hits(u, t) \/ Cardinality(answer) = SearchLimit
        BY DEF search_entries
  <2>2. d \in Hits(u, t) <=> entry[d] = t /\ Indexable(docRow[d]) /\ CanSee(u)
        BY DEF Hits
  <2>3. ASSUME Settled(d), Indexable(docRow[d])
        PROVE  entry[d] = docRow[d].type
    <3>1. \A s \in IndexTasks : indexJob[s].at # "idle" => indexJob[s].doc # d
          BY <2>3 DEF Settled, NoIndexJob
    <3>2. ~ IndexingToCome(d)
          BY <2>3, <3>1 DEF Settled, IndexingToCome
    <3> QED
        BY <2>3, <3>2 DEF SearchIInv, IndexFollows
  <2> QED
      BY <2>1, <2>2, <2>3
<1> QED
    BY <1>1, SearchKept, PTL

-----------------------------------------------------------------------------
(* Archives *)

\* Main projects some of which are in a table.
ArchTables == UNION {[P -> MainRow] : P \in SUBSET ArchProjects}

ArchRequests == [op : {"idle", "listed", "archive", "found", "restore"},
             rows : ArchTables, subs : [ArchProjects -> SUBSET ArchSubs]]

\* Every variable keeps to its type, and sessions to their shape.
ArchTyped ==
    /\ mainRow \in ArchTables /\ mainArchive \in ArchTables
    /\ subRow \in [ArchProjects -> SUBSET ArchSubs]
    /\ subArchive \in [ArchProjects -> SUBSET ArchSubs]
    /\ subsOf \in [ArchProjects -> SUBSET ArchSubs]
    /\ archYear \in 0..LastArchYear
    /\ active \subseteq DOMAIN mainRow /\ documents \subseteq DOMAIN mainRow
    /\ archOutdated \subseteq ArchProjects
    /\ archJob \in [ArchJobs -> ArchRequests]

\* Closed for the time of retention.
Old(r) == r.status = "closed" /\ r.closed_at + ArchiveRetention <= archYear

\* A project that only archiving and restoring can change.
Frozen(p) == Live(p) => Old(mainRow[p]) /\ p \notin active

Migrations(p) == IF Live(p) THEN mainRow[p].migrations ELSE mainArchive[p].migrations

\* What a session has read of a project.
Keeps(j, p) ==
    /\ Old(j.rows[p]) /\ Frozen(p)
    /\ j.rows[p].migrations <= Migrations(p)
    /\ j.op = "archive" /\ Live(p) /\ mainRow[p] = j.rows[p] => j.subs[p] = subRow[p]
    /\ j.op = "restore" /\ p \in DOMAIN mainArchive /\ mainArchive[p] = j.rows[p] =>
          j.subs[p] = subArchive[p]

JobKeeps(j) ==
    /\ \A p \in DOMAIN j.rows : Keeps(j, p)
    /\ \A p \in ArchProjects \ DOMAIN j.rows : j.subs[p] = {}

ArchReadsKeep == \A s \in ArchJobs : JobKeeps(archJob[s])

ArchivedFrozen == \A p \in DOMAIN mainArchive : Old(mainArchive[p]) /\ Frozen(p)

ArchIInv == ArchTyped /\ InOnePlaceWithItsSubs /\ ArchivedFrozen /\ ArchReadsKeep

-----------------------------------------------------------------------------
(* Tables. *)

\* What it is to be a table.
LEMMA TableType ==
    ASSUME NEW f
    PROVE  f \in ArchTables <=> DOMAIN f \subseteq ArchProjects /\ f \in [DOMAIN f -> MainRow]
BY DEF ArchTables

\* Rows are added.
LEMMA InsertedType ==
    ASSUME NEW P \in SUBSET ArchProjects, NEW f \in [P -> MainRow], NEW g \in ArchTables
    PROVE  /\ Inserted(f, g) \in ArchTables
           /\ DOMAIN Inserted(f, g) = P \cup DOMAIN g
           /\ \A p \in P : Inserted(f, g)[p] = f[p]
           /\ \A p \in DOMAIN g \ P : Inserted(f, g)[p] = g[p]
<1>1. DOMAIN Inserted(f, g) = P \cup DOMAIN g
  BY DEF Inserted
<1>2. /\ \A p \in P : Inserted(f, g)[p] = f[p]
      /\ \A p \in DOMAIN g \ P : Inserted(f, g)[p] = g[p]
  BY DEF Inserted
<1>3. Inserted(f, g) \in [P \cup DOMAIN g -> MainRow]
  BY TableType DEF Inserted
<1> QED BY <1>1, <1>2, <1>3, TableType

\* Rows are deleted.
LEMMA DeletedType ==
    ASSUME NEW f \in ArchTables, NEW P
    PROVE  [p \in DOMAIN f \ P |-> f[p]] \in ArchTables
<1>1. [p \in DOMAIN f \ P |-> f[p]] \in [DOMAIN f \ P -> MainRow]
  BY TableType
<1> QED BY <1>1, TableType

\* A migrated row is as old as before.
LEMMA MigratedRow ==
    ASSUME NEW r \in MainRow, NEW c \in MainRow
    PROVE  /\ Migrated(r, c) \in MainRow
           /\ Migrated(r, c).migrations = 1 + c.migrations
           /\ Migrated(r, c).status = r.status /\ Migrated(r, c).closed_at = r.closed_at
<1>1. r = [status |-> r.status, closed_at |-> r.closed_at, migrations |-> r.migrations]
  BY DEF MainRow
<1>2. Migrated(r, c) = [status |-> r.status, closed_at |-> r.closed_at,
                        migrations |-> 1 + c.migrations]
  BY <1>1 DEF Migrated
<1> QED BY <1>2 DEF MainRow

\* A session at rest.
LEMMA RestingJob ==
    /\ NoArchJob.op = "idle" /\ DOMAIN NoArchJob.rows = {}
    /\ NoArchJob.rows \in ArchTables
    /\ \A p \in ArchProjects : NoArchJob.subs[p] = {}
    /\ NoArchJob \in ArchRequests
<1>1. [p \in {} |-> 0] \in ArchTables
  BY TableType
<1> QED BY <1>1 DEF NoArchJob, NoSubs, ArchRequests

LEMMA RestKeeps == JobKeeps(NoArchJob)
BY RestingJob DEF JobKeeps

-----------------------------------------------------------------------------
(* What a session has read still holds. *)

\* Nothing that is known of a project changes.
Calm(p) ==
    /\ Live(p)' = Live(p) /\ (Live(p) => mainRow'[p] = mainRow[p])
    /\ (p \in DOMAIN mainArchive') = (p \in DOMAIN mainArchive)
    /\ p \in DOMAIN mainArchive => mainArchive'[p] = mainArchive[p]
    /\ subRow'[p] = subRow[p] /\ subArchive'[p] = subArchive[p]
    /\ p \in active' => p \in active

\* The project is moved to the other table.
Moved(p) ==
    /\ Migrations(p)' \in Nat /\ Migrations(p) < Migrations(p)'
    /\ Live(p)' => Old(mainRow[p])' /\ p \notin active'
    /\ Live(p)' => Migrations(p) < mainRow'[p].migrations
    /\ p \in DOMAIN mainArchive' =>
          \/ Migrations(p) < mainArchive'[p].migrations
          \/ p \in DOMAIN mainArchive /\ mainArchive'[p] = mainArchive[p]
             /\ subArchive'[p] = subArchive[p]

\* The rows in the tables are rows.
LEMMA RowsOfTables ==
    ASSUME ArchTyped
    PROVE  /\ DOMAIN mainRow \subseteq ArchProjects /\ DOMAIN mainArchive \subseteq ArchProjects
           /\ \A p \in DOMAIN mainRow : mainRow[p] \in MainRow
           /\ \A p \in DOMAIN mainArchive : mainArchive[p] \in MainRow
           /\ \A s \in ArchJobs :
                /\ archJob[s] \in ArchRequests /\ DOMAIN archJob[s].rows \subseteq ArchProjects
                /\ \A p \in DOMAIN archJob[s].rows : archJob[s].rows[p] \in MainRow
BY TableType DEF ArchTyped, ArchRequests

\* Years pass, and what is old stays it.
LEMMA OldStays ==
    ASSUME NEW r \in MainRow, Old(r), archYear \in Nat, archYear' \in Nat, archYear <= archYear'
    PROVE  r.status = "closed" /\ r.closed_at + ArchiveRetention <= archYear'
BY ArchiveAssumption DEF Old, MainRow

\* The session of another one does not change what it has read.
LEMMA StillKeeps ==
    ASSUME ArchIInv, ArchTyped', NEW t \in ArchJobs, archJob'[t] = archJob[t], archYear <= archYear',
           \A p \in ArchProjects : Frozen(p) => Calm(p) \/ Moved(p)
    PROVE  JobKeeps(archJob[t])'
<1> DEFINE j == archJob[t]
<1>1. JobKeeps(j) /\ ArchTyped /\ archYear \in Nat /\ archYear' \in Nat
  BY ArchiveAssumption DEF ArchIInv, ArchReadsKeep, ArchTyped
<1>2. ASSUME NEW p \in DOMAIN j.rows
      PROVE  Keeps(archJob[t], p)'
  <2>1. Keeps(j, p) /\ p \in ArchProjects /\ j.rows[p] \in MainRow
    BY <1>1, RowsOfTables DEF JobKeeps
  <2>2. Old(archJob[t].rows[p])'
    BY <1>1, <2>1, OldStays DEF Keeps, Old
  <2>3. CASE Calm(p)
    <3>1. Frozen(p)'
      <4> SUFFICES ASSUME Live(p)' PROVE Old(mainRow[p])' /\ p \notin active'
        BY DEF Frozen
      <4>1. Live(p) /\ mainRow'[p] = mainRow[p] /\ mainRow[p] \in MainRow
        BY <1>1, <2>3, RowsOfTables DEF Calm, Live
      <4>2. Old(mainRow[p]) /\ p \notin active
        BY <2>1, <4>1 DEF Keeps, Frozen
      <4> QED BY <1>1, <2>3, <4>1, <4>2, OldStays DEF Old, Calm
    <3>2. Live(p)' => mainRow'[p] = mainRow[p]
      BY <2>3 DEF Calm
    <3>3. Migrations(p)' = Migrations(p)
      <4>1. Live(p) \/ p \in DOMAIN mainArchive
        BY <2>1 DEF ArchIInv, InOnePlaceWithItsSubs, Live
      <4> QED BY <2>3, <4>1 DEF Calm, Migrations
    <3> QED BY <2>1, <2>2, <2>3, <3>1, <3>2, <3>3 DEF Keeps, Calm
  <2>4. CASE Moved(p)
    <3>1. Frozen(p)'
      BY <2>4 DEF Moved, Frozen
    <3>2. Migrations(p) \in Nat /\ j.rows[p].migrations \in Nat
      <4>1. Live(p) \/ p \in DOMAIN mainArchive
        BY <2>1 DEF ArchIInv, InOnePlaceWithItsSubs, Live
      <4> QED BY <1>1, <2>1, <4>1, RowsOfTables DEF Migrations, Live, MainRow
    <3>3. Migrations(p)' \in Nat
      BY <2>4 DEF Moved
    <3>4. archJob'[t].rows[p].migrations <= Migrations(p)'
      BY <2>1, <2>4, <3>2, <3>3 DEF Keeps, Moved
    <3>5. Live(p)' => mainRow'[p] # j.rows[p]
      BY <2>1, <2>4, <3>2 DEF Keeps, Moved
    <3>6. p \in DOMAIN mainArchive' /\ mainArchive'[p] = j.rows[p] =>
            /\ p \in DOMAIN mainArchive /\ mainArchive'[p] = mainArchive[p]
            /\ subArchive'[p] = subArchive[p]
      BY <2>1, <2>4, <3>2 DEF Keeps, Moved
    <3> QED BY <2>1, <2>2, <3>1, <3>4, <3>5, <3>6 DEF Keeps
  <2> QED BY <2>1, <2>3, <2>4 DEF Keeps
<1> QED BY <1>1, <1>2 DEF JobKeeps

\* What archiving and restoring do not do, but other requests and the years.
LEMMA WorkStep ==
    ASSUME ArchIInv, ArchTyped', UNCHANGED <<mainArchive, subArchive, archJob, archOutdated>>,
           archYear <= archYear', DOMAIN mainRow' = DOMAIN mainRow,
           \A p \in ArchProjects : Frozen(p) => Calm(p),
           \A p \in ArchProjects : Live(p) /\ subRow[p] = subsOf[p] => subRow'[p] = subsOf'[p],
           \A p \in ArchProjects : ~Live(p) => subRow'[p] = subRow[p] /\ subsOf'[p] = subsOf[p]
    PROVE  ArchIInv'
<1>1. InOnePlaceWithItsSubs'
  BY DEF ArchIInv, InOnePlaceWithItsSubs, Live
<1>2. ASSUME NEW p \in DOMAIN mainArchive'
      PROVE  (Old(mainArchive[p]) /\ Frozen(p))'
  <2>1. p \in DOMAIN mainArchive /\ p \in ArchProjects /\ Old(mainArchive[p]) /\ Frozen(p) /\ Calm(p)
    BY RowsOfTables DEF ArchIInv, ArchivedFrozen
  <2>2. archYear \in Nat /\ archYear' \in Nat
    BY ArchiveAssumption DEF ArchIInv, ArchTyped
  <2>3. Old(mainArchive[p])'
    BY <2>1, <2>2, OldStays, RowsOfTables DEF Old, ArchIInv
  <2>4. Live(p)' => mainRow[p] \in MainRow /\ Old(mainRow[p]) /\ p \notin active /\ mainRow'[p] = mainRow[p]
    BY <2>1, RowsOfTables DEF Live, Frozen, Calm, ArchIInv
  <2>5. Live(p)' => Old(mainRow[p])' /\ p \notin active'
    BY <2>1, <2>2, <2>4, OldStays DEF Old, Calm
  <2> QED BY <2>3, <2>5 DEF Frozen
<1>3. ASSUME NEW t \in ArchJobs PROVE JobKeeps(archJob[t])'
  BY StillKeeps
<1> QED BY <1>1, <1>2, <1>3 DEF ArchIInv, ArchivedFrozen, ArchReadsKeep

\* A session only reads.
LEMMA ArchReadStep ==
    ASSUME ArchIInv, NEW s \in ArchJobs, archJob' = [archJob EXCEPT ![s] = archJob'[s]],
           archJob'[s] \in ArchRequests, JobKeeps(archJob'[s]),
           UNCHANGED <<mainRow, subRow, active, mainArchive, subArchive, documents, archYear,
                       subsOf, archOutdated>>
    PROVE  ArchIInv'
<1>1. ArchTyped'
  BY DEF ArchIInv, ArchTyped
<1>2. InOnePlaceWithItsSubs' /\ ArchivedFrozen'
  BY DEF ArchIInv, InOnePlaceWithItsSubs, ArchivedFrozen, Old, Frozen, Live
<1>3. ASSUME NEW t \in ArchJobs PROVE JobKeeps(archJob[t])'
  <2>1. JobKeeps(archJob'[t])
    BY DEF ArchIInv, ArchReadsKeep, ArchTyped
  <2> QED BY <2>1 DEF JobKeeps, Keeps, Old, Frozen, Live, Migrations
<1> QED BY <1>1, <1>2, <1>3 DEF ArchIInv, ArchReadsKeep

-----------------------------------------------------------------------------
(* Sub-projects, documents, closing, files and years. *)

\* An old project was closed in an earlier year.
LEMMA FrozenIsClosed ==
    ASSUME ArchIInv, NEW p \in ArchProjects, Frozen(p), Live(p)
    PROVE  mainRow[p].status = "closed" /\ mainRow[p].closed_at # archYear /\ p \notin active
BY RowsOfTables, ArchiveAssumption DEF Frozen, Old, Live, ArchIInv, ArchTyped, MainRow

LEMMA AddSubStep ==
    ASSUME ArchIInv, NEW p \in ArchProjects, NEW n \in ArchSubs, AddSub(p, n)
    PROVE  ArchIInv'
<1>1. ArchTyped' /\ archYear \in Nat
  BY ArchiveAssumption DEF ArchIInv, ArchTyped, AddSub, ArchWork, Live
<1>2. ASSUME NEW q \in ArchProjects, Frozen(q) PROVE Calm(q)
  BY <1>2, FrozenIsClosed DEF AddSub, ArchWork, Calm, Live, ArchIInv, ArchTyped
<1>3. /\ UNCHANGED <<mainArchive, subArchive, archJob, archOutdated>>
      /\ archYear <= archYear' /\ DOMAIN mainRow' = DOMAIN mainRow
  BY <1>1 DEF AddSub, ArchWork
<1>4. ASSUME NEW q \in ArchProjects
      PROVE  /\ Live(q) /\ subRow[q] = subsOf[q] => subRow'[q] = subsOf'[q]
             /\ ~Live(q) => subRow'[q] = subRow[q] /\ subsOf'[q] = subsOf[q]
  <2>1. /\ Live(p) /\ subRow' = [subRow EXCEPT ![p] = @ \cup {n}]
        /\ subsOf' = [subsOf EXCEPT ![p] = @ \cup {n}]
    BY DEF AddSub
  <2>2. subRow \in [ArchProjects -> SUBSET ArchSubs] /\ subsOf \in [ArchProjects -> SUBSET ArchSubs]
    BY DEF ArchIInv, ArchTyped
  <2> QED BY <2>1, <2>2
<1> QED BY <1>1, <1>2, <1>3, <1>4, WorkStep

LEMMA CloseStep ==
    ASSUME ArchIInv, NEW p \in ArchProjects, close_project(p)
    PROVE  ArchIInv'
<1>1. mainRow' = [mainRow EXCEPT ![p].status = "closed", ![p].closed_at = archYear]
      /\ DOMAIN mainRow' = DOMAIN mainRow /\ archYear \in Nat
  BY ArchiveAssumption DEF close_project, ArchIInv, ArchTyped
<1>2. mainRow' \in ArchTables
  <2>1. mainRow \in [DOMAIN mainRow -> MainRow] /\ mainRow[p] \in MainRow
    BY TableType, RowsOfTables DEF ArchIInv, ArchTyped, close_project, Live
  <2>2. [mainRow[p] EXCEPT !.status = "closed", !.closed_at = archYear] \in MainRow
    BY <1>1, <2>1 DEF MainRow
  <2>3. mainRow' = [mainRow EXCEPT ![p] = [mainRow[p] EXCEPT !.status = "closed", !.closed_at = archYear]]
    BY <1>1
  <2>4. mainRow' \in [DOMAIN mainRow -> MainRow]
    BY <2>1, <2>2, <2>3
  <2> QED BY <1>1, <2>4, TableType DEF ArchIInv, ArchTyped
<1>3. ArchTyped'
  BY <1>1, <1>2 DEF ArchIInv, ArchTyped, close_project, ArchWork
<1>4. ASSUME NEW q \in ArchProjects, Frozen(q) PROVE Calm(q)
  BY <1>1, <1>4, FrozenIsClosed DEF close_project, ArchWork, Calm, Live
<1> QED BY <1>1, <1>3, <1>4, WorkStep DEF close_project, ArchWork, Live

\* Steps after which the rows of projects are as before.
LEMMA OtherStep ==
    ASSUME ArchIInv,
           \/ \E p \in ArchProjects : AddDocument(p) \/ SubsOver(p)
           \/ CleanupOrphans \/ NextYear
    PROVE  ArchIInv'
<1>1. /\ UNCHANGED <<mainRow, subRow, mainArchive, subArchive, archJob, subsOf, archOutdated>>
      /\ active' \subseteq active /\ documents' \subseteq documents \cup active
      /\ archYear' \in {archYear, archYear + 1} /\ archYear' \in 0..LastArchYear
  BY ArchiveAssumption DEF AddDocument, SubsOver, CleanupOrphans, NextYear, ArchWork, ArchIInv, ArchTyped
<1>2. ArchTyped' /\ archYear \in Nat /\ archYear <= archYear'
  BY <1>1, ArchiveAssumption DEF ArchIInv, ArchTyped
<1>3. ASSUME NEW q \in ArchProjects PROVE Calm(q)
  BY <1>1 DEF Calm, Live
<1> QED BY <1>1, <1>2, <1>3, WorkStep

-----------------------------------------------------------------------------
(* Archiving and restoring. *)

\* The shape of a request.
LEMMA RequestShape ==
    ASSUME NEW j \in ArchRequests
    PROVE  /\ j = [op |-> j.op, rows |-> j.rows, subs |-> j.subs]
           /\ j.rows \in ArchTables /\ j.subs \in [ArchProjects -> SUBSET ArchSubs]
BY DEF ArchRequests

\* A candidate was closed long ago and has no active sub-project.
LEMMA CandidateFrozen ==
    ASSUME ArchIInv, NEW p \in list_candidate_projects
    PROVE  p \in DOMAIN mainRow /\ Old(mainRow[p]) /\ Frozen(p)
BY DEF list_candidate_projects, Frozen, Old, Live

LEMMA ListStep ==
    ASSUME ArchIInv, NEW s \in ArchJobs, ArchiveList(s)
    PROVE  ArchIInv'
<1> DEFINE rows == [p \in list_candidate_projects |-> mainRow[p]]
           j == [op |-> "listed", rows |-> rows, subs |-> NoSubs]
<1>2. archJob' = [archJob EXCEPT ![s] = j] /\ archJob'[s] = j
  BY DEF ArchiveList, ArchWrite, ArchIInv, ArchTyped
<1>3. j \in ArchRequests
  <2>1. rows \in [list_candidate_projects -> MainRow] /\ list_candidate_projects \subseteq ArchProjects
    BY CandidateFrozen, RowsOfTables DEF ArchIInv
  <2> QED BY <2>1, TableType DEF ArchRequests, NoSubs
<1>4. JobKeeps(j)
  <2>1. ASSUME NEW p \in DOMAIN rows PROVE Keeps(j, p)
    <3>1. p \in DOMAIN mainRow /\ Old(mainRow[p]) /\ Frozen(p) /\ rows[p] = mainRow[p]
      BY CandidateFrozen
    <3>2. mainRow[p].migrations <= mainRow[p].migrations
      BY <3>1, RowsOfTables DEF ArchIInv, MainRow
    <3> QED BY <3>1, <3>2 DEF Keeps, Migrations, Live
  <2> QED BY <2>1 DEF JobKeeps, NoSubs
<1> QED BY <1>2, <1>3, <1>4, ArchReadStep DEF ArchiveList, ArchRest, ArchReads

LEMMA ListSubsStep ==
    ASSUME ArchIInv, NEW s \in ArchJobs, ArchiveListSubs(s)
    PROVE  ArchIInv'
<1> DEFINE old == archJob[s]
           subs == [p \in ArchProjects |-> IF p \in DOMAIN old.rows THEN subRow[p] ELSE {}]
           j == [op |-> "archive", rows |-> old.rows, subs |-> subs]
<1>1. old \in ArchRequests /\ JobKeeps(old)
  BY DEF ArchIInv, ArchTyped, ArchReadsKeep
<1>2. archJob' = [archJob EXCEPT ![s] = j] /\ archJob'[s] = j
  BY DEF ArchiveListSubs, ArchWrite, ArchIInv, ArchTyped
<1>3. j \in ArchRequests
  BY <1>1, RequestShape DEF ArchRequests, ArchIInv, ArchTyped
<1>4. JobKeeps(j)
  <2>1. DOMAIN old.rows \subseteq ArchProjects
    BY RowsOfTables DEF ArchIInv
  <2> QED BY <1>1, <2>1 DEF JobKeeps, Keeps
<1> QED BY <1>2, <1>3, <1>4, ArchReadStep DEF ArchiveListSubs, ArchRest, ArchReads

LEMMA RestoreReadStep ==
    ASSUME ArchIInv, NEW s \in ArchJobs, NEW p \in ArchProjects, RestoreRead(s, p)
    PROVE  ArchIInv'
<1> DEFINE rows == [q \in {p} |-> mainArchive[q]]
           j == [op |-> "found", rows |-> rows, subs |-> NoSubs]
<1>2. archJob' = [archJob EXCEPT ![s] = j] /\ archJob'[s] = j
  BY DEF RestoreRead, ArchWrite, ArchIInv, ArchTyped
<1>3. p \in DOMAIN mainArchive /\ mainArchive[p] \in MainRow /\ ~Live(p)
  BY RowsOfTables DEF RestoreRead, ArchIInv
<1>4. j \in ArchRequests
  <2>1. rows \in [{p} -> MainRow]
    BY <1>3
  <2> QED BY <2>1, TableType DEF ArchRequests, NoSubs
<1>5. JobKeeps(j)
  <2>1. Old(mainArchive[p]) /\ Frozen(p)
    BY <1>3 DEF ArchIInv, ArchivedFrozen
  <2>2. mainArchive[p].migrations <= Migrations(p)
    BY <1>3 DEF Migrations, MainRow
  <2>3. Keeps(j, p)
    BY <2>1, <2>2 DEF Keeps
  <2> QED BY <2>3 DEF JobKeeps, NoSubs
<1> QED BY <1>2, <1>4, <1>5, ArchReadStep DEF RestoreRead, ArchRest, ArchReads

LEMMA RestoreReadSubsStep ==
    ASSUME ArchIInv, NEW s \in ArchJobs, RestoreReadSubs(s)
    PROVE  ArchIInv'
<1> DEFINE old == archJob[s]
           kept == {p \in DOMAIN old.rows \cap DOMAIN mainArchive : mainArchive[p] = old.rows[p]}
           subs == [p \in ArchProjects |-> IF p \in kept THEN subArchive[p] ELSE {}]
           j == [op |-> "restore", rows |-> old.rows, subs |-> subs]
<1>1. old \in ArchRequests /\ JobKeeps(old)
  BY DEF ArchIInv, ArchTyped, ArchReadsKeep
<1>2. archJob' = [archJob EXCEPT ![s] = j] /\ archJob'[s] = j
  BY DEF RestoreReadSubs, ArchWrite, ArchIInv, ArchTyped
<1>3. j \in ArchRequests
  BY <1>1, RequestShape DEF ArchRequests, ArchIInv, ArchTyped
<1>4. JobKeeps(j)
  <2>1. DOMAIN old.rows \subseteq ArchProjects
    BY RowsOfTables DEF ArchIInv
  <2> QED BY <1>1, <2>1 DEF JobKeeps, Keeps
<1> QED BY <1>2, <1>3, <1>4, ArchReadStep DEF RestoreReadSubs, ArchRest, ArchReads

LEMMA RollbackStep ==
    ASSUME ArchIInv, NEW s \in ArchJobs, ArchiveRollback(s)
    PROVE  ArchIInv'
<1>1. archJob' = [archJob EXCEPT ![s] = NoArchJob] /\ archJob'[s] = NoArchJob
  BY DEF ArchiveRollback, ArchWrite, ArchIInv, ArchTyped
<1> QED BY <1>1, RestingJob, RestKeeps, ArchReadStep DEF ArchiveRollback, ArchRest, ArchReads

\* The run commits: its projects go to the archive.
LEMMA ArchiveStep ==
    ASSUME ArchIInv, NEW s \in ArchJobs, archive_eligible_projects(s)
    PROVE  ArchIInv'
<1> DEFINE j == archJob[s]
           projects == DOMAIN j.rows
           new == [p \in projects |-> Migrated(j.rows[p], mainRow[p])]
<1>1. /\ j.op = "archive" /\ projects \cap DOMAIN mainArchive = {}
      /\ mainArchive' = Inserted(new, mainArchive)
      /\ subArchive' = [p \in ArchProjects |-> subArchive[p] \cup j.subs[p]]
      /\ mainRow' = [p \in DOMAIN mainRow \ projects |-> mainRow[p]]
      /\ subRow' = [p \in ArchProjects |-> IF p \in projects THEN {} ELSE subRow[p]]
      /\ documents' = documents \ projects
      /\ archOutdated' = archOutdated \cup {p \in projects : j.rows[p] # mainRow[p]}
      /\ UNCHANGED <<active, archYear, subsOf>>
  BY DEF archive_eligible_projects, delete_project_graph, ArchRest
<1>2. archJob' = [archJob EXCEPT ![s] = NoArchJob] /\ archJob'[s] = NoArchJob
  BY DEF archive_eligible_projects, ArchWrite, ArchIInv, ArchTyped
<1>3. /\ ArchTyped /\ JobKeeps(j) /\ j \in ArchRequests /\ projects \subseteq ArchProjects
      /\ projects \subseteq DOMAIN mainRow
      /\ DOMAIN mainRow \cup DOMAIN mainArchive = ArchProjects
  BY <1>1, RowsOfTables DEF ArchIInv, ArchReadsKeep, InOnePlaceWithItsSubs
<1>4. \A p \in projects : Keeps(j, p) /\ Live(p) /\ Old(mainRow[p]) /\ p \notin active
  BY <1>3 DEF JobKeeps, Keeps, Frozen, Live
<1>5. \A p \in projects : /\ new[p] \in MainRow /\ Old(new[p])
                          /\ new[p].migrations = 1 + mainRow[p].migrations
  <2> TAKE p \in projects
  <2>1. j.rows[p] \in MainRow /\ mainRow[p] \in MainRow /\ Old(j.rows[p])
    BY <1>3, <1>4, RowsOfTables DEF Keeps
  <2> QED BY <2>1, MigratedRow DEF Old
<1>6. /\ mainArchive' \in ArchTables /\ DOMAIN mainArchive' = projects \cup DOMAIN mainArchive
      /\ \A p \in projects : mainArchive'[p] = new[p]
      /\ \A p \in DOMAIN mainArchive : mainArchive'[p] = mainArchive[p]
  <2>1. new \in [projects -> MainRow]
    BY <1>5
  <2>2. mainArchive \in ArchTables /\ projects \in SUBSET ArchProjects
    BY <1>3 DEF ArchTyped
  <2> HIDE DEF new
  <2>3. /\ Inserted(new, mainArchive) \in ArchTables
        /\ DOMAIN Inserted(new, mainArchive) = projects \cup DOMAIN mainArchive
        /\ \A p \in projects : Inserted(new, mainArchive)[p] = new[p]
        /\ \A p \in DOMAIN mainArchive \ projects : Inserted(new, mainArchive)[p] = mainArchive[p]
    BY ZenonT(60), <2>1, <2>2, InsertedType
  <2> QED BY <1>1, <2>3
<1>7. mainRow' \in ArchTables
  BY <1>1, <1>3, DeletedType DEF ArchTyped
<1>8. ArchTyped'
  <2>1. subArchive' \in [ArchProjects -> SUBSET ArchSubs]
    BY <1>1, <1>3, RequestShape DEF ArchTyped
  <2>2. archOutdated' \subseteq ArchProjects
    BY <1>1, <1>3 DEF ArchTyped
  <2>3. active' \subseteq DOMAIN mainRow' /\ documents' \subseteq DOMAIN mainRow'
    BY <1>1, <1>3, <1>4 DEF ArchTyped
  <2>4. archJob' \in [ArchJobs -> ArchRequests]
    BY <1>2, <1>3, RestingJob DEF ArchTyped
  <2>5. subRow' \in [ArchProjects -> SUBSET ArchSubs]
    BY <1>1, <1>3 DEF ArchTyped
  <2> QED BY <1>1, <1>3, <1>6, <1>7, <2>1, <2>2, <2>3, <2>4, <2>5 DEF ArchTyped
<1>9. \A p \in projects : Moved(p)
  <2> TAKE p \in projects
  <2>1. ~Live(p)' /\ mainArchive'[p].migrations = 1 + mainRow[p].migrations
    BY <1>1, <1>5, <1>6 DEF Live
  <2>2. mainRow[p].migrations \in Nat
    BY <1>3, RowsOfTables DEF MainRow
  <2>3. Migrations(p) = mainRow[p].migrations /\ Migrations(p)' = mainArchive'[p].migrations
    BY <1>4, <2>1 DEF Migrations
  <2> QED BY <2>1, <2>2, <2>3 DEF Moved
<1>10. \A p \in ArchProjects \ projects : Calm(p)
  BY <1>1, <1>3, <1>6 DEF Calm, Live, JobKeeps, ArchTyped
<1>11. InOnePlaceWithItsSubs'
  <2>1. DOMAIN mainRow' \cup DOMAIN mainArchive' = ArchProjects
    BY <1>1, <1>3, <1>6
  <2>2. ASSUME NEW p \in projects \ archOutdated'
        PROVE  ~Live(p)' /\ subRow'[p] = {} /\ subArchive'[p] = subsOf'[p]
    <3>1. j.rows[p] = mainRow[p] /\ p \notin archOutdated /\ p \in ArchProjects
      BY <1>1, <1>3
    <3>2. j.subs[p] = subRow[p] /\ subRow[p] = subsOf[p] /\ subArchive[p] = {}
      BY <1>1, <1>4, <3>1 DEF Keeps, ArchIInv, InOnePlaceWithItsSubs
    <3> QED BY <1>1, <3>1, <3>2 DEF Live
  <2>3. ASSUME NEW p \in ArchProjects \ archOutdated', p \notin projects
        PROVE  /\ ~ (Live(p)' /\ p \in DOMAIN mainArchive')
               /\ subRow'[p] = IF Live(p)' THEN subsOf'[p] ELSE {}
               /\ subArchive'[p] = IF Live(p)' THEN {} ELSE subsOf'[p]
    <3>1. Calm(p) /\ p \notin archOutdated
      BY <1>1, <1>10, <2>3
    <3> QED BY <1>1, <2>3, <3>1 DEF Calm, ArchIInv, InOnePlaceWithItsSubs
  <2> QED BY <2>1, <2>2, <2>3 DEF InOnePlaceWithItsSubs
<1>12. ArchivedFrozen'
  <2>1. ASSUME NEW p \in projects PROVE Old(mainArchive[p])' /\ ~Live(p)'
    BY <1>1, <1>5, <1>6 DEF Old, Live
  <2>2. ASSUME NEW p \in DOMAIN mainArchive PROVE Old(mainArchive[p])' /\ Frozen(p)'
    <3>1. Old(mainArchive[p]) /\ Frozen(p) /\ p \in ArchProjects \ projects
      BY <1>1, <1>3 DEF ArchIInv, ArchivedFrozen
    <3> QED BY <1>1, <1>6, <3>1, <1>10 DEF Calm, Frozen, Old
  <2> QED BY <1>6, <2>1, <2>2 DEF ArchivedFrozen, Frozen
<1>13. ArchReadsKeep'
  <2>1. JobKeeps(archJob[s])'
    BY <1>2, RestingJob DEF JobKeeps
  <2>2. ASSUME NEW t \in ArchJobs \ {s} PROVE JobKeeps(archJob[t])'
    <3>1. archJob'[t] = archJob[t] /\ archYear <= archYear'
      BY <1>1, <1>2, <1>3, ArchiveAssumption DEF ArchTyped
    <3> QED BY <1>8, <1>9, <1>10, <3>1, StillKeeps
  <2> QED BY <2>1, <2>2 DEF ArchReadsKeep
<1> QED BY <1>8, <1>11, <1>12, <1>13 DEF ArchIInv

\* The restoration commits: its project comes back.
LEMMA RestoreStep ==
    ASSUME ArchIInv, NEW s \in ArchJobs, restore_main_project(s)
    PROVE  ArchIInv'
<1> DEFINE j == archJob[s]
           projects == DOMAIN j.rows
           kept == {p \in projects : mainArchive[p] = j.rows[p]}
           new == [p \in projects |-> Migrated(j.rows[p], mainArchive[p])]
<1>1. /\ j.op = "restore" /\ \A p \in projects : ~Live(p)
      /\ mainRow' = Inserted(new, mainRow)
      /\ subRow' = [p \in ArchProjects |-> subRow[p] \cup j.subs[p]]
      /\ mainArchive' = [p \in DOMAIN mainArchive \ kept |-> mainArchive[p]]
      /\ subArchive' = [p \in ArchProjects |->
                          IF p \in kept THEN subArchive[p] \ j.subs[p] ELSE subArchive[p]]
      /\ archOutdated' = archOutdated \cup (projects \ kept)
      /\ UNCHANGED <<active, archYear, subsOf, documents>>
  BY DEF restore_main_project, delete_archive_project_snapshots, ArchRest
<1>2. archJob' = [archJob EXCEPT ![s] = NoArchJob] /\ archJob'[s] = NoArchJob
  BY DEF restore_main_project, ArchWrite, ArchIInv, ArchTyped
<1>3. /\ ArchTyped /\ JobKeeps(j) /\ j \in ArchRequests /\ projects \subseteq ArchProjects
      /\ projects \subseteq DOMAIN mainArchive
      /\ DOMAIN mainRow \cup DOMAIN mainArchive = ArchProjects
  BY <1>1, RowsOfTables DEF ArchIInv, ArchReadsKeep, InOnePlaceWithItsSubs, Live
<1>4. \A p \in projects : Keeps(j, p) /\ Old(j.rows[p]) /\ p \notin active
  BY <1>1, <1>3 DEF JobKeeps, Keeps, Live, ArchTyped
<1>5. \A p \in projects : /\ new[p] \in MainRow /\ Old(new[p])
                          /\ new[p].migrations = 1 + mainArchive[p].migrations
  <2> TAKE p \in projects
  <2>1. j.rows[p] \in MainRow /\ mainArchive[p] \in MainRow /\ Old(j.rows[p])
    BY <1>3, <1>4, RowsOfTables
  <2> QED BY <2>1, MigratedRow DEF Old
<1>6. /\ mainRow' \in ArchTables /\ DOMAIN mainRow' = projects \cup DOMAIN mainRow
      /\ \A p \in projects : mainRow'[p] = new[p]
      /\ \A p \in DOMAIN mainRow : mainRow'[p] = mainRow[p]
  <2>1. new \in [projects -> MainRow]
    BY <1>5
  <2>2. mainRow \in ArchTables /\ projects \in SUBSET ArchProjects
    BY <1>3 DEF ArchTyped
  <2> HIDE DEF new
  <2>3. /\ Inserted(new, mainRow) \in ArchTables
        /\ DOMAIN Inserted(new, mainRow) = projects \cup DOMAIN mainRow
        /\ \A p \in projects : Inserted(new, mainRow)[p] = new[p]
        /\ \A p \in DOMAIN mainRow \ projects : Inserted(new, mainRow)[p] = mainRow[p]
    BY ZenonT(60), <2>1, <2>2, InsertedType
  <2> QED BY <1>1, <2>3 DEF Live
<1>7. mainArchive' \in ArchTables
  BY <1>1, <1>3, DeletedType DEF ArchTyped
<1>8. ArchTyped'
  <2>1. subArchive' \in [ArchProjects -> SUBSET ArchSubs]
    BY <1>1, <1>3 DEF ArchTyped
  <2>2. archOutdated' \subseteq ArchProjects
    BY <1>1, <1>3 DEF ArchTyped
  <2>3. active' \subseteq DOMAIN mainRow' /\ documents' \subseteq DOMAIN mainRow'
    BY <1>1, <1>3, <1>6 DEF ArchTyped
  <2>4. archJob' \in [ArchJobs -> ArchRequests]
    BY <1>2, <1>3, RestingJob DEF ArchTyped
  <2>5. subRow' \in [ArchProjects -> SUBSET ArchSubs]
    BY <1>1, <1>3, RequestShape DEF ArchTyped
  <2> QED BY <1>1, <1>3, <1>6, <1>7, <2>1, <2>2, <2>3, <2>4, <2>5 DEF ArchTyped
<1>9. \A p \in projects : Moved(p)
  <2> TAKE p \in projects
  <2>1. Live(p)' /\ mainRow'[p] = new[p] /\ ~Live(p)
    BY <1>1, <1>6 DEF Live
  <2>2. mainArchive[p].migrations \in Nat
    BY <1>3, RowsOfTables DEF MainRow
  <2>3. Migrations(p) = mainArchive[p].migrations /\ Migrations(p)' = 1 + mainArchive[p].migrations
    BY <1>5, <2>1 DEF Migrations
  <2>4. mainRow'[p].migrations = 1 + mainArchive[p].migrations
    BY <1>5, <2>1
  <2>5. Old(mainRow[p])' /\ p \notin active'
    BY <1>1, <1>4, <1>5, <2>1 DEF Old
  <2>6. p \in DOMAIN mainArchive' => mainArchive'[p] = mainArchive[p] /\ subArchive'[p] = subArchive[p]
    BY <1>1, <1>3
  <2> QED BY <1>3, <2>2, <2>3, <2>4, <2>5, <2>6 DEF Moved
<1>10. \A p \in ArchProjects \ projects : Calm(p)
  BY <1>1, <1>3, <1>6 DEF Calm, Live, JobKeeps, ArchTyped
<1>11. InOnePlaceWithItsSubs'
  <2>1. DOMAIN mainRow' \cup DOMAIN mainArchive' = ArchProjects
    BY <1>1, <1>3, <1>6
  <2>2. ASSUME NEW p \in projects \ archOutdated'
        PROVE  /\ Live(p)' /\ p \notin DOMAIN mainArchive'
               /\ subRow'[p] = subsOf'[p] /\ subArchive'[p] = {}
    <3>1. p \in kept /\ p \notin archOutdated /\ p \in ArchProjects /\ ~Live(p)
      BY <1>1, <1>3
    <3>2. j.subs[p] = subArchive[p] /\ subArchive[p] = subsOf[p] /\ subRow[p] = {}
      BY <1>1, <1>3, <1>4, <3>1 DEF Keeps, ArchIInv, InOnePlaceWithItsSubs
    <3> QED BY <1>1, <1>6, <3>1, <3>2 DEF Live
  <2>3. ASSUME NEW p \in ArchProjects \ archOutdated', p \notin projects
        PROVE  /\ ~ (Live(p)' /\ p \in DOMAIN mainArchive')
               /\ subRow'[p] = IF Live(p)' THEN subsOf'[p] ELSE {}
               /\ subArchive'[p] = IF Live(p)' THEN {} ELSE subsOf'[p]
    <3>1. Calm(p) /\ p \notin archOutdated
      BY <1>1, <1>10, <2>3
    <3> QED BY <1>1, <2>3, <3>1 DEF Calm, ArchIInv, InOnePlaceWithItsSubs
  <2> QED BY <2>1, <2>2, <2>3 DEF InOnePlaceWithItsSubs
<1>12. ArchivedFrozen'
  <2>1. ASSUME NEW p \in DOMAIN mainArchive' PROVE Old(mainArchive[p])' /\ Frozen(p)'
    <3>1. /\ Old(mainArchive[p]) /\ Frozen(p) /\ p \in ArchProjects
          /\ mainArchive'[p] = mainArchive[p]
      BY <1>1, <1>3 DEF ArchIInv, ArchivedFrozen
    <3>2. CASE p \in projects
      BY <1>1, <1>9, <3>1, <3>2 DEF Moved, Frozen, Old
    <3>3. CASE p \notin projects
      BY <1>1, <1>10, <3>1, <3>3 DEF Calm, Frozen, Old
    <3> QED BY <3>2, <3>3
  <2> QED BY <2>1 DEF ArchivedFrozen
<1>13. ArchReadsKeep'
  <2>1. JobKeeps(archJob[s])'
    BY <1>2, RestingJob DEF JobKeeps
  <2>2. ASSUME NEW t \in ArchJobs \ {s} PROVE JobKeeps(archJob[t])'
    <3>1. archJob'[t] = archJob[t] /\ archYear <= archYear'
      BY <1>1, <1>2, <1>3, ArchiveAssumption DEF ArchTyped
    <3> QED BY <1>8, <1>9, <1>10, <3>1, StillKeeps
  <2> QED BY <2>1, <2>2 DEF ArchReadsKeep
<1> QED BY <1>8, <1>11, <1>12, <1>13 DEF ArchIInv

-----------------------------------------------------------------------------

\* Nothing is archived, and nobody is at work.
LEMMA ArchInitHolds == ArchInit => ArchIInv
<1> SUFFICES ASSUME ArchInit PROVE ArchIInv
  OBVIOUS
<1>1. mainRow \in [ArchProjects -> MainRow] /\ DOMAIN mainRow = ArchProjects
  BY DEF ArchInit, MainRow
<1>2. DOMAIN mainArchive = {} /\ mainArchive \in [{} -> MainRow]
  BY DEF ArchInit
<1>3. ArchTyped
  <2>1. mainRow \in ArchTables /\ mainArchive \in ArchTables
    BY <1>1, <1>2, TableType
  <2>2. archJob \in [ArchJobs -> ArchRequests]
    BY RestingJob DEF ArchInit
  <2>3. archYear \in 0..LastArchYear
    BY ArchiveAssumption DEF ArchInit
  <2> QED BY <2>1, <2>2, <2>3 DEF ArchInit, ArchTyped, NoSubs
<1>4. InOnePlaceWithItsSubs
  BY <1>1, <1>2 DEF ArchInit, InOnePlaceWithItsSubs, Live, NoSubs
<1> QED BY <1>2, <1>3, <1>4, RestKeeps DEF ArchInit, ArchIInv, ArchivedFrozen, ArchReadsKeep

\* Every step keeps the invariant.
LEMMA ArchStepKeeps == ArchIInv /\ [ArchNext]_archVars => ArchIInv'
<1> SUFFICES ASSUME ArchIInv, [ArchNext]_archVars PROVE ArchIInv'
  OBVIOUS
<1>1. CASE UNCHANGED archVars
  BY <1>1 DEF archVars, ArchIInv, ArchTyped, InOnePlaceWithItsSubs, Live, ArchivedFrozen, ArchReadsKeep,
              JobKeeps, Keeps, Old, Frozen, Migrations
<1>2. CASE \E p \in ArchProjects : \E n \in ArchSubs : AddSub(p, n)
  BY <1>2, AddSubStep
<1>3. CASE \E p \in ArchProjects : close_project(p)
  BY <1>3, CloseStep
<1>4. CASE \/ \E p \in ArchProjects : AddDocument(p) \/ SubsOver(p)
           \/ CleanupOrphans \/ NextYear
  BY <1>4, OtherStep
<1>5. CASE \E s \in ArchJobs : \/ ArchiveList(s) \/ ArchiveListSubs(s)
                               \/ archive_eligible_projects(s) \/ ArchiveRollback(s)
  BY <1>5, ListStep, ListSubsStep, ArchiveStep, RollbackStep
<1>6. CASE \E s \in ArchJobs : \/ \E p \in ArchProjects : RestoreRead(s, p)
                               \/ RestoreReadSubs(s) \/ restore_main_project(s)
  BY <1>6, RestoreReadStep, RestoreReadSubsStep, RestoreStep
<1> QED BY <1>1, <1>2, <1>3, <1>4, <1>5, <1>6 DEF ArchNext

-----------------------------------------------------------------------------
\* The strengthened invariant holds in every state.
THEOREM ArchInductive == ArchSpec => []ArchIInv
BY ArchInitHolds, ArchStepKeeps, PTL DEF ArchSpec

\* Every variable keeps to its type: the rows of archive_eligible_projects and
\* restore_main_project are rows of projects.
THEOREM ArchivesTypeCorrect == ArchSpec => []ArchTypeOK
<1>1. ArchIInv => ArchTypeOK
  <2> SUFFICES ASSUME ArchIInv PROVE ArchTypeOK
    OBVIOUS
  <2>1. /\ DOMAIN mainRow \subseteq ArchProjects /\ mainRow \in [DOMAIN mainRow -> MainRow]
        /\ DOMAIN mainArchive \subseteq ArchProjects /\ mainArchive \in [DOMAIN mainArchive -> MainRow]
    BY TableType DEF ArchIInv, ArchTyped
  <2>2. ASSUME NEW s \in ArchJobs
        PROVE  /\ archJob[s].op \in {"idle", "listed", "archive", "found", "restore"}
               /\ DOMAIN archJob[s].rows \subseteq ArchProjects
               /\ archJob[s].rows \in [DOMAIN archJob[s].rows -> MainRow]
               /\ archJob[s].subs \in [ArchProjects -> SUBSET ArchSubs]
    <3>1. archJob[s] \in ArchRequests
      BY DEF ArchIInv, ArchTyped
    <3> QED BY <3>1, TableType DEF ArchRequests
  <2> QED BY <2>1, <2>2 DEF ArchIInv, ArchTyped, ArchTypeOK
<1> QED BY <1>1, ArchInductive, PTL

\* No project is lost; and it is live or archived, with all its sub-projects,
\* unless a session has committed what it had read of the project two moves
\* ago (archive_eligible_projects, restore_main_project).
THEOREM ProjectsAreInOnePlace == ArchSpec => []InOnePlaceWithItsSubs
<1>1. ArchIInv => InOnePlaceWithItsSubs
  BY DEF ArchIInv
<1> QED BY <1>1, ArchInductive, PTL

-----------------------------------------------------------------------------
(* Suggestions for the type of a document *)

\* A set is listed without repetition, in order, and to the end.
LEMMA ListIsComplete ==
    ASSUME NEW S, IsFiniteSet(S), NEW rank, \A x \in S : rank[x] \in Int
    PROVE  LET n == Cardinality(S)
               q == Listed(S, rank)
           IN  /\ n \in Nat /\ q \in [1 .. n -> S]
               /\ \A i, k \in 1 .. n : q[i] = q[k] => i = k
               /\ \A i, k \in 1 .. n : i < k => rank[q[i]] <= rank[q[k]]
               /\ \A x \in S : \E i \in 1 .. n : q[i] = x
<1> DEFINE n == Cardinality(S)
           q == Listed(S, rank)
           InOrder(p) == \A i, k \in DOMAIN p : i < k => rank[p[i]] <= rank[p[k]]
<1>1. n \in Nat
  BY FS_CardinalityType
<1>2. \E p \in Injection(1 .. n, S) : InOrder(p)
  <2>1. PICK p \in Injection(1 .. n, S) : Ordered(p, rank)
    BY OrderExists
  <2>2. InOrder(p)
    BY <2>1 DEF Ordered
  <2> QED BY <2>1, <2>2
<1>3. q = CHOOSE p \in Injection(1 .. n, S) : InOrder(p)
  BY DEF Listed
<1>4. q \in Injection(1 .. n, S) /\ InOrder(q)
  <2> HIDE DEF q, InOrder
  <2> QED BY <1>2, <1>3
<1> HIDE DEF q
<1>5. q \in Surjection(1 .. n, S)
  BY <1>4, ListedAll
<1>6. q \in [1 .. n -> S]
  BY <1>4 DEF Injection
<1>7. \A i, k \in 1 .. n : q[i] = q[k] => i = k
  BY <1>4 DEF Injection, IsInjective
<1>8. \A i, k \in 1 .. n : i < k => rank[q[i]] <= rank[q[k]]
  BY <1>4, <1>6
<1>9. \A x \in S : \E i \in 1 .. n : q[i] = x
  BY <1>5 DEF Surjection
<1> HIDE DEF n
<1> QED BY <1>1, <1>6, <1>7, <1>8, <1>9 DEF q, n

\* A sequence of what another one has at some of its positions.
KeepsOrder(kept, seq, I, E) ==
    LET n == Cardinality(I)
    IN  /\ n \in Nat /\ kept \in [1 .. n -> E]
        /\ \E q : /\ q \in [1 .. n -> I]
                  /\ \A k \in 1 .. n : kept[k] = seq[q[k]]
                  /\ \A i, k \in 1 .. n : i < k => q[i] < q[k]
                  /\ \A x \in I : \E k \in 1 .. n : q[k] = x

\* The positions kept are taken in their order, each of them once.
LEMMA KeptInOrder ==
    ASSUME NEW m \in Nat, NEW E, NEW seq, seq \in [1 .. m -> E], NEW I, I \in SUBSET (1 .. m)
    PROVE  KeepsOrder(Kept(seq, I), seq, I, E)
<1> DEFINE n == Cardinality(I)
           rank == [i \in I |-> i]
           q == Listed(I, rank)
<1>1. IsFiniteSet(I) /\ I \subseteq 1 .. m /\ \A i \in I : i \in Nat /\ rank[i] \in Int
  <2>1. IsFiniteSet(1 .. m)
    BY FS_Interval
  <2>2. IsFiniteSet(I)
    BY <2>1, FS_Subset
  <2>3. \A i \in I : i \in Nat
    OBVIOUS
  <2> QED BY <2>2, <2>3
<1>2. /\ n \in Nat /\ q \in [1 .. n -> I]
      /\ \A i, k \in 1 .. n : q[i] = q[k] => i = k
      /\ \A i, k \in 1 .. n : i < k => rank[q[i]] <= rank[q[k]]
      /\ \A x \in I : \E k \in 1 .. n : q[k] = x
  <2> HIDE DEF rank
  <2> QED BY <1>1, ListIsComplete
<1>3. Kept(seq, I) = [k \in 1 .. n |-> seq[q[k]]]
  BY DEF Kept
<1> HIDE DEF q, n
<1>4. ASSUME NEW i \in 1 .. n, NEW k \in 1 .. n, i < k PROVE q[i] < q[k]
  <2>1. q[i] \in I /\ q[k] \in I /\ rank[q[i]] = q[i] /\ rank[q[k]] = q[k]
    BY <1>2
  <2>2. q[i] # q[k] /\ q[i] <= q[k]
    <3>1. i # k
      BY <1>2, <1>4
    <3> QED BY <1>2, <1>4, <2>1, <3>1
  <2>3. q[i] \in Nat /\ q[k] \in Nat
    BY <1>1, <2>1
  <2> QED BY <2>2, <2>3
<1>5. Kept(seq, I) \in [1 .. n -> E] /\ \A k \in 1 .. n : Kept(seq, I)[k] = seq[q[k]]
  <2>1. \A k \in 1 .. n : seq[q[k]] \in E
    BY <1>1, <1>2
  <2> HIDE DEF rank
  <2> QED BY ONLY <1>3, <2>1
<1> QED BY <1>2, <1>4, <1>5 DEF n, KeepsOrder

\* The first of a sequence of n, at most BestCount.
AtMostBest(n) == IF n < BestCount THEN n ELSE BestCount

AreFirst(best, seq, n, E) ==
    LET m == AtMostBest(n)
    IN  /\ best \in [1 .. m -> E] /\ Len(best) = m
        /\ \A i \in 1 .. m : best[i] = seq[i]

\* The best are the first.
LEMMA BestAreFirst ==
    ASSUME NEW n \in Nat, NEW E, NEW seq, seq \in [1 .. n -> E]
    PROVE  AreFirst(Best(seq), seq, n, E)
<1> DEFINE m == AtMostBest(n)
<1>1. m \in 0 .. n /\ m <= BestCount /\ m \in Nat
  BY ClassifyAssumption DEF AtMostBest
<1>2. seq \in Seq(E) /\ Len(seq) = n
  BY DEF Seq
<1>3. Best(seq) = SubSeq(seq, 1, m)
  BY <1>2 DEF Best, AtMostBest
<1> HIDE DEF m
<1>4. /\ SubSeq(seq, 1, m) \in [1 .. m -> E] /\ Len(SubSeq(seq, 1, m)) = m
      /\ \A i \in 1 .. m : SubSeq(seq, 1, m)[i] = seq[i]
  <2>1. \A i \in 1 .. m : seq[i] \in E
    BY <1>1
  <2>2. /\ SubSeq(seq, 1, m) \in Seq(E)
        /\ Len(SubSeq(seq, 1, m)) = IF 1 <= m THEN m - 1 + 1 ELSE 0
        /\ \A i \in 1 .. m - 1 + 1 : SubSeq(seq, 1, m)[i] = seq[1 + i - 1]
    BY <1>1, <2>1, SubSeqProperties
  <2>3. Len(SubSeq(seq, 1, m)) = m
    BY <1>1, <2>2
  <2>4. \A i \in 1 .. m : 1 + i - 1 = i /\ i \in 1 .. m - 1 + 1
    BY <1>1
  <2>5. \A i \in 1 .. m : SubSeq(seq, 1, m)[i] = seq[i]
    BY <2>2, <2>4
  <2>6. SubSeq(seq, 1, m) \in [1 .. Len(SubSeq(seq, 1, m)) -> E]
    BY <2>2, LenProperties
  <2> HIDE DEF m
  <2> QED BY <2>3, <2>5, <2>6
<1> QED BY <1>1, <1>3, <1>4 DEF m, AreFirst

\* As many types are suggested as there are suggestions, if none is suggested
\* twice.
TypesOf(seq, n) == {seq[i].type : i \in 1 .. n}
OneOfEach(seq, n) == \A i, k \in 1 .. n : seq[i].type = seq[k].type => i = k

LEMMA DistinctAreCounted ==
    ASSUME NEW n \in Nat, NEW seq, OneOfEach(seq, n)
    PROVE  IsFiniteSet(TypesOf(seq, n)) /\ Cardinality(TypesOf(seq, n)) = n
<1> DEFINE T == TypesOf(seq, n)
           f == [i \in 1 .. n |-> seq[i].type]
<1>1. f \in Bijection(1 .. n, T)
  BY DEF Bijection, Injection, Surjection, IsInjective, TypesOf, OneOfEach
<1>2. ExistsBijection(1 .. n, T)
  BY <1>1 DEF ExistsBijection
<1> HIDE DEF T
<1>3. IsFiniteSet(T) /\ Cardinality(T) = n
  BY <1>2, FS_CountingElements, FS_Interval, FS_Bijection
<1> QED BY <1>3 DEF T

-----------------------------------------------------------------------------
(* The candidates *)

CandidateType == [type : RuleTypes, confidence : 0 .. 98]

\* A single required type comes first, and every candidate is of its type.
LEMMA CandidatesAreTyped ==
    ASSUME NEW f \in [matches : SUBSET DOMAIN Rules, required : RequiredSets, current : EntryTypes]
    PROVE  /\ RuleCandidates(f) \in Seq(CandidateType)
           /\ Cardinality(f.required) = 1 =>
                 \A t \in f.required : /\ RuleCandidates(f) # <<>>
                                        /\ Head(RuleCandidates(f)) = Candidate(t, 96)
<1> DEFINE n == Cardinality(f.required)
           rank == [t \in f.required |-> 0]
           q == Listed(f.required, rank)
           first == [i \in 1 .. n |-> Candidate(q[i], IF n = 1 THEN 96 ELSE 58)]
           kept == Kept(Rules, f.matches)
           last == IF f.current = "none" THEN <<>> ELSE <<Candidate(f.current, 55)>>
<1>1. IsFiniteSet(f.required) /\ \A t \in f.required : t \in RuleTypes
  BY ClassifyAssumption DEF RuleTypes
<1>2. /\ n \in Nat /\ q \in [1 .. n -> f.required]
      /\ \A t \in f.required : \E i \in 1 .. n : q[i] = t
  <2>1. \A t \in f.required : rank[t] \in Int
    OBVIOUS
  <2> HIDE DEF rank
  <2> QED BY <1>1, <2>1, ListIsComplete
<1> HIDE DEF q
<1>3. \A i \in 1 .. n : Candidate(q[i], IF n = 1 THEN 96 ELSE 58) \in CandidateType
  BY <1>1, <1>2 DEF Candidate, CandidateType
<1>4. first \in [1 .. n -> CandidateType]
  <2> HIDE DEF n
  <2> QED BY <1>3
<1>5. first \in Seq(CandidateType) /\ Len(first) = n
  <2> HIDE DEF first, n
  <2> QED BY <1>2, <1>4 DEF Seq
<1>6. kept \in Seq(CandidateType)
  <2>1. Rules \in [1 .. Len(Rules) -> CandidateType] /\ Len(Rules) \in Nat
    BY ClassifyAssumption, LenProperties DEF CandidateType
  <2>2. f.matches \in SUBSET (1 .. Len(Rules))
    BY <2>1
  <2>3. Cardinality(f.matches) \in Nat /\ kept \in [1 .. Cardinality(f.matches) -> CandidateType]
    <3>1. KeepsOrder(kept, Rules, f.matches, CandidateType)
      BY <2>1, <2>2, KeptInOrder
    <3> HIDE DEF kept
    <3> QED BY <3>1 DEF KeepsOrder
  <2> HIDE DEF kept
  <2> QED BY <2>3 DEF Seq
<1>7. last \in Seq(CandidateType)
  <2>1. Candidate(f.current, 55) \in CandidateType
    <3>1. f.current \in RuleTypes /\ 55 \in 0 .. 98
      BY DEF RuleTypes
    <3> QED BY <3>1 DEF Candidate, CandidateType
  <2> DEFINE c == Candidate(f.current, 55)
  <2> HIDE DEF c
  <2>2. c \in CandidateType
    BY <2>1 DEF c
  <2>3. <<c>> \in Seq(CandidateType) /\ <<>> \in Seq(CandidateType)
    BY <2>2
  <2> QED BY <2>3 DEF c
<1>8. RuleCandidates(f) = first \o kept \o last
  BY DEF RuleCandidates, q
<1> HIDE DEF first, kept, last
<1>9. first \o kept \in Seq(CandidateType) /\ RuleCandidates(f) \in Seq(CandidateType)
  BY <1>5, <1>6, <1>7, <1>8, ConcatProperties
<1>10. ASSUME n = 1, NEW t \in f.required
       PROVE  RuleCandidates(f) # <<>> /\ Head(RuleCandidates(f)) = Candidate(t, 96)
  <2>1. first[1] = Candidate(q[1], 96) /\ 1 \in 1 .. n
    BY <1>10 DEF first
  <2>2. q[1] = t
    BY <1>2, <1>10
  <2>3. /\ Len(first \o kept) = Len(first) + Len(kept)
        /\ (first \o kept)[1] = first[1] /\ Len(kept) \in Nat
    BY SMTT(30), <1>5, <1>6, <1>10, ConcatProperties, LenProperties
  <2>4. /\ Len(RuleCandidates(f)) = Len(first \o kept) + Len(last) /\ Len(last) \in Nat
        /\ RuleCandidates(f)[1] = (first \o kept)[1]
    <3>1. Len(first \o kept) \in Nat /\ Len(first \o kept) >= 1 /\ Len(last) \in Nat
      BY <1>5, <1>7, <1>10, <2>3, LenProperties
    <3>2. 1 \in 1 .. Len(first \o kept) + Len(last) /\ 1 <= Len(first \o kept)
      BY <3>1
    <3> QED BY <1>7, <1>8, <1>9, <3>1, <3>2, ConcatProperties
  <2>5. RuleCandidates(f) # <<>>
    BY <1>5, <1>10, <2>3, <2>4
  <2> QED BY <1>9, <2>1, <2>2, <2>3, <2>4, <2>5
<1> QED BY <1>9, <1>10

-----------------------------------------------------------------------------
(* The list of the rules *)

\* Suggestions of rules only, of the best types there are.
OfRules(s, f) ==
    LET n == Len(s)
    IN  /\ n \in Nat /\ n <= BestCount /\ s \in [1 .. n -> Range(s)]
        /\ \A i \in 1 .. n :
              /\ s[i].source = "rules" /\ s[i].type \in DOMAIN f
              /\ s[i].confidence = f[s[i].type]
        /\ OneOfEach(s, n)
        /\ \A i, k \in 1 .. n : i < k => s[i].confidence >= s[k].confidence
        /\ \A t \in DOMAIN f \ TypesOf(s, n), i \in 1 .. n : f[t] <= s[i].confidence
        /\ n < BestCount => DOMAIN f \subseteq TypesOf(s, n)

ItemsTyped ==
    /\ IsFiniteSet(DOMAIN items) /\ items \in [DOMAIN items -> 0 .. 99]
    /\ \A t \in DOMAIN items \ file.required : items[t] <= 98

\* A single required type is the next candidate or has been added.
SingleIsSure ==
    Cardinality(file.required) = 1 =>
        \A t \in file.required :
            \/ asked = "rules" /\ todo # <<>> /\ Head(todo) = Candidate(t, 96)
            \/ t \in DOMAIN items /\ items[t] = 99

SingleIsFirst(s, required) ==
    Cardinality(required) = 1 => \A t \in required : Len(s) >= 1 /\ s[1].type = t

ClassifyIInv ==
    /\ file \in [matches : SUBSET DOMAIN Rules, required : RequiredSets, current : EntryTypes]
    /\ todo \in Seq(CandidateType)
    /\ ItemsTyped /\ SingleIsSure
    /\ asked \in {"rules", "ai", "done"}
    /\ asked = "rules" => suggestions = <<>>
    /\ asked = "ai" => OfRules(suggestions, items) /\ SingleIsFirst(suggestions, file.required)
    /\ Len(suggestions) \in Nat /\ Len(suggestions) <= BestCount
    /\ SuggestionsAreBest

\* The best of the types, sorted.
LEMMA RulesSuggestTheBest ==
    ASSUME ItemsTyped
    PROVE  OfRules(Best(Sorted(items)), items)
<1> DEFINE S == DOMAIN items
           n == Cardinality(S)
           rank == [t \in S |-> 0 - items[t]]
           q == Listed(S, rank)
           all == Sorted(items)
           m == AtMostBest(n)
           s == Best(all)
<1>1. IsFiniteSet(S) /\ \A t \in S : items[t] \in Nat /\ rank[t] = 0 - items[t] /\ rank[t] \in Int
  BY DEF ItemsTyped
<1>2. /\ n \in Nat /\ q \in [1 .. n -> S]
      /\ \A i, k \in 1 .. n : q[i] = q[k] => i = k
      /\ \A i, k \in 1 .. n : i < k => rank[q[i]] <= rank[q[k]]
      /\ \A x \in S : \E i \in 1 .. n : q[i] = x
  <2> HIDE DEF rank, S
  <2> QED BY <1>1, ListIsComplete
<1>3. all = [i \in 1 .. n |-> [type |-> q[i], confidence |-> items[q[i]], source |-> "rules"]]
  BY DEF Sorted
<1> HIDE DEF q, rank, n, S, all
<1>4. \A i \in 1 .. n : /\ all[i].type = q[i] /\ all[i].confidence = items[q[i]]
                         /\ all[i].source = "rules"
  BY <1>3
<1>5. \A i, k \in 1 .. n : i < k => items[q[i]] >= items[q[k]]
  <2> SUFFICES ASSUME NEW i \in 1 .. n, NEW k \in 1 .. n, i < k PROVE items[q[i]] >= items[q[k]]
    OBVIOUS
  <2>1. q[i] \in S /\ q[k] \in S
    BY <1>2
  <2>2. rank[q[i]] <= rank[q[k]]
    BY <1>2
  <2>3. 0 - items[q[i]] <= 0 - items[q[k]] /\ items[q[i]] \in Nat /\ items[q[k]] \in Nat
    BY <1>1, <2>1, <2>2
  <2> QED BY <2>3
<1>6. all \in [1 .. n -> Range(all)]
  BY <1>3 DEF Range
<1>7. /\ m \in 0 .. n /\ m <= BestCount /\ m \in Nat
      /\ s \in [1 .. m -> Range(all)] /\ Len(s) = m
      /\ \A i \in 1 .. m : s[i] = all[i]
  <2>2. AreFirst(Best(all), all, n, Range(all))
    BY <1>2, <1>6, BestAreFirst
  <2>3. m \in Nat /\ m \in 0 .. n /\ m <= BestCount
    BY <1>2, ClassifyAssumption DEF AtMostBest
  <2> HIDE DEF m
  <2> QED BY <2>2, <2>3 DEF AreFirst, m
<1>m. m = n \/ (m = BestCount /\ m <= n)
  BY <1>2, ClassifyAssumption DEF AtMostBest
<1> HIDE DEF m, s
<1>8. s \in [1 .. m -> Range(s)]
  BY <1>7 DEF Range
<1>9. \A i \in 1 .. m : /\ i \in 1 .. n /\ s[i].type = q[i] /\ q[i] \in S
                         /\ s[i].confidence = items[q[i]]
                         /\ s[i].source = "rules"
  BY <1>2, <1>4, <1>7
<1>10. OneOfEach(s, m)
  BY <1>2, <1>9 DEF OneOfEach
<1>11. \A i, k \in 1 .. m : i < k => s[i].confidence >= s[k].confidence
  BY <1>5, <1>9
<1>12. \A i \in 1 .. m : q[i] \in TypesOf(s, m)
  BY <1>8, <1>9 DEF TypesOf
<1>13. ASSUME NEW t \in S \ TypesOf(s, m), NEW i \in 1 .. m PROVE items[t] <= s[i].confidence
  <2>1. PICK k \in 1 .. n : q[k] = t
    BY <1>2, <1>13
  <2>2. k \notin 1 .. m
    BY <1>12, <1>13, <2>1
  <2>3. i < k
    BY <1>2, <1>7, <2>1, <2>2
  <2>4. items[q[i]] >= items[q[k]] /\ s[i].confidence = items[q[i]]
    BY <1>5, <1>9, <2>3
  <2>5. items[q[i]] \in Nat /\ items[t] \in Nat
    BY <1>1, <1>9, <1>13
  <2> QED BY <2>1, <2>4, <2>5
<1>14. m < BestCount => S \subseteq TypesOf(s, m)
  BY <1>2, <1>7, <1>12, <1>m, ClassifyAssumption
<1> QED BY <1>7, <1>8, <1>9, <1>10, <1>11, <1>13, <1>14 DEF OfRules, S, s, all

\* What is as sure as nothing else is suggested first.
LEMMA SingleComesFirst ==
    ASSUME NEW s, OfRules(s, items), ItemsTyped, file.required \in RequiredSets,
           Cardinality(file.required) = 1 =>
              \A t \in file.required : t \in DOMAIN items /\ items[t] = 99
    PROVE  SingleIsFirst(s, file.required)
<1> SUFFICES ASSUME Cardinality(file.required) = 1, NEW t \in file.required
             PROVE  Len(s) >= 1 /\ s[1].type = t
  BY DEF SingleIsFirst
<1> DEFINE n == Len(s)
<1>1. \A u \in file.required : u = t
  <2>1. IsFiniteSet(file.required)
    BY ClassifyAssumption
  <2>2. PICK x : file.required = {x}
    BY <2>1, FS_Singleton
  <2> QED BY <2>2
<1>2. \A u \in DOMAIN items : u # t => items[u] <= 98
  BY <1>1 DEF ItemsTyped
<1>3. n \in Nat /\ n >= 1
  <2>1. n \in Nat /\ (n < BestCount => DOMAIN items \subseteq TypesOf(s, n))
    BY DEF OfRules
  <2>2. CASE n = 0
    <3>1. t \in TypesOf(s, n)
      BY <2>1, <2>2, ClassifyAssumption
    <3>2. DOMAIN s = {}
      BY <2>2 DEF OfRules
    <3> QED BY <3>1, <3>2 DEF TypesOf
  <2> QED BY <2>1, <2>2
<1>4. s[1].type \in DOMAIN items /\ s[1].confidence = items[s[1].type]
  BY <1>3 DEF OfRules
<1>5. items[s[1].type] >= 99
  <2>1. items[s[1].type] \in Nat /\ items[t] = 99
    BY <1>4 DEF ItemsTyped
  <2>2. CASE t \notin TypesOf(s, n)
    <3>1. items[t] <= s[1].confidence
      BY <1>3, <2>2 DEF OfRules
    <3> QED BY <1>4, <2>1, <3>1
  <2>3. CASE t \in TypesOf(s, n)
    <3>1. PICK i \in 1 .. n : s[i].type = t
      BY <2>3 DEF TypesOf, OfRules
    <3>2. s[i].confidence = 99
      BY <2>1, <3>1 DEF OfRules
    <3>3. CASE i = 1
      BY <1>4, <3>2, <3>3
    <3>4. CASE i # 1
      <4>1. 1 < i /\ 1 \in 1 .. n
        BY <1>3, <3>4
      <4>2. s[1].confidence >= s[i].confidence
        BY <3>1, <4>1 DEF OfRules
      <4> QED BY <1>4, <3>2, <4>2
    <3> QED BY <3>3, <3>4
  <2> QED BY <2>2, <2>3
<1>6. s[1].type = t
  <2>1. items[s[1].type] \in Nat
    BY <1>4 DEF ItemsTyped
  <2> QED BY <1>2, <1>4, <1>5, <2>1
<1> QED BY <1>3, <1>6

\* What the rules suggest is as promised.
LEMMA RulesKeepThePromise ==
    ASSUME NEW s, NEW f, NEW required, OfRules(s, f), SingleIsFirst(s, required)
    PROVE  LET n == Len(s)
           IN  /\ DOMAIN s = 1 .. n /\ Cardinality(TypesOf(s, n)) = n
               /\ \A i, k \in 1 .. n :
                     i < k /\ s[i].source = "rules" =>
                        s[k].source = "rules" /\ s[i].confidence >= s[k].confidence
               /\ \A t \in required : Cardinality(required) = 1 => s[1].type = t
               /\ \A t \in DOMAIN f \ TypesOf(s, n), i \in 1 .. n : f[t] <= s[i].confidence
               /\ n < BestCount => DOMAIN f \subseteq TypesOf(s, n)
<1> DEFINE n == Len(s)
<1>1. n \in Nat /\ DOMAIN s = 1 .. n
  BY DEF OfRules
<1>2. Cardinality(TypesOf(s, n)) = n
  <2>1. OneOfEach(s, n)
    BY DEF OfRules
  <2> HIDE DEF n
  <2> QED BY <1>1, <2>1, DistinctAreCounted
<1> QED BY <1>1, <1>2 DEF OfRules, SingleIsFirst

-----------------------------------------------------------------------------
(* The answer of the provider *)

\* The last position of a type in an answer.
LEMMA LastAnswer ==
    ASSUME NEW ai, ai \in AiAnswers, NEW i, i \in DOMAIN ai
    PROVE  \E l \in DOMAIN ai :
              ai[l].type = ai[i].type /\ \A k \in l + 1 .. Len(ai) : ai[k].type # ai[i].type
<1> DEFINE L == {l \in DOMAIN ai : ai[l].type = ai[i].type}
           p == Len(ai)
<1>1. p \in Nat /\ DOMAIN ai = 1 .. p
  BY ClassifyAssumption
<1> HIDE DEF p
<1>2. L \in SUBSET Int /\ L # {} /\ L \in SUBSET (1 .. p)
  BY <1>1
<1>3. IsFiniteSet(L)
  <2>1. IsFiniteSet(1 .. p)
    BY <1>1, FS_Interval
  <2> HIDE DEF L
  <2> QED BY <1>2, <2>1, FS_Subset
<1>4. Max(L) \in L /\ \A y \in L : y <= Max(L)
  <2> HIDE DEF L
  <2> QED BY <1>2, <1>3, MaxOfFinite
<1> DEFINE l == Max(L)
<1> HIDE DEF l
<1>5. l \in DOMAIN ai /\ ai[l].type = ai[i].type /\ l \in Nat
  BY <1>1, <1>4 DEF l
<1>6. ASSUME NEW k \in l + 1 .. p PROVE ai[k].type # ai[i].type
  <2>1. k \in 1 .. p /\ k > l
    BY <1>1, <1>5
  <2>2. k \notin L
    BY <1>4, <1>5, <2>1 DEF l
  <2> QED BY <1>1, <2>1, <2>2
<1> QED BY <1>5, <1>6 DEF p

\* The first position of a type in an answer.
LEMMA FirstAnswer ==
    ASSUME NEW ai, ai \in AiAnswers, NEW i, i \in DOMAIN ai
    PROVE  \E l \in DOMAIN ai :
              ai[l].type = ai[i].type /\ \A k \in 1 .. l - 1 : ai[k].type # ai[i].type
<1> DEFINE L == {l \in DOMAIN ai : ai[l].type = ai[i].type}
           N == {0 - l : l \in L}
           p == Len(ai)
<1>1. p \in Nat /\ DOMAIN ai = 1 .. p
  BY ClassifyAssumption
<1> HIDE DEF p
<1>2. L # {} /\ L \in SUBSET (1 .. p)
  BY <1>1
<1>3. IsFiniteSet(N) /\ N \in SUBSET Int /\ N # {}
  <2>1. IsFiniteSet(1 .. p)
    BY <1>1, FS_Interval
  <2>2. IsFiniteSet(L)
    <3> HIDE DEF L
    <3> QED BY <1>2, <2>1, FS_Subset
  <2> DEFINE f == [x \in L |-> 0 - x]
  <2>3. N = {f[x] : x \in L}
    OBVIOUS
  <2>4. N \in SUBSET Int /\ N # {}
    BY <1>1, <1>2
  <2> HIDE DEF f, L, N
  <2>5. IsFiniteSet({f[x] : x \in L})
    BY <2>2, FiniteImage
  <2> QED BY <2>3, <2>4, <2>5
<1>4. Max(N) \in N /\ \A y \in N : y <= Max(N)
  <2> HIDE DEF N
  <2> QED BY <1>3, MaxOfFinite
<1>5. PICK l \in L : Max(N) = 0 - l
  BY <1>4
<1>6. l \in DOMAIN ai /\ ai[l].type = ai[i].type /\ l \in Nat
  BY <1>1, <1>5
<1>7. ASSUME NEW k \in 1 .. l - 1, ai[k].type = ai[i].type PROVE FALSE
  <2>1. k \in 1 .. p /\ k < l /\ k \in Nat
    BY <1>1, <1>6
  <2>2. 0 - k \in N
    BY <1>1, <1>7, <2>1
  <2>3. 0 - k <= 0 - l
    BY <1>4, <1>5, <2>2
  <2> QED BY <1>6, <2>1, <2>3
<1> QED BY <1>6, <1>7

\* The answer goes first, each of its types once, and what is left of the
\* rules' suggestions follows in its order.
LEMMA MergeKeepsThePromise ==
    ASSUME OfRules(suggestions, items), NEW ai, ai \in AiAnswers,
           suggestions' = _merge_ai_and_rule_suggestions(ai), items' = items
    PROVE  LET n == Len(suggestions')
           IN  /\ n \in Nat /\ n <= BestCount /\ DOMAIN suggestions' = 1 .. n
               /\ \A i, k \in 1 .. n :
                     suggestions'[i].type = suggestions'[k].type => i = k
               /\ \A i, k \in 1 .. n :
                     i < k /\ suggestions'[i].source = "rules" =>
                        /\ suggestions'[k].source = "rules"
                        /\ suggestions'[i].confidence >= suggestions'[k].confidence
               /\ n < BestCount => DOMAIN items \subseteq Suggested'
<1> DEFINE p == Len(ai)
           m == Len(suggestions)
           firsts == {i \in DOMAIN ai : \A k \in 1 .. i - 1 : ai[k].type # ai[i].type}
           others == {i \in DOMAIN suggestions :
                         \A k \in DOMAIN ai : ai[k].type # suggestions[i].type}
           last(t) == CHOOSE i \in DOMAIN ai :
                         ai[i].type = t /\ \A k \in i + 1 .. Len(ai) : ai[k].type # t
           answered == [i \in DOMAIN ai |->
              LET confidence == ai[last(ai[i].type)].confidence
              IN  [type |-> ai[i].type, source |-> "ai",
                   confidence |-> IF confidence > 100 THEN 100 ELSE confidence]]
           a == Cardinality(firsts)
           b == Cardinality(others)
           E == Range(answered) \cup Range(suggestions)
           head == Kept(answered, firsts)
           rest == Kept(suggestions, others)
           joined == head \o rest
           Merged == {joined[i].type : i \in 1 .. a + b}
<1>1. p \in Nat /\ DOMAIN ai = 1 .. p /\ m \in Nat /\ DOMAIN suggestions = 1 .. m
  BY ClassifyAssumption DEF OfRules
<1>2. answered \in [1 .. p -> E] /\ suggestions \in [1 .. m -> E]
  <2>1. answered \in [DOMAIN ai -> Range(answered)]
    BY DEF Range
  <2>2. suggestions \in [1 .. m -> Range(suggestions)]
    BY DEF OfRules
  <2> HIDE DEF answered
  <2> QED BY <1>1, <2>1, <2>2
<1>3. \A i \in 1 .. p : answered[i].type = ai[i].type /\ answered[i].source = "ai"
  BY <1>1
<1>4. firsts \in SUBSET (1 .. p) /\ others \in SUBSET (1 .. m)
  BY <1>1
<1>5. suggestions' = Best(joined)
  BY DEF _merge_ai_and_rule_suggestions
<1> HIDE DEF E, answered, head, rest
<1>6. KeepsOrder(head, answered, firsts, E)
  <2> HIDE DEF firsts, p
  <2> QED BY <1>1, <1>2, <1>4, KeptInOrder DEF head
<1>7. KeepsOrder(rest, suggestions, others, E)
  <2> HIDE DEF others, m
  <2> QED BY <1>1, <1>2, <1>4, KeptInOrder DEF rest
<1>k. a \in Nat /\ head \in [1 .. a -> E] /\ b \in Nat /\ rest \in [1 .. b -> E]
  <2> HIDE DEF firsts, others
  <2> QED BY <1>6, <1>7 DEF KeepsOrder
<1>8. PICK q : /\ q \in [1 .. a -> firsts]
               /\ \A k \in 1 .. a : head[k] = answered[q[k]]
               /\ \A i, k \in 1 .. a : i < k => q[i] < q[k]
               /\ \A x \in firsts : \E k \in 1 .. a : q[k] = x
  <2> HIDE DEF firsts
  <2> QED BY <1>6 DEF KeepsOrder
<1>9. PICK r : /\ r \in [1 .. b -> others]
               /\ \A k \in 1 .. b : rest[k] = suggestions[r[k]]
               /\ \A i, k \in 1 .. b : i < k => r[i] < r[k]
               /\ \A x \in others : \E k \in 1 .. b : r[k] = x
  <2> HIDE DEF others
  <2> QED BY <1>7 DEF KeepsOrder
<1> HIDE DEF a, b
<1>10. /\ joined \in [1 .. a + b -> E] /\ a + b \in Nat
       /\ \A i \in 1 .. a : joined[i] = head[i]
       /\ \A i \in a + 1 .. a + b : joined[i] = rest[i - a] /\ i - a \in 1 .. b
  <2>1. head \in Seq(E) /\ Len(head) = a /\ rest \in Seq(E) /\ Len(rest) = b
    BY <1>k DEF Seq
  <2>2. /\ joined \in Seq(E) /\ Len(joined) = a + b
        /\ \A i \in 1 .. a + b : joined[i] = IF i <= a THEN head[i] ELSE rest[i - a]
    BY <2>1, ConcatProperties
  <2>3. joined \in [1 .. a + b -> E]
    BY <2>2, LenProperties
  <2> HIDE DEF joined
  <2>4. \A i \in 1 .. a : i \in 1 .. a + b /\ i <= a
    BY <1>k
  <2>5. \A i \in a + 1 .. a + b : i \in 1 .. a + b /\ ~ (i <= a) /\ i - a \in 1 .. b
    BY <1>k
  <2>6. \A i \in 1 .. a : joined[i] = head[i]
    BY <2>2, <2>4
  <2>7. \A i \in a + 1 .. a + b : joined[i] = rest[i - a]
    BY <2>2, <2>5
  <2>8. a + b \in Nat
    BY <1>k
  <2> QED BY ONLY <2>3, <2>5, <2>6, <2>7, <2>8
<1> HIDE DEF joined
\* Each element is an answer or a suggestion of the rules.
<1>11. \A i \in 1 .. a : /\ q[i] \in 1 .. p /\ q[i] \in firsts
                          /\ joined[i].type = ai[q[i]].type /\ joined[i].source = "ai"
  BY <1>3, <1>4, <1>8, <1>10
<1>12. \A i \in a + 1 .. a + b :
          /\ i - a \in 1 .. b /\ r[i - a] \in 1 .. m /\ r[i - a] \in others
          /\ joined[i] = suggestions[r[i - a]] /\ joined[i].source = "rules"
  <2>1. \A k \in 1 .. b : r[k] \in others /\ r[k] \in 1 .. m
    BY <1>4, <1>9
  <2>2. \A k \in 1 .. m : suggestions[k].source = "rules"
    BY DEF OfRules
  <2> HIDE DEF others, m
  <2> QED BY <1>9, <1>10, <2>1, <2>2
<1>13. \A i \in 1 .. a + b : i \in 1 .. a \/ i \in a + 1 .. a + b
  BY <1>k
<1>14. ASSUME NEW i \in 1 .. a + b, NEW k \in 1 .. a + b, i < k
       PROVE  joined[i].type # joined[k].type
  <2>1. CASE i \in 1 .. a /\ k \in 1 .. a
    <3>1. q[i] < q[k] /\ q[i] \in 1 .. p /\ q[k] \in 1 .. p
      BY <1>8, <1>11, <1>14, <2>1
    <3>2. q[i] \in 1 .. q[k] - 1
      BY <3>1
    <3>3. ai[q[i]].type # ai[q[k]].type
      BY <1>11, <2>1, <3>2
    <3> QED BY <1>11, <2>1, <3>3
  <2>2. CASE i \in 1 .. a /\ k \in a + 1 .. a + b
    <3>1. ai[q[i]].type # suggestions[r[k - a]].type
      BY <1>1, <1>11, <1>12, <2>2
    <3> QED BY <1>11, <1>12, <2>2, <3>1
  <2>3. CASE i \in a + 1 .. a + b /\ k \in a + 1 .. a + b
    <3>1. i - a < k - a
      BY <1>k, <1>14, <2>3
    <3>2. r[i - a] < r[k - a] /\ r[i - a] \in 1 .. m /\ r[k - a] \in 1 .. m
      BY <1>9, <1>12, <2>3, <3>1
    <3>3. suggestions[r[i - a]].type # suggestions[r[k - a]].type
      <4>1. r[i - a] # r[k - a]
        BY <3>2
      <4> QED BY <3>2, <4>1 DEF OfRules, OneOfEach
    <3> QED BY <1>12, <2>3, <3>3
  <2>4. ~ (i \in a + 1 .. a + b /\ k \in 1 .. a)
    BY <1>k, <1>14
  <2> QED BY <1>13, <2>1, <2>2, <2>3, <2>4
<1>15. \A i, k \in 1 .. a + b : joined[i].type = joined[k].type => i = k
  <2> SUFFICES ASSUME NEW i \in 1 .. a + b, NEW k \in 1 .. a + b, i # k
               PROVE  joined[i].type # joined[k].type
    OBVIOUS
  <2>1. i < k \/ k < i
    BY <1>10
  <2> QED BY <1>14, <2>1
<1>16. ASSUME NEW i \in 1 .. a + b, NEW k \in 1 .. a + b, i < k, joined[i].source = "rules"
       PROVE  joined[k].source = "rules" /\ joined[i].confidence >= joined[k].confidence
  <2>1. i \in a + 1 .. a + b
    BY <1>11, <1>13, <1>16
  <2>2. k \in a + 1 .. a + b /\ i - a < k - a
    BY <1>k, <1>16, <2>1
  <2>3. r[i - a] < r[k - a] /\ r[i - a] \in 1 .. m /\ r[k - a] \in 1 .. m
    BY <1>9, <1>12, <2>1, <2>2
  <2>4. suggestions[r[i - a]].confidence >= suggestions[r[k - a]].confidence
    BY <2>3 DEF OfRules
  <2> QED BY <1>12, <2>1, <2>2, <2>4
\* No type is lost.
<1>17. Suggested \subseteq Merged
  <2> SUFFICES ASSUME NEW x \in 1 .. m PROVE suggestions[x].type \in Merged
    BY <1>1 DEF Suggested
  <2>1. CASE x \in others
    <3>1. PICK k \in 1 .. b : r[k] = x
      BY <1>9, <2>1
    <3>2. a + k \in a + 1 .. a + b /\ a + k \in 1 .. a + b /\ (a + k) - a = k
      BY <1>k
    <3>3. joined[a + k] = suggestions[x]
      BY <1>12, <3>1, <3>2
    <3> QED BY <3>2, <3>3
  <2>2. CASE x \notin others
    <3>1. PICK k \in DOMAIN ai : ai[k].type = suggestions[x].type
      BY <1>1, <2>2
    <3>2. PICK l \in DOMAIN ai : /\ ai[l].type = ai[k].type
                                 /\ \A e \in 1 .. l - 1 : ai[e].type # ai[k].type
      BY FirstAnswer
    <3>3. l \in firsts
      BY <3>2
    <3>4. PICK i \in 1 .. a : q[i] = l
      BY <1>8, <3>3
    <3>5. joined[i].type = suggestions[x].type /\ i \in 1 .. a + b
      BY <1>k, <1>11, <3>1, <3>2, <3>4
    <3> QED BY <3>5
  <2> QED BY <2>1, <2>2
<1>18. m <= a + b
  <2>1. Cardinality(Suggested) = m /\ IsFiniteSet(Suggested)
    <3>1. Suggested = TypesOf(suggestions, m)
      BY <1>1 DEF Suggested, TypesOf
    <3>2. OneOfEach(suggestions, m)
      BY DEF OfRules
    <3> HIDE DEF m
    <3> QED BY <1>1, <3>1, <3>2, DistinctAreCounted
  <2>2. Cardinality(Merged) = a + b /\ IsFiniteSet(Merged)
    <3> DEFINE c == a + b
    <3>1. Merged = TypesOf(joined, c)
      BY DEF TypesOf
    <3>2. OneOfEach(joined, c)
      BY <1>15 DEF OneOfEach
    <3>3. c \in Nat
      BY <1>10
    <3> HIDE DEF c, Merged
    <3>4. Cardinality(Merged) = c /\ IsFiniteSet(Merged)
      BY <3>1, <3>2, <3>3, DistinctAreCounted
    <3> QED BY <3>4 DEF c
  <2> HIDE DEF Merged, m
  <2>3. Cardinality(Suggested) <= Cardinality(Merged)
    BY <1>17, <2>2, FS_Subset
  <2> QED BY <2>1, <2>2, <2>3
\* The first of them are kept.
<1> DEFINE n == AtMostBest(a + b)
<1>19. /\ n \in 0 .. a + b /\ n <= BestCount
       /\ suggestions' \in [1 .. n -> E] /\ Len(suggestions') = n
       /\ \A i \in 1 .. n : suggestions'[i] = joined[i]
  <2> DEFINE c == a + b
  <2>1. c \in Nat /\ joined \in [1 .. c -> E]
    BY <1>10
  <2> HIDE DEF c
  <2>2. AreFirst(Best(joined), joined, c, E)
    BY <2>1, BestAreFirst
  <2>3. n \in 0 .. a + b /\ n <= BestCount
    BY <1>10, ClassifyAssumption DEF AtMostBest
  <2> HIDE DEF n
  <2> QED BY <1>5, <2>2, <2>3 DEF c, n, AreFirst
<1>20. n \in Nat /\ (\A i \in 1 .. n : i \in 1 .. a + b) /\ (n < BestCount => n = a + b)
  BY <1>10, ClassifyAssumption DEF AtMostBest
<1> HIDE DEF n
<1>21. ASSUME n < BestCount PROVE DOMAIN items \subseteq Suggested'
  <2>1. m < BestCount
    BY <1>1, <1>10, <1>18, <1>20, <1>21, ClassifyAssumption
  <2>2. DOMAIN items \subseteq Suggested
    BY <1>1, <2>1 DEF OfRules, TypesOf, Suggested
  <2>3. Merged \subseteq Suggested'
    BY <1>19, <1>20, <1>21 DEF Suggested
  <2> QED BY <1>17, <2>2, <2>3
<1>22. \A i, k \in 1 .. n : suggestions'[i].type = suggestions'[k].type => i = k
  BY <1>15, <1>19, <1>20
<1>23. \A i, k \in 1 .. n :
          i < k /\ suggestions'[i].source = "rules" =>
             /\ suggestions'[k].source = "rules"
             /\ suggestions'[i].confidence >= suggestions'[k].confidence
  BY <1>16, <1>19, <1>20
<1>24. DOMAIN suggestions' = 1 .. n /\ n <= BestCount
  BY <1>19
<1> QED BY <1>19, <1>20, <1>21, <1>22, <1>23, <1>24

-----------------------------------------------------------------------------
(* Every request *)

LEMMA ClassifyInitHolds == ClassifyInit => ClassifyIInv
<1> SUFFICES ASSUME ClassifyInit PROVE ClassifyIInv
  OBVIOUS
<1>1. /\ file \in [matches : SUBSET DOMAIN Rules, required : RequiredSets, current : EntryTypes]
      /\ todo = RuleCandidates(file) /\ items = <<>> /\ suggestions = <<>> /\ asked = "rules"
  BY DEF ClassifyInit
<1>2. /\ todo \in Seq(CandidateType)
      /\ Cardinality(file.required) = 1 =>
            \A t \in file.required : todo # <<>> /\ Head(todo) = Candidate(t, 96)
  BY <1>1, CandidatesAreTyped
<1>3. ItemsTyped
  <2>1. DOMAIN items = {}
    BY <1>1
  <2>2. IsFiniteSet(DOMAIN items)
    BY <2>1, FS_EmptySet
  <2> QED BY <1>1, <2>1, <2>2 DEF ItemsTyped
<1>4. Len(suggestions) \in Nat /\ Len(suggestions) <= BestCount
  BY <1>1, ClassifyAssumption
<1> QED BY <1>1, <1>2, <1>3, <1>4 DEF ClassifyIInv, SingleIsSure, SuggestionsAreBest

\* A candidate raises its type, and no type but a required one above 98.
LEMMA AddKept ==
    ASSUME ClassifyIInv, AddCandidate
    PROVE  ClassifyIInv'
<1> DEFINE c == Head(todo)
           n == adjusted(c)
           D == DOMAIN items \cup {c.type}
<1>1. /\ asked = "rules" /\ todo # <<>> /\ items' = add(c) /\ todo' = Tail(todo)
      /\ file' = file /\ suggestions' = suggestions /\ asked' = asked
  BY DEF AddCandidate
<1>2. c \in CandidateType /\ todo' \in Seq(CandidateType)
  BY <1>1, HeadTailProperties DEF ClassifyIInv
<1>3. ItemsTyped /\ SingleIsSure
  BY DEF ClassifyIInv
<1>4. /\ n \in 0 .. 99
      /\ c.type \notin file.required => n <= 98
      /\ c.type \in file.required /\ c.confidence = 96 => n = 99
  <2>1. c.confidence \in 0 .. 98
    BY <1>2 DEF CandidateType
  <2>2. n = IF c.type \notin file.required THEN c.confidence
            ELSE IF c.confidence + 5 < 99 THEN c.confidence + 5 ELSE 99
    BY DEF adjusted
  <2> HIDE DEF n, c
  <2> QED BY <2>1, <2>2
<1>a. items' = IF c.type \in DOMAIN items /\ items[c.type] > n THEN items
               ELSE [t \in D |-> IF t = c.type THEN n ELSE items[t]]
  BY <1>1 DEF add
<1> HIDE DEF n
<1>5. \/ /\ items' = items /\ c.type \in DOMAIN items /\ items[c.type] > n
      \/ /\ items' = [t \in D |-> IF t = c.type THEN n ELSE items[t]]
         /\ c.type \in DOMAIN items => items[c.type] <= n
  <2>1. c.type \in DOMAIN items => items[c.type] \in Nat
    BY <1>3 DEF ItemsTyped
  <2>2. n \in Nat
    BY <1>4
  <2> HIDE DEF c, D
  <2> QED BY <1>a, <2>1, <2>2
<1>6. ItemsTyped'
  <2>1. CASE items' = items
    BY <1>1, <1>3, <2>1 DEF ItemsTyped
  <2>2. CASE items' = [t \in D |-> IF t = c.type THEN n ELSE items[t]]
    <3>1. DOMAIN items' = D /\ IsFiniteSet(D)
      BY <1>3, <2>2, FS_AddElement DEF ItemsTyped
    <3>2. \A t \in D :
             /\ items'[t] = IF t = c.type THEN n ELSE items[t]
             /\ items'[t] \in 0 .. 99
             /\ t \notin file.required => items'[t] <= 98
      <4>1. \A t \in D : items'[t] = IF t = c.type THEN n ELSE items[t]
        BY <2>2
      <4>2. \A t \in D : t # c.type =>
               /\ t \in DOMAIN items /\ items[t] \in 0 .. 99
               /\ t \notin file.required => items[t] <= 98
        BY <1>3 DEF ItemsTyped
      <4> HIDE DEF c, D
      <4> SUFFICES ASSUME NEW t \in D
                   PROVE  /\ items'[t] = IF t = c.type THEN n ELSE items[t]
                          /\ items'[t] \in 0 .. 99
                          /\ t \notin file.required => items'[t] <= 98
        OBVIOUS
      <4>3. CASE t = c.type
        BY <1>4, <4>1, <4>3
      <4>4. CASE t # c.type
        BY <4>1, <4>2, <4>4
      <4> QED BY <4>3, <4>4
    <3>3. items' \in [D -> 0 .. 99]
      <4>1. \A t \in D : (IF t = c.type THEN n ELSE items[t]) \in 0 .. 99
        BY <1>3, <1>4 DEF ItemsTyped
      <4> HIDE DEF c, D
      <4> QED BY <2>2, <4>1
    <3> HIDE DEF D, c
    <3>4. \A t \in DOMAIN items' \ file.required : items'[t] <= 98
      <4> SUFFICES ASSUME NEW t \in DOMAIN items', t \notin file.required
                   PROVE  items'[t] <= 98
        OBVIOUS
      <4>1. t \in D
        BY <3>1
      <4> QED BY <3>2, <4>1
    <3> QED BY <1>1, <3>1, <3>3, <3>4 DEF ItemsTyped
  <2> QED BY <1>5, <2>1, <2>2
<1>7. SingleIsSure'
  <2> SUFFICES ASSUME Cardinality(file.required) = 1, NEW t \in file.required
               PROVE  t \in DOMAIN items' /\ items'[t] = 99
    BY <1>1 DEF SingleIsSure
  <2>1. CASE c = Candidate(t, 96)
    <3>1. n = 99 /\ c.type = t
      BY <1>4, <2>1 DEF Candidate
    <3>2. c.type \in DOMAIN items => items[c.type] \in 0 .. 99
      BY <1>3 DEF ItemsTyped
    <3> QED BY <1>5, <3>1, <3>2
  <2>2. CASE c # Candidate(t, 96)
    <3>1. t \in DOMAIN items /\ items[t] = 99
      BY <1>3, <2>2 DEF SingleIsSure
    <3> QED BY <1>4, <1>5, <3>1
  <2> QED BY <2>1, <2>2
<1>8. /\ file' \in [matches : SUBSET DOMAIN Rules, required : RequiredSets, current : EntryTypes]
      /\ asked' = "rules" /\ suggestions' = <<>>
      /\ Len(suggestions') \in Nat /\ Len(suggestions') <= BestCount
  BY <1>1 DEF ClassifyIInv
<1> QED BY <1>2, <1>6, <1>7, <1>8 DEF ClassifyIInv, SuggestionsAreBest

LEMMA BuildKept ==
    ASSUME ClassifyIInv, build
    PROVE  ClassifyIInv'
<1> DEFINE s == Best(Sorted(items))
           n == Len(s)
<1>1. /\ asked = "rules" /\ todo = <<>> /\ suggestions' = s
      /\ asked' \in {"ai", "done"} /\ file' = file /\ todo' = todo /\ items' = items
  BY DEF build
<1>2. ItemsTyped /\ SingleIsSure /\ file.required \in RequiredSets
  BY DEF ClassifyIInv
<1>3. OfRules(s, items)
  BY <1>2, RulesSuggestTheBest
<1>4. SingleIsFirst(s, file.required)
  <2>1. Cardinality(file.required) = 1 =>
           \A t \in file.required : t \in DOMAIN items /\ items[t] = 99
    BY <1>1, <1>2 DEF SingleIsSure
  <2> HIDE DEF s
  <2> QED BY <1>2, <1>3, <2>1, SingleComesFirst
<1>5. /\ DOMAIN s = 1 .. n /\ Cardinality(TypesOf(s, n)) = n
      /\ \A i, k \in 1 .. n :
            i < k /\ s[i].source = "rules" =>
               s[k].source = "rules" /\ s[i].confidence >= s[k].confidence
      /\ \A t \in file.required : Cardinality(file.required) = 1 => s[1].type = t
      /\ \A t \in DOMAIN items \ TypesOf(s, n), i \in 1 .. n : items[t] <= s[i].confidence
      /\ n < BestCount => DOMAIN items \subseteq TypesOf(s, n)
  <2> HIDE DEF s
  <2> QED BY <1>3, <1>4, RulesKeepThePromise
<1> HIDE DEF s
<1>6. Suggested' = TypesOf(s, n)
  BY <1>1, <1>5 DEF Suggested, TypesOf
<1>7. SuggestionsAreBest'
  BY <1>1, <1>5, <1>6 DEF SuggestionsAreBest
<1>8. ItemsTyped' /\ SingleIsSure'
  BY <1>1, <1>2 DEF ItemsTyped, SingleIsSure
<1>9. Len(suggestions') \in Nat /\ Len(suggestions') <= BestCount
  BY <1>1, <1>3 DEF OfRules
<1>10. /\ file' \in [matches : SUBSET DOMAIN Rules, required : RequiredSets, current : EntryTypes]
       /\ todo' \in Seq(CandidateType) /\ asked' \in {"rules", "ai", "done"} /\ asked' # "rules"
  BY <1>1 DEF ClassifyIInv
<1>11. OfRules(suggestions', items') /\ SingleIsFirst(suggestions', file.required')
  BY <1>1, <1>3, <1>4
<1> QED BY <1>7, <1>8, <1>9, <1>10, <1>11 DEF ClassifyIInv

LEMMA AnswerKept ==
    ASSUME ClassifyIInv, NEW ai, ai \in AiAnswers, AiSuggests(ai)
    PROVE  ClassifyIInv'
<1>1. /\ asked = "ai" /\ asked' = "done" /\ file' = file /\ todo' = todo /\ items' = items
      /\ suggestions' = IF ai = <<>> THEN suggestions ELSE _merge_ai_and_rule_suggestions(ai)
  BY DEF AiSuggests
<1>2. ItemsTyped' /\ SingleIsSure'
  BY <1>1 DEF ClassifyIInv, ItemsTyped, SingleIsSure
<1>3. /\ file' \in [matches : SUBSET DOMAIN Rules, required : RequiredSets, current : EntryTypes]
      /\ todo' \in Seq(CandidateType)
  BY <1>1 DEF ClassifyIInv
<1>4. CASE ai = <<>>
  <2>1. suggestions' = suggestions
    BY <1>1, <1>4
  <2>2. SuggestionsAreBest'
    BY <1>1, <2>1 DEF ClassifyIInv, SuggestionsAreBest, Suggested
  <2> QED BY <1>1, <1>2, <1>3, <2>1, <2>2 DEF ClassifyIInv
<1>5. CASE ai # <<>>
  <2> DEFINE n == Len(suggestions')
  <2>1. OfRules(suggestions, items) /\ suggestions' = _merge_ai_and_rule_suggestions(ai)
    BY <1>1, <1>5 DEF ClassifyIInv
  <2>2. /\ n \in Nat /\ n <= BestCount /\ DOMAIN suggestions' = 1 .. n
        /\ \A i, k \in 1 .. n :
              suggestions'[i].type = suggestions'[k].type => i = k
        /\ \A i, k \in 1 .. n :
              i < k /\ suggestions'[i].source = "rules" =>
                 /\ suggestions'[k].source = "rules"
                 /\ suggestions'[i].confidence >= suggestions'[k].confidence
        /\ n < BestCount => DOMAIN items \subseteq Suggested'
    BY <1>1, <2>1, MergeKeepsThePromise
  <2>3. Cardinality(Suggested') = n
    <3>1. OneOfEach(suggestions', n)
      BY <2>2 DEF OneOfEach
    <3>2. Suggested' = TypesOf(suggestions', n)
      BY <2>2 DEF Suggested, TypesOf
    <3>3. n \in Nat
      BY <2>2
    <3> HIDE DEF n
    <3> QED BY <3>1, <3>2, <3>3, DistinctAreCounted
  <2>4. SuggestionsAreBest'
    BY <1>1, <2>2, <2>3 DEF SuggestionsAreBest
  <2> QED BY <1>1, <1>2, <1>3, <2>2, <2>4 DEF ClassifyIInv
<1> QED BY <1>4, <1>5

LEMMA ClassifyKept == ClassifyIInv /\ [ClassifyNext]_classifyVars => ClassifyIInv'
<1> SUFFICES ASSUME ClassifyIInv, [ClassifyNext]_classifyVars PROVE ClassifyIInv'
  OBVIOUS
<1>1. CASE AddCandidate
  BY <1>1, AddKept
<1>2. CASE build
  BY <1>2, BuildKept
<1>3. CASE AiFails
  <2>1. /\ asked = "ai" /\ asked' = "done" /\ file' = file /\ todo' = todo /\ items' = items
        /\ suggestions' = suggestions
    BY <1>3 DEF AiFails
  <2>2. SuggestionsAreBest'
    BY <2>1 DEF ClassifyIInv, SuggestionsAreBest, Suggested
  <2>3. ItemsTyped' /\ SingleIsSure'
    BY <2>1 DEF ClassifyIInv, ItemsTyped, SingleIsSure
  <2> QED BY <2>1, <2>2, <2>3 DEF ClassifyIInv
<1>4. CASE \E ai \in AiAnswers : AiSuggests(ai)
  BY <1>4, AnswerKept
<1>5. CASE UNCHANGED classifyVars
  <2>1. /\ asked' = asked /\ file' = file /\ todo' = todo /\ items' = items
        /\ suggestions' = suggestions
    BY <1>5 DEF classifyVars
  <2> QED BY <2>1 DEF ClassifyIInv, SuggestionsAreBest, Suggested, ItemsTyped, SingleIsSure
<1> QED BY <1>1, <1>2, <1>3, <1>4, <1>5 DEF ClassifyNext

LEMMA ClassifyInductive == ClassifySpec => []ClassifyIInv
BY ClassifyInitHolds, ClassifyKept, PTL DEF ClassifySpec

\* Every variable keeps to its type: no more than five suggestions, and no
\* confidence of a rule above 99 (_CandidateBuilder).
THEOREM ClassifyTypeCorrect == ClassifySpec => []ClassifyTypeOK
<1>1. ClassifyIInv => ClassifyTypeOK
  BY DEF ClassifyIInv, ClassifyTypeOK, ItemsTyped
<1> QED BY <1>1, ClassifyInductive, PTL

\* No type is suggested twice, the best come first, the single required type
\* before all others, and an answer of the provider hides nothing for which
\* there is room (_CandidateBuilder.build, _merge_ai_and_rule_suggestions).
THEOREM TheBestAreSuggested == ClassifySpec => []SuggestionsAreBest
<1>1. ClassifyIInv => SuggestionsAreBest
  BY DEF ClassifyIInv
<1> QED BY <1>1, ClassifyInductive, PTL

=============================================================================

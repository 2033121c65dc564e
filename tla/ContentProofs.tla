---------------------------- MODULE ContentProofs ---------------------------
(***************************************************************************)
(* Proofs about what fills and reads the tables and the stores of the      *)
(* content: Files, PhotoDownload, QuestionImport, Seeding and Listing, for *)
(* any contents, any faults and any interleaving.  Each of the five is     *)
(* proved about on its own, with the variables and the constants it has in *)
(* MCContent.                                                              *)
(***************************************************************************)
EXTENDS Files, Sequences, TLAPS, FiniteSetTheorems, SequenceTheorems

CONSTANTS
  Photo, BatchSize, PhotoFaults,                                \* PhotoDownload
  Lesson, ImportFaults, MaxScrapes, MaxImports,                 \* QuestionImport
  Permission, RolesDelete, SuperAdmin, Admin, Plain, Newcomer,  \* Seeding
  Old, MayEnqueue, MaxTrouble,
  Lists, Sortings, Limit, InitRows, MaxRows                     \* Listing

VARIABLES
  file, script, todo, batch, hung, stats, report,               \* PhotoDownload
  site, disk, scraper, fetched, left, answered, summary,        \* QuestionImport
  scrapes, loaded, inserted, migrating,
  tables, seeded, seeder, at, creating, printed, trouble,       \* Seeding
  listed, walk                                                  \* Listing

P == INSTANCE PhotoDownload WITH Faults <- PhotoFaults
I == INSTANCE QuestionImport WITH Faults <- ImportFaults
S == INSTANCE Seeding WITH rows <- seeded, script <- seeder
L == INSTANCE Listing WITH rows <- listed

-----------------------------------------------------------------------------
(* Files *)

(***************************************************************************)
(* Every reachable state is of the shape TypeOK gives: what upload and the *)
(* MinIO client leave behind at each of their steps.                       *)
(***************************************************************************)
THEOREM TypeCorrect == Spec => []TypeOK
<1>1. Init => TypeOK
  BY BucketAssumption DEF Init, TypeOK
<1>2. TypeOK /\ [Next]_vars => TypeOK'
  <2> SUFFICES ASSUME TypeOK, [Next]_vars
               PROVE  TypeOK'
    OBVIOUS
  <2> USE DEF TypeOK, AtPc, Goto, Tell
  <2>1. ASSUME NEW u \in Upload, Step(u)
        PROVE  TypeOK'
    BY <2>1 DEF Step, CreateRow, BucketExists, MakeBucket, PutObject, WritePath, RollBack
  <2>2. ASSUME NEW u \in Upload,
               CreateRowFails(u) \/ WritePathFails(u) \/ RollBackFails(u)
        PROVE  TypeOK'
    BY <2>2 DEF CreateRowFails, WritePathFails, RollBackFails
  <2>3. ASSUME NEW u \in Upload, MinioFails(u)
        PROVE  TypeOK'
    BY <2>3 DEF MinioFails
  <2>4. CASE Crash
    BY <2>4 DEF Crash
  <2>5. CASE UNCHANGED vars
    BY <2>5 DEF vars
  <2> QED
    BY <2>1, <2>2, <2>3, <2>4, <2>5 DEF Next
<1> QED
  BY <1>1, <1>2, PTL DEF Spec

-----------------------------------------------------------------------------
(* What AnsweredIsStored rests on: the path is written only after the      *)
(* object, by a request that is then over and cannot roll back.            *)
PathFollowsObject ==
  \A u \in Upload :
    /\ pc[u] = "path" => u \in objects
    /\ row[u] = "path" => u \in objects /\ pc[u] = "done"
    /\ told[u] = "ok" => row[u] = "path"

(***************************************************************************)
(* Whatever fails or crashes, a file whose upload was answered with        *)
(* success can be downloaded and no row has a path without an object.      *)
(***************************************************************************)
THEOREM AnsweredStays == Spec => []AnsweredIsStored
<1>1. Init => PathFollowsObject
  BY DEF Init, PathFollowsObject
<1>2. TypeOK /\ PathFollowsObject /\ [Next]_vars => PathFollowsObject'
  <2> SUFFICES ASSUME TypeOK, PathFollowsObject, [Next]_vars
               PROVE  PathFollowsObject'
    OBVIOUS
  <2> USE DEF TypeOK, PathFollowsObject, AtPc, Goto, Tell
  <2>1. ASSUME NEW u \in Upload, Step(u)
        PROVE  PathFollowsObject'
    <3>1. CASE CreateRow(u)
      BY <3>1 DEF CreateRow
    <3>2. CASE BucketExists(u)
      BY <3>2 DEF BucketExists
    <3>3. CASE MakeBucket(u)
      BY <3>3 DEF MakeBucket
    <3>4. CASE PutObject(u)
      BY <3>4 DEF PutObject
    <3>5. CASE WritePath(u)
      BY <3>5 DEF WritePath
    <3>6. CASE RollBack(u)
      BY <3>6 DEF RollBack
    <3> QED
      BY <2>1, <3>1, <3>2, <3>3, <3>4, <3>5, <3>6 DEF Step
  <2>2. ASSUME NEW u \in Upload, CreateRowFails(u)
        PROVE  PathFollowsObject'
    BY <2>2 DEF CreateRowFails
  <2>3. ASSUME NEW u \in Upload, WritePathFails(u) \/ RollBackFails(u)
        PROVE  PathFollowsObject'
    BY <2>3 DEF WritePathFails, RollBackFails
  <2>4. ASSUME NEW u \in Upload, MinioFails(u)
        PROVE  PathFollowsObject'
    <3>1. objects \subseteq objects'
      BY <2>4 DEF MinioFails
    <3>2. pc[u] # "done" /\ row[u] # "path"
      BY <2>4 DEF MinioFails
    <3>3. /\ pc' = [pc EXCEPT ![u] = "rollBack"]
          /\ UNCHANGED <<row, told>>
      BY <2>4 DEF MinioFails
    <3> QED
      BY <3>1, <3>2, <3>3
  <2>5. CASE Crash
    BY <2>5 DEF Crash
  <2>6. CASE UNCHANGED vars
    BY <2>6 DEF vars
  <2> QED
    BY <2>1, <2>2, <2>3, <2>4, <2>5, <2>6 DEF Next
<1>3. PathFollowsObject => AnsweredIsStored
  BY DEF PathFollowsObject, AnsweredIsStored, Downloadable
<1> QED
  BY <1>1, <1>2, <1>3, TypeCorrect, PTL DEF Spec

-----------------------------------------------------------------------------
(* Only a request that is over has told its client anything, and only one  *)
(* that has begun has a row.                                               *)
FailureIsLast ==
  \A u \in Upload :
    /\ told[u] = "failed" => pc[u] = "done" /\ row[u] = "none"
    /\ pc[u] = "start" => row[u] = "none"

(***************************************************************************)
(* As long as the database answers, an upload that was answered with       *)
(* failure has left no row, whatever MinIO does and also if the process    *)
(* crashes.                                                                *)
(***************************************************************************)
THEOREM RolledBack ==
  ASSUME "database" \notin Faults
  PROVE  Spec => []FailedLeavesNoRow
<1>1. Init => FailureIsLast
  BY DEF Init, FailureIsLast
<1>2. TypeOK /\ FailureIsLast /\ [Next]_vars => FailureIsLast'
  <2> SUFFICES ASSUME TypeOK, FailureIsLast, [Next]_vars
               PROVE  FailureIsLast'
    OBVIOUS
  <2> USE DEF TypeOK, FailureIsLast, AtPc, Goto, Tell
  <2>1. ASSUME NEW u \in Upload, Step(u)
        PROVE  FailureIsLast'
    <3>1. CASE CreateRow(u)
      BY <3>1 DEF CreateRow
    <3>2. CASE BucketExists(u)
      BY <3>2 DEF BucketExists
    <3>3. CASE MakeBucket(u)
      BY <3>3 DEF MakeBucket
    <3>4. CASE PutObject(u)
      BY <3>4 DEF PutObject
    <3>5. CASE WritePath(u)
      BY <3>5 DEF WritePath
    <3>6. CASE RollBack(u)
      BY <3>6 DEF RollBack
    <3> QED
      BY <2>1, <3>1, <3>2, <3>3, <3>4, <3>5, <3>6 DEF Step
  <2>2. ASSUME NEW u \in Upload,
               CreateRowFails(u) \/ WritePathFails(u) \/ RollBackFails(u)
        PROVE  FALSE
    BY <2>2 DEF CreateRowFails, WritePathFails, RollBackFails
  <2>3. ASSUME NEW u \in Upload, MinioFails(u)
        PROVE  FailureIsLast'
    BY <2>3 DEF MinioFails
  <2>4. CASE Crash
    BY <2>4 DEF Crash
  <2>5. CASE UNCHANGED vars
    BY <2>5 DEF vars
  <2> QED
    BY <2>1, <2>2, <2>3, <2>4, <2>5 DEF Next
<1>3. FailureIsLast => FailedLeavesNoRow
  BY DEF FailureIsLast, FailedLeavesNoRow
<1> QED
  BY <1>1, <1>2, <1>3, TypeCorrect, PTL DEF Spec

-----------------------------------------------------------------------------
(* PhotoDownload *)

PhotoSetting == P!PhotoAssumption

Accounted == stats.downloaded + stats.skipped + stats.errors

(* While the script runs, what it has counted, what it has not come to yet *)
(* and what its batch still awaits are all the photos.                     *)
PhotoInv ==
  /\ P!TypeOK
  /\ script # "off" => Accounted + Cardinality(todo) + Cardinality(batch) = Cardinality(Photo)
  /\ script # "batch" => batch = {}
  /\ report # "nothing" => script = "off" /\ Accounted = Cardinality(Photo)

\* The instance counts as this module does.
LEMMA PhotoCardinality ==
  ASSUME NEW s
  PROVE  P!Cardinality(s) = Cardinality(s) /\ (P!IsFiniteSet(s) <=> IsFiniteSet(s))
BY DEF P!Cardinality, Cardinality, P!IsFiniteSet, IsFiniteSet

LEMMA PhotoSizes ==
  ASSUME PhotoSetting, NEW s \in SUBSET Photo
  PROVE  /\ IsFiniteSet(s) /\ Cardinality(s) \in Nat /\ Cardinality(Photo) \in Nat
         /\ \A p \in s : Cardinality(s \ {p}) = Cardinality(s) - 1
         /\ \A b \in SUBSET s : /\ Cardinality(s \ b) + Cardinality(b) = Cardinality(s)
                                /\ Cardinality(b) \in Nat /\ Cardinality(s \ b) \in Nat
<1>1. IsFiniteSet(s) /\ Cardinality(s) \in Nat /\ Cardinality(Photo) \in Nat
  BY PhotoCardinality, FS_Subset, FS_CardinalityType DEF PhotoSetting, P!PhotoAssumption
<1>2. \A p \in s : Cardinality(s \ {p}) = Cardinality(s) - 1
  BY <1>1, FS_RemoveElement
<1>3. ASSUME NEW b \in SUBSET s
      PROVE  /\ Cardinality(s \ b) + Cardinality(b) = Cardinality(s)
             /\ Cardinality(b) \in Nat /\ Cardinality(s \ b) \in Nat
  <2>1. IsFiniteSet(b) /\ IsFiniteSet(s \ b) /\ s \intersect b = b
    BY <1>1, FS_Subset
  <2>2. Cardinality(s \ b) = Cardinality(s) - Cardinality(b)
    BY <1>1, <2>1, FS_Difference
  <2> QED
    BY <1>1, <2>1, <2>2, FS_CardinalityType
<1> QED
  BY <1>1, <1>2, <1>3

LEMMA PhotoBatchKeeps == ASSUME PhotoSetting, PhotoInv, P!StartBatch PROVE PhotoInv'
<1>1. PICK b \in SUBSET todo :
        LET there == {p \in b : file[p] # "absent"}
        IN /\ todo' = todo \ b
           /\ batch' = b \ there
           /\ file' = [p \in Photo |-> IF p \in b \ there THEN "partial" ELSE file[p]]
           /\ stats' = [stats EXCEPT !.skipped = @ + Cardinality(there)]
  BY PhotoCardinality DEF P!StartBatch, P!kSubset
<1> DEFINE there == {p \in b : file[p] # "absent"}
<1>2. /\ script = "next" /\ script' = "batch" /\ hung' = hung /\ report' = report
      /\ batch = {} /\ report = "nothing" /\ hung = {}
      /\ todo \subseteq Photo
      /\ file \in [Photo -> {"absent", "partial", "whole"}]
      /\ stats \in [downloaded : 0..Cardinality(Photo), skipped : 0..Cardinality(Photo),
                    errors : 0..Cardinality(Photo)]
      /\ Accounted + Cardinality(todo) + Cardinality(batch) = Cardinality(Photo)
  BY PhotoCardinality DEF P!StartBatch, PhotoInv, P!TypeOK
<1>3. /\ todo' = todo \ b /\ batch' = b \ there
      /\ file' = [p \in Photo |-> IF p \in b \ there THEN "partial" ELSE file[p]]
      /\ stats' = [stats EXCEPT !.skipped = @ + Cardinality(there)]
  BY <1>1
<1>4. there \subseteq b /\ b \subseteq Photo
  BY <1>2
<1> HIDE DEF there
<1>5. /\ Cardinality(there) \in Nat /\ Cardinality(todo') \in Nat /\ Cardinality(batch') \in Nat
      /\ Cardinality(todo') + Cardinality(b) = Cardinality(todo)
      /\ Cardinality(batch') + Cardinality(there) = Cardinality(b)
      /\ Cardinality(b) \in Nat /\ Cardinality(todo) \in Nat /\ Cardinality(Photo) \in Nat
  BY <1>2, <1>3, <1>4, PhotoSizes
<1>6. /\ stats' = [downloaded |-> stats.downloaded,
                   skipped |-> stats.skipped + Cardinality(there), errors |-> stats.errors]
      /\ stats.downloaded \in Nat /\ stats.skipped + Cardinality(there) \in Nat
      /\ stats.errors \in Nat /\ stats.skipped \in Nat
  BY <1>2, <1>3, <1>5
<1>7. Cardinality(batch) = 0
  BY <1>2, FS_EmptySet
<1>8. stats.downloaded + (stats.skipped + Cardinality(there)) + stats.errors
        + (Cardinality(todo') + Cardinality(batch')) = Cardinality(Photo)
  BY <1>2, <1>5, <1>6, <1>7 DEF Accounted
<1>9. /\ stats' \in [downloaded : 0..Cardinality(Photo), skipped : 0..Cardinality(Photo),
                     errors : 0..Cardinality(Photo)]
      /\ Accounted' = stats.downloaded + (stats.skipped + Cardinality(there)) + stats.errors
  <2>1. /\ stats.downloaded \in 0..Cardinality(Photo) /\ stats.errors \in 0..Cardinality(Photo)
        /\ stats.skipped + Cardinality(there) \in 0..Cardinality(Photo)
    BY <1>5, <1>6, <1>8
  <2> QED
    BY <1>6, <2>1 DEF Accounted
<1>10. P!TypeOK'
  BY <1>2, <1>3, <1>4, <1>9, PhotoCardinality DEF P!TypeOK
<1> QED
  BY <1>2, <1>5, <1>6, <1>8, <1>9, <1>10 DEF PhotoInv

\* One download is settled and counted.
LEMMA PhotoSettledKeeps ==
  ASSUME PhotoSetting, PhotoInv, NEW p \in Photo, P!Downloaded(p) \/ P!Failed(p) PROVE PhotoInv'
<1>1. /\ p \in batch /\ p \notin hung /\ batch' = batch \ {p}
      /\ UNCHANGED <<script, todo, hung, report>>
      /\ file' \in [Photo -> {"absent", "partial", "whole"}]
      /\ \/ stats' = [stats EXCEPT !.downloaded = @ + 1]
         \/ stats' = [stats EXCEPT !.errors = @ + 1]
  BY DEF P!Downloaded, P!Failed, P!Count, PhotoInv, P!TypeOK
<1>2. /\ script = "batch" /\ report = "nothing"
      /\ todo \subseteq Photo /\ batch \subseteq Photo \ todo /\ hung \subseteq batch
      /\ stats \in [downloaded : 0..Cardinality(Photo), skipped : 0..Cardinality(Photo),
                    errors : 0..Cardinality(Photo)]
      /\ Accounted + Cardinality(todo) + Cardinality(batch) = Cardinality(Photo)
  BY <1>1, PhotoCardinality DEF PhotoInv, P!TypeOK
<1>3. /\ Cardinality(batch') = Cardinality(batch) - 1 /\ Cardinality(batch') \in Nat
      /\ Cardinality(batch) \in Nat /\ Cardinality(todo) \in Nat /\ Cardinality(Photo) \in Nat
  <2>1. batch' \in SUBSET Photo /\ batch \in SUBSET Photo
    BY <1>1, <1>2
  <2> QED
    BY <1>1, <1>2, <2>1, PhotoSizes
<1>4. stats.downloaded \in Nat /\ stats.skipped \in Nat /\ stats.errors \in Nat
  BY <1>2, <1>3
<1>5. PICK d \in Nat, e \in Nat :
        /\ d + e = stats.downloaded + stats.errors + 1
        /\ stats' = [downloaded |-> d, skipped |-> stats.skipped, errors |-> e]
  <2> USE <1>4
  <2>1. CASE stats' = [stats EXCEPT !.downloaded = @ + 1]
    <3> WITNESS stats.downloaded + 1 \in Nat, stats.errors \in Nat
    <3> QED
      BY <1>2, <1>4, <2>1
  <2>2. CASE stats' = [stats EXCEPT !.errors = @ + 1]
    <3> WITNESS stats.downloaded \in Nat, stats.errors + 1 \in Nat
    <3> QED
      BY <1>2, <1>4, <2>2
  <2> QED
    BY <1>1, <2>1, <2>2
<1>6. d + stats.skipped + e + (Cardinality(todo) + Cardinality(batch')) = Cardinality(Photo)
  BY <1>2, <1>3, <1>4, <1>5 DEF Accounted
<1>7. /\ stats' \in [downloaded : 0..Cardinality(Photo), skipped : 0..Cardinality(Photo),
                     errors : 0..Cardinality(Photo)]
      /\ Accounted' = d + stats.skipped + e
  <2>1. /\ d \in 0..Cardinality(Photo) /\ e \in 0..Cardinality(Photo)
        /\ stats.skipped \in 0..Cardinality(Photo)
    BY <1>3, <1>4, <1>6
  <2> QED
    BY <1>5, <2>1 DEF Accounted
<1>8. P!TypeOK'
  BY <1>1, <1>2, <1>7, PhotoCardinality DEF PhotoInv, P!TypeOK
<1> QED
  BY <1>1, <1>2, <1>3, <1>4, <1>6, <1>7, <1>8 DEF PhotoInv

LEMMA PhotoKeeps == ASSUME PhotoSetting PROVE PhotoInv /\ [P!Next]_(P!vars) => PhotoInv'
<1> SUFFICES ASSUME PhotoInv, [P!Next]_(P!vars) PROVE PhotoInv'
  OBVIOUS
<1>1. Cardinality({}) = 0 /\ Cardinality(Photo) \in Nat
  BY FS_EmptySet, PhotoSizes
<1>2. CASE P!Run
  <2>1. stats' = [downloaded |-> 0, skipped |-> 0, errors |-> 0]
    BY <1>2 DEF P!Run, P!NoStats
  <2>2. Accounted' + Cardinality(Photo) = Cardinality(Photo)
    BY <1>1, <2>1 DEF Accounted
  <2>3. P!TypeOK'
    BY <1>1, <1>2, <2>1, PhotoCardinality DEF P!Run, PhotoInv, P!TypeOK
  <2> QED
    BY <1>1, <1>2, <2>1, <2>2, <2>3 DEF P!Run, PhotoInv, Accounted
<1>3. CASE P!BatchEnds
  BY <1>3 DEF P!BatchEnds, PhotoInv, P!TypeOK, Accounted
<1>4. CASE P!Report
  <2>1. Accounted + 0 + 0 = Cardinality(Photo)
    BY <1>1, <1>4 DEF P!Report, PhotoInv
  <2>2. Accounted = Cardinality(Photo)
    BY <1>1, <2>1, PhotoCardinality DEF PhotoInv, P!TypeOK, Accounted
  <2> QED
    BY <1>4, <2>2 DEF P!Report, PhotoInv, P!TypeOK, Accounted
<1>5. CASE P!Starve \/ P!Stop
  BY <1>5 DEF P!Starve, P!Stop, P!End, PhotoInv, P!TypeOK, Accounted
<1>6. CASE P!StartBatch
  BY <1>6, PhotoBatchKeeps
<1>7. ASSUME NEW p \in Photo, P!Downloaded(p) \/ P!Failed(p) PROVE PhotoInv'
  BY <1>7, PhotoSettledKeeps
<1>8. ASSUME NEW p \in Photo, P!Cut(p) PROVE PhotoInv'
  BY <1>8 DEF P!Cut, PhotoInv, P!TypeOK, Accounted
<1>9. CASE UNCHANGED P!vars
  BY <1>9 DEF P!vars, PhotoInv, P!TypeOK, Accounted
<1> QED
  BY <1>2, <1>3, <1>4, <1>5, <1>6, <1>7, <1>8, <1>9 DEF P!Next, P!Go

LEMMA PhotoAlways == ASSUME PhotoSetting PROVE P!Spec => []PhotoInv
<1>1. P!Init => PhotoInv
  <2>1. Cardinality(Photo) \in Nat
    BY PhotoSizes
  <2> QED
    BY <2>1, PhotoCardinality DEF P!Init, P!NoStats, PhotoInv, P!TypeOK
<1>2. PhotoInv /\ [P!Next]_(P!vars) => PhotoInv'
  BY PhotoKeeps
<1> QED
  BY <1>1, <1>2, PTL DEF P!Spec

(* The type of the download's state; no counter exceeds the photos.        *)
THEOREM PhotoTypes == ASSUME PhotoSetting PROVE P!Spec => []P!TypeOK
<1>1. PhotoInv => P!TypeOK
  BY DEF PhotoInv
<1> QED
  BY <1>1, PhotoAlways, PTL

(***************************************************************************)
(* The statistics a run of the download reports account for every photo    *)
(* once, whatever fails and in whatever order a batch settles, for any     *)
(* photos and any size of a batch.                                         *)
(***************************************************************************)
THEOREM StatisticsAddUp == ASSUME PhotoSetting PROVE P!Spec => []P!StatsAddUp
<1>1. PhotoInv => P!StatsAddUp
  BY PhotoCardinality DEF PhotoInv, P!StatsAddUp, Accounted
<1> QED
  BY <1>1, PhotoAlways, PTL

(* While downloads either succeed or fail, a photo that is partly there is *)
(* one of the batch, and while nothing has failed all photos the script    *)
(* has done with are whole.                                                *)
PhotosDone ==
  /\ hung = {}
  /\ \A p \in Photo : file[p] = "partial" => p \in batch
  /\ script # "off" /\ stats.errors = 0 =>
       \A p \in Photo \ (todo \union batch) : file[p] = "whole"
  /\ P!ReportIsTrue

LEMMA PhotosDoneKept ==
  ASSUME PhotoSetting, PhotoFaults \subseteq {"refused"}
  PROVE  PhotoInv /\ PhotosDone /\ [P!Next]_(P!vars) => PhotosDone'
<1> SUFFICES ASSUME PhotoInv, PhotosDone, [P!Next]_(P!vars) PROVE PhotosDone'
  OBVIOUS
<1> USE DEF PhotosDone, PhotoInv, P!TypeOK, P!ReportIsTrue
<1>1. CASE P!Run
  BY <1>1 DEF P!Run
<1>2. CASE P!BatchEnds
  BY <1>2 DEF P!BatchEnds
<1>3. CASE P!Report
  <2>1. stats.errors \in Nat
    BY PhotoSizes, PhotoCardinality
  <2> QED
    BY <1>3, <2>1 DEF P!Report
<1>4. CASE P!StartBatch
  BY <1>4 DEF P!StartBatch, P!kSubset
<1>5. ASSUME NEW p \in Photo, P!Downloaded(p) PROVE PhotosDone'
  BY <1>5 DEF P!Downloaded, P!Count
<1>6. ASSUME NEW p \in Photo, P!Failed(p) PROVE PhotosDone'
  <2>1. stats'.errors # 0
    BY <1>6, PhotoSizes, PhotoCardinality DEF P!Failed, P!Count
  <2> QED
    BY <1>6, <2>1 DEF P!Failed
<1>7. CASE P!Starve \/ P!Stop \/ \E p \in Photo : P!Cut(p)
  BY <1>7 DEF P!Starve, P!Stop, P!Cut
<1>8. CASE UNCHANGED P!vars
  BY <1>8 DEF P!vars
<1> QED
  BY <1>1, <1>2, <1>3, <1>4, <1>5, <1>6, <1>7, <1>8 DEF P!Next, P!Go

(* "All photos downloaded successfully!" is true as long as downloads      *)
(* either succeed or fail.                                                 *)
THEOREM SuccessIsTrue ==
  ASSUME PhotoSetting, PhotoFaults \subseteq {"refused"}
  PROVE  P!Spec => []P!ReportIsTrue
<1>1. P!Init => PhotosDone
  BY DEF P!Init, PhotosDone, P!ReportIsTrue
<1>2. PhotoInv /\ PhotosDone /\ [P!Next]_(P!vars) => PhotosDone'
  BY PhotosDoneKept
<1>3. PhotosDone => P!ReportIsTrue
  BY DEF PhotosDone
<1> QED
  BY <1>1, <1>2, <1>3, PhotoAlways, PTL DEF P!Spec

-----------------------------------------------------------------------------
(* QuestionImport *)

ImportSetting == I!BoundAssumption

(* A scraper that has not asked for questions has none left to ask for and *)
(* none answered; what an import has read was checked before its           *)
(* transaction began.                                                      *)
ImportInv ==
  /\ I!TypeOK
  /\ scraper \in {"fetchLessons", "openLessons", "writeLessons"} => left = {} /\ answered = {}
  /\ \A k \in 1..MaxImports : loaded[k].questions \subseteq loaded[k].lessons
  /\ I!AllOrNothing

\* While the bound allows an import, one is left to be begun.
LEMMA ImportIsLeft ==
  ASSUME ImportSetting, I!Cardinality(I!Imports) < MaxImports
  PROVE  I!NextImport \in 1..MaxImports
<1>1. MaxImports \in Nat /\ IsFiniteSet(1..MaxImports) /\ Cardinality(1..MaxImports) = MaxImports
  BY FS_Interval DEF ImportSetting, I!BoundAssumption
<1>2. I!Cardinality(I!Imports) = Cardinality(I!Imports)
  BY DEF I!Cardinality, Cardinality
<1>3. I!Imports # 1..MaxImports
  BY <1>1, <1>2
<1>4. \E k \in 1..MaxImports : loaded[k].lessons = {} /\ loaded[k].questions = {}
  BY <1>3 DEF I!Imports
<1> QED
  BY <1>4 DEF I!NextImport

\* A scraper never touches what the migration works on, and the files it
\* writes hold lessons.
LEMMA ScraperTypes ==
  ASSUME ImportInv, I!SiteChanges \/ I!Scrape \/ I!ScraperStep \/ I!StopScraper, ImportSetting
  PROVE  ImportInv'
<1> USE DEF ImportInv, I!TypeOK, I!scraperVars, I!migrationVars
<1>1. ASSUME UNCHANGED <<loaded, inserted, migrating, tables>>, I!TypeOK',
             scraper' \in {"fetchLessons", "openLessons", "writeLessons"} =>
               left' = {} /\ answered' = {}
      PROVE  ImportInv'
  BY <1>1 DEF I!AllOrNothing
<1>2. CASE I!SiteChanges
  BY <1>2, <1>1 DEF I!SiteChanges
<1>3. CASE I!Scrape
  <2>1. scrapes' \in 0..MaxScrapes
    BY <1>3 DEF I!Scrape, ImportSetting, I!BoundAssumption
  <2>2. summary' \in BOOLEAN
    BY <1>3 DEF I!Scrape
  <2>3. /\ UNCHANGED <<site, disk, loaded, inserted, migrating, tables>>
        /\ scraper' = "fetchLessons" /\ fetched' = {} /\ left' = {} /\ answered' = {}
    BY <1>3 DEF I!Scrape
  <2> QED
    BY <1>1, <2>1, <2>2, <2>3
<1>4. CASE I!FetchLessons
  BY <1>4, <1>1 DEF I!FetchLessons
<1>5. CASE I!FetchLessonsFails
  BY <1>5, <1>1 DEF I!FetchLessonsFails
<1>6. ASSUME NEW f \in I!FileName, NEW here, NEW there, I!Open(f, here, there),
             there \in {"writeLessons", "writeQuestions", "writeExams", "writeControls"},
             there = "writeLessons" => here = "openLessons"
      PROVE  ImportInv'
  BY <1>6, <1>1 DEF I!Open
<1>7. ASSUME NEW f \in I!FileName, NEW what \in SUBSET Lesson, NEW here, NEW there,
             I!Write(f, what, here, there),
             there \in {"fetchQuestions", "openExams", "openControls", "summarize"},
             left' = left \/ (here = "writeLessons" /\ left' = fetched)
      PROVE  ImportInv'
  <2>1. /\ UNCHANGED <<fetched, answered, summary, scrapes, site>> /\ scraper = here
        /\ UNCHANGED <<loaded, inserted, migrating, tables>> /\ scraper' = there
    BY <1>7 DEF I!Write
  <2>2. disk' \in [I!FileName -> [state : {"absent", "broken", "whole"}, holds : SUBSET Lesson]]
    BY <1>7 DEF I!Write
  <2>3. left' \subseteq fetched /\ answered \subseteq fetched \ left'
    BY <1>7, <2>1
  <2> QED
    BY <1>1, <1>7, <2>1, <2>2, <2>3
<1>8. ASSUME NEW l \in Lesson, I!FetchLessonQuestions(l) PROVE ImportInv'
  BY <1>8, <1>1 DEF I!FetchLessonQuestions
<1>9. ASSUME NEW l \in Lesson, I!FetchLessonQuestionsFails(l) PROVE ImportInv'
  BY <1>9, <1>1 DEF I!FetchLessonQuestionsFails
<1>10. CASE I!Summarize
  BY <1>10, <1>1 DEF I!Summarize
<1>11. CASE I!StopScraper
  BY <1>11, <1>1 DEF I!StopScraper
<1>12. CASE I!WriteLessons \/ I!WriteQuestions
  BY <1>7, <1>12 DEF I!WriteLessons, I!WriteQuestions, I!FileName
<1>13. CASE I!Open("lessons", "openLessons", "writeLessons") \/ I!OpenQuestions
  BY <1>6, <1>13 DEF I!OpenQuestions, I!FileName
<1>14. CASE I!SaveOthers
  BY <1>6, <1>7, <1>14 DEF I!SaveOthers, I!FileName
<1> QED
  BY <1>2, <1>3, <1>4, <1>5, <1>8, <1>9, <1>10, <1>11, <1>12, <1>13, <1>14 DEF I!ScraperStep

LEMMA ImportKeeps ==
  ASSUME ImportSetting PROVE ImportInv /\ [I!Next]_(I!vars) => ImportInv'
<1> SUFFICES ASSUME ImportInv, [I!Next]_(I!vars) PROVE ImportInv'
  OBVIOUS
<1> USE DEF ImportInv, I!TypeOK, I!scraperVars, I!migrationVars
<1>1. CASE I!SiteChanges \/ I!Scrape \/ I!ScraperStep \/ I!StopScraper
  BY <1>1, ScraperTypes
<1>2. CASE I!Migrate
  <2>1. I!NextImport \in 1..MaxImports
    BY <1>2, ImportIsLeft DEF I!Migrate
  <2>2. PICK k \in 1..MaxImports :
          /\ k = I!NextImport /\ migrating' = k
          /\ loaded' = [loaded EXCEPT ![k] = [lessons |-> disk["lessons"].holds,
                                              questions |-> disk["questions"].holds]]
    BY <1>2, <2>1 DEF I!Migrate
  <2>3. /\ disk["questions"].holds \subseteq disk["lessons"].holds
        /\ disk["questions"].holds \subseteq Lesson /\ disk["lessons"].holds \subseteq Lesson
    BY <1>2 DEF I!Migrate, I!EveryQuestionHasItsSubject, I!FileName
  <2>4. /\ UNCHANGED <<site, disk, scraper, fetched, left, answered, summary, scrapes, tables>>
        /\ inserted' = {}
    BY <1>2 DEF I!Migrate
  <2>5. I!TypeOK'
    BY <2>2, <2>3, <2>4
  <2> QED
    BY <2>2, <2>3, <2>4, <2>5 DEF I!AllOrNothing
<1>3. ASSUME NEW t \in I!Table, I!BatchInsert(t) PROVE ImportInv'
  BY <1>3 DEF I!BatchInsert, I!AllOrNothing
<1>4. CASE I!Commit
  <2>1. /\ tables' = [t \in I!Table |-> tables[t] \union {migrating}] /\ migrating' = 0
        /\ UNCHANGED <<site, disk, scraper, fetched, left, answered, summary, scrapes,
                       loaded, inserted>>
    BY <1>4 DEF I!Commit
  <2>2. MaxImports \in Nat /\ migrating \in 1..MaxImports
    BY <1>4 DEF I!Commit, ImportSetting, I!BoundAssumption
  <2>3. tables' \in [I!Table -> SUBSET (1..MaxImports)] /\ 0 \in 0..MaxImports
    BY <2>1, <2>2
  <2>4. I!AllOrNothing'
    BY <2>1 DEF I!AllOrNothing
  <2> QED
    BY <2>1, <2>3, <2>4
<1>5. CASE I!Rollback
  BY <1>5 DEF I!Rollback, I!AllOrNothing, ImportSetting, I!BoundAssumption
<1>6. CASE UNCHANGED I!vars
  BY <1>6 DEF I!vars, I!AllOrNothing
<1> QED
  BY <1>1, <1>2, <1>3, <1>4, <1>5, <1>6 DEF I!Next, I!MigrationStep

LEMMA ImportAlways == ASSUME ImportSetting PROVE I!Spec => []ImportInv
<1>1. ASSUME I!Init PROVE ImportInv
  <2>1. MaxScrapes \in Nat /\ MaxImports \in Nat
    BY DEF ImportSetting, I!BoundAssumption
  <2>2. /\ loaded \in [1..MaxImports -> [lessons : SUBSET Lesson, questions : SUBSET Lesson]]
        /\ \A k \in 1..MaxImports : loaded[k].questions \subseteq loaded[k].lessons
    BY <1>1 DEF I!Init
  <2>3. disk \in [I!FileName -> [state : {"absent", "broken", "whole"}, holds : SUBSET Lesson]]
    BY <1>1 DEF I!Init, I!Absent
  <2>4. tables \in [I!Table -> SUBSET (1..MaxImports)] /\ I!AllOrNothing
    BY <1>1 DEF I!Init, I!AllOrNothing
  <2>5. summary \in BOOLEAN
    BY <1>1 DEF I!Init
  <2> QED
    BY <1>1, <2>1, <2>2, <2>3, <2>4, <2>5 DEF I!Init, ImportInv, I!TypeOK
<1>2. ImportInv /\ [I!Next]_(I!vars) => ImportInv'
  BY ImportKeeps
<1> QED
  BY <1>1, <1>2, PTL DEF I!Spec

(* The type of the import's files and tables.                              *)
THEOREM ImportTypes == ASSUME ImportSetting PROVE I!Spec => []I!TypeOK
<1>1. ImportInv => I!TypeOK
  BY DEF ImportInv
<1> QED
  BY <1>1, ImportAlways, PTL

(***************************************************************************)
(* Whatever fails or is stopped, and however runs of the scraper and of    *)
(* the migration interleave, an import is in every table or in none, and   *)
(* every imported question has the subject it was fetched for.             *)
(***************************************************************************)
THEOREM ImportsAreWhole ==
  ASSUME ImportSetting PROVE I!Spec => [](I!AllOrNothing /\ I!SubjectsAreThere)
<1>1. ImportInv => I!AllOrNothing /\ I!SubjectsAreThere
  BY DEF ImportInv, I!TypeOK, I!SubjectsAreThere, I!Table
<1> QED
  BY <1>1, ImportAlways, PTL

(* A scraper that runs has written the lessons it fetched when it asks for *)
(* their questions; before and after, the two files fit.                   *)
FilesMatch ==
  LET lessons == disk["lessons"].holds
  IN /\ scraper \notin {"writeLessons", "fetchQuestions", "writeQuestions"} =>
          disk["questions"].holds \subseteq lessons
     /\ scraper \in {"fetchQuestions", "writeQuestions"} => lessons = fetched

LEMMA FilesKeptMatching ==
  ASSUME ImportSetting, "stopped" \notin ImportFaults
  PROVE  ImportInv /\ FilesMatch /\ [I!Next]_(I!vars) => FilesMatch'
<1> SUFFICES ASSUME ImportInv, FilesMatch, [I!Next]_(I!vars) PROVE FilesMatch'
  OBVIOUS
<1> USE DEF ImportInv, I!TypeOK, I!scraperVars, I!migrationVars, I!FileName, FilesMatch
<1>1. CASE I!SiteChanges \/ I!Scrape \/ I!FetchLessons \/ I!FetchLessonsFails \/ I!Summarize
  BY <1>1 DEF I!SiteChanges, I!Scrape, I!FetchLessons, I!FetchLessonsFails, I!Summarize
<1>2. CASE I!Open("lessons", "openLessons", "writeLessons") \/ I!OpenQuestions
  BY <1>2 DEF I!Open, I!OpenQuestions
<1>3. CASE I!WriteLessons
  BY <1>3 DEF I!WriteLessons, I!Write
<1>4. CASE I!WriteQuestions
  BY <1>4 DEF I!WriteQuestions, I!Write
<1>5. CASE I!SaveOthers
  BY <1>5 DEF I!SaveOthers, I!Open, I!Write
<1>6. ASSUME NEW l \in Lesson, I!FetchLessonQuestions(l) \/ I!FetchLessonQuestionsFails(l)
      PROVE  FilesMatch'
  BY <1>6 DEF I!FetchLessonQuestions, I!FetchLessonQuestionsFails
<1>7. CASE I!StopScraper
  BY <1>7 DEF I!StopScraper
<1>8. CASE I!Migrate \/ I!MigrationStep \/ I!Rollback
  BY <1>8 DEF I!Migrate, I!MigrationStep, I!BatchInsert, I!Commit, I!Rollback
<1>9. CASE UNCHANGED I!vars
  BY <1>9 DEF I!vars
<1> QED
  BY <1>1, <1>2, <1>3, <1>4, <1>5, <1>6, <1>7, <1>8, <1>9 DEF I!Next, I!ScraperStep

(* As long as the scraper is not stopped, its files fit each other when it *)
(* is not running, whatever requests fail and however the site changes.    *)
THEOREM ScrapesFit ==
  ASSUME ImportSetting, "stopped" \notin ImportFaults PROVE I!Spec => []I!FilesFit
<1>1. I!Init => FilesMatch
  BY DEF I!Init, I!Absent, I!FileName, FilesMatch
<1>2. ImportInv /\ FilesMatch /\ [I!Next]_(I!vars) => FilesMatch'
  BY FilesKeptMatching
<1>3. FilesMatch => I!FilesFit
  BY DEF FilesMatch, I!FilesFit
<1> QED
  BY <1>1, <1>2, <1>3, ImportAlways, PTL DEF I!Spec

-----------------------------------------------------------------------------
(* Seeding *)

SeedSetting ==
  S!RolesDeleteAssumption /\ S!TroubleAssumption /\ SuperAdmin # Admin

SeededUser == {SuperAdmin, Admin, Plain}

\* The tables the script has emptied and does not fill again.
Emptied == {"subjects", "tickets", "questions", "answers", "files"}
NothingIn(which) == \A t \in which : seeded[t] = {}

\* The roles the script has made when it is at the role of number n.
RolesUpTo(n) == {S!RoleOrder[j] : j \in 1..n}

\* The first n roles have what is theirs, the last of them all but what is
\* still to be granted, and m of them have their users.
RolesAreMade(n, granting, m) ==
  /\ seeded["permissions"] = Permission
  /\ seeded["roles"] = RolesUpTo(n)
  /\ seeded["rolePermissions"] =
       {g \in RolesUpTo(n) \X Permission :
          g[2] \in S!PermissionsOf(g[1]) /\ (g[1] = S!RoleOrder[n] => g[2] \notin granting)}
  /\ seeded["userRoles"] = {<<r, r>> : r \in RolesUpTo(m)}

(* What is done at each stage of the script.  Users may register at any    *)
(* time, so nothing is said of their table before the script's are made.   *)
SeedStages ==
  /\ seeder = "delete" =>
       at \in 1..13 /\ NothingIn({S!DeleteOrder[j] : j \in 1..(at - 1)} \ {"users"})
  /\ seeder # "delete" /\ seeder # "off" => NothingIn(Emptied)
  /\ seeder = "users" =>
       /\ creating \subseteq SeededUser /\ SeededUser \ creating \subseteq seeded["users"]
       /\ NothingIn({"permissions", "roles", "rolePermissions", "userRoles"})
  /\ seeder \in {"permissions", "role", "grant", "link"} => SeededUser \subseteq seeded["users"]
  /\ seeder = "permissions" =>
       /\ creating \subseteq Permission /\ seeded["permissions"] = Permission \ creating
       /\ NothingIn({"roles", "rolePermissions", "userRoles"})
  /\ seeder \in {"role", "grant", "link"} => at \in 1..2
  /\ seeder = "role" => RolesAreMade(at - 1, {}, at - 1)
  /\ seeder = "grant" =>
       creating \subseteq S!PermissionsOf(S!RoleOrder[at]) /\ RolesAreMade(at, creating, at - 1)
  /\ seeder = "link" => RolesAreMade(at, {}, at - 1)
  /\ seeder # "off" => ~printed

SeedInv ==
  /\ seeded = [t \in S!Table |-> seeded[t]]
  /\ S!TypeOK
  /\ SeedStages
  /\ S!CompletedIsSeeded

LEMMA SeedTables ==
  /\ S!DeleteOrder =
       <<"userPermissions", "userRoles", "rolePermissions", "userSessions", "refreshTokens",
         "permissions", "roles", "users", "subjects", "tickets", "files", "answers", "questions">>
  /\ Len(S!DeleteOrder) = 13 /\ DOMAIN S!DeleteOrder = 1..13
  /\ S!Table = {"userPermissions", "userRoles", "rolePermissions", "userSessions",
                "refreshTokens", "permissions", "roles", "users", "subjects", "tickets",
                "files", "answers", "questions", "jobs"}
<1>1. /\ S!DeleteOrder =
           <<"userPermissions", "userRoles", "rolePermissions", "userSessions", "refreshTokens",
             "permissions", "roles", "users", "subjects", "tickets", "files", "answers",
             "questions">>
      /\ Len(S!DeleteOrder) = 13 /\ DOMAIN S!DeleteOrder = 1..13
  BY DEF S!DeleteOrder
<1>2. {S!DeleteOrder[i] : i \in 1..13} =
        {"userPermissions", "userRoles", "rolePermissions", "userSessions",
         "refreshTokens", "permissions", "roles", "users", "subjects", "tickets",
         "files", "answers", "questions"}
  BY <1>1
<1> QED
  BY <1>1, <1>2 DEF S!Table

\* Two roles in their order.
LEMMA SeedRoles ==
  /\ Len(S!RoleOrder) = 2
  /\ S!RoleOrder[1] = SuperAdmin /\ S!RoleOrder[2] = Admin
  /\ RolesUpTo(0) = {} /\ RolesUpTo(1) = {SuperAdmin} /\ RolesUpTo(2) = {SuperAdmin, Admin}
BY DEF S!RoleOrder, RolesUpTo

LEMMA SeedStarts == ASSUME SeedSetting, S!Init PROVE SeedInv
<1>1. PICK old \in {{}, {Old}} :
        seeded = [t \in S!Table |->
                    CASE t = "jobs" -> {}
                      [] t = "users" -> {Plain}
                      [] t \in {"rolePermissions", "userRoles"} -> old \X old
                      [] OTHER -> old]
  BY DEF S!Init
<1>2. /\ seeded = [t \in S!Table |-> seeded[t]]
      /\ seeded["users"] = {Plain} /\ seeded["permissions"] = old /\ seeded["roles"] = old
      /\ seeded["rolePermissions"] = old \X old
  BY <1>1, SeedTables
<1>3. S!TypeOK
  <2>1. old \X old \subseteq {<<Old, Old>>}
    OBVIOUS
  <2>2. seeder = "off" /\ at = 0 /\ creating = {} /\ printed = FALSE /\ trouble = 0 /\ MaxTrouble \in Nat
    BY DEF S!Init, SeedSetting, S!TroubleAssumption
  <2>3. /\ seeded["users"] \subseteq {SuperAdmin, Admin, Plain, Newcomer}
        /\ seeded["permissions"] \subseteq Permission \union {Old}
        /\ seeded["roles"] \subseteq {SuperAdmin, Admin, Old}
    BY <1>2
  <2>4. seeded["rolePermissions"] \subseteq
          ({SuperAdmin, Admin} \X Permission) \union {<<Old, Old>>}
    BY <1>2, <2>1
  <2>5. trouble \in 0..MaxTrouble /\ at \in 0..Len(S!DeleteOrder) /\ creating \subseteq Permission
    BY <2>2, SeedTables
  <2>6. printed \in BOOLEAN
    BY <2>2
  <2> QED
    BY <2>2, <2>3, <2>4, <2>5, <2>6 DEF S!TypeOK
<1> QED
  BY <1>2, <1>3 DEF SeedInv, SeedStages, S!CompletedIsSeeded, S!Init

\* What a stage says is not touched by somebody else's registration.
LEMMA SeedStopKeeps ==
  ASSUME SeedSetting, SeedInv, S!Stop \/ S!Run PROVE SeedInv'
<1>1. /\ seeded' = seeded /\ at' \in {0, 1} /\ creating' = {}
      /\ (seeder' = "off" /\ printed' = printed) \/ (seeder' = "delete" /\ at' = 1 /\ printed' = FALSE)
      /\ trouble' \in 0..MaxTrouble
  BY DEF S!Stop, S!Run, S!Trouble, SeedInv, S!TypeOK, SeedSetting, S!TroubleAssumption
<1>2. S!TypeOK'
  <2>1. at' \in 0..Len(S!DeleteOrder) /\ creating' \subseteq Permission
    BY <1>1, SeedTables
  <2>2. printed' \in BOOLEAN
    BY <1>1 DEF SeedInv, S!TypeOK
  <2> QED
    BY <1>1, <2>1, <2>2 DEF SeedInv, S!TypeOK
<1>3. SeedStages'
  BY <1>1 DEF SeedInv, SeedStages, NothingIn
<1>4. S!CompletedIsSeeded'
  BY <1>1 DEF SeedInv, SeedStages, S!CompletedIsSeeded, S!Run, S!Stop
<1> QED
  BY <1>1, <1>2, <1>3, <1>4 DEF SeedInv

LEMMA SeedOthersKeep ==
  ASSUME SeedSetting, SeedInv, (\E u \in {Newcomer, Plain} : S!Register(u)) \/ S!Enqueue
  PROVE  SeedInv'
<1>1. PICK t, added :
        /\ t \in {"users", "jobs"}
        /\ seeded' = [seeded EXCEPT ![t] = @ \union {added}]
        /\ t = "users" => added \in {Newcomer, Plain}
  BY DEF S!Register, S!Enqueue, S!Add
<1>2. /\ UNCHANGED <<seeder, at, creating, printed>> /\ trouble' \in 0..MaxTrouble
  BY DEF S!Register, S!Enqueue, S!Trouble, SeedInv, S!TypeOK, SeedSetting, S!TroubleAssumption
<1>3. /\ seeded' = [x \in S!Table |-> seeded'[x]]
      /\ seeded["users"] \subseteq seeded'["users"]
      /\ seeded'["users"] \subseteq seeded["users"] \union {Newcomer, Plain}
      /\ \A x \in S!Table \ {"users", "jobs"} : seeded'[x] = seeded[x]
  BY <1>1, SeedTables DEF SeedInv
<1>4. S!TypeOK'
  BY <1>2, <1>3, SeedTables DEF SeedInv, S!TypeOK
<1>5. SeedStages'
  <2>1. ASSUME seeder = "delete"
        PROVE  NothingIn({S!DeleteOrder[j] : j \in 1..(at - 1)} \ {"users"})'
    <3>1. \A j \in 1..13 : S!DeleteOrder[j] \in S!Table \ {"jobs"}
      BY SeedTables
    <3> QED
      BY <1>2, <1>3, <2>1, <3>1 DEF SeedInv, SeedStages, NothingIn
  <2>2. ASSUME NEW n \in 0..2, NEW g, NEW m \in 0..2, RolesAreMade(n, g, m)
        PROVE  RolesAreMade(n, g, m)'
    BY <1>3, <2>2, SeedTables DEF RolesAreMade, RolesUpTo, S!PermissionsOf, S!RoleOrder
  <2> QED
    BY <1>2, <1>3, <2>1, <2>2, SeedTables DEF SeedInv, SeedStages, NothingIn, Emptied
<1>6. S!CompletedIsSeeded'
  BY <1>2, <1>3, SeedTables DEF SeedInv, S!CompletedIsSeeded
<1> QED
  BY <1>3, <1>4, <1>5, <1>6 DEF SeedInv

LEMMA SeedDeleteKeeps == ASSUME SeedSetting, SeedInv, S!DeleteMany PROVE SeedInv'
<1>1. CASE S!Restricted(S!DeleteOrder[at])
  <2>1. seeded' = seeded /\ seeder' = "off" /\ at' = 0 /\ creating' = {}
        /\ printed' = printed /\ ~printed /\ trouble' = trouble
    BY <1>1 DEF S!DeleteMany, S!Fail, SeedInv, SeedStages
  <2> QED
    BY <2>1, SeedTables DEF SeedInv, SeedStages, S!TypeOK, S!CompletedIsSeeded
<1>2. CASE ~S!Restricted(S!DeleteOrder[at])
  <2> DEFINE gone == {S!DeleteOrder[at]} \union S!Cascade(S!DeleteOrder[at])
  <2>1. /\ seeded' = [t \in S!Table |-> IF t \in gone THEN {} ELSE seeded[t]]
        /\ S!AfterTable(at)
        /\ printed' = printed /\ ~printed /\ trouble' = trouble /\ seeder = "delete" /\ at \in 1..13
    BY <1>2 DEF S!DeleteMany, SeedInv, SeedStages
  <2>2. \A t \in S!Table : seeded'[t] = {} \/ seeded'[t] = seeded[t]
    BY <2>1
  <2>3. seeded'[S!DeleteOrder[at]] = {}
    BY <2>1, SeedTables
  <2> HIDE DEF gone
  <2>4. seeded' = [t \in S!Table |-> seeded'[t]]
    BY <2>1
  <2>5. \A j \in 1..at : S!DeleteOrder[j] # "users" => seeded'[S!DeleteOrder[j]] = {}
    <3> TAKE j \in 1..at
    <3>1. S!DeleteOrder[j] \in S!Table
      BY <2>1, SeedTables
    <3>2. CASE j = at
      BY <2>3, <3>2
    <3>3. CASE j \in 1..(at - 1)
      BY <2>1, <2>2, <3>1, <3>3 DEF SeedInv, SeedStages, NothingIn
    <3> QED
      BY <2>1, <3>2, <3>3
  <2>6. CASE at < 13
    <3>1. seeder' = "delete" /\ at' = at + 1 /\ creating' = {}
      BY <2>1, <2>6, SeedTables DEF S!AfterTable
    <3>2. S!TypeOK'
      BY <2>1, <2>2, <2>6, <3>1, SeedTables DEF SeedInv, S!TypeOK
    <3>3. SeedStages'
      BY <2>1, <2>5, <2>6, <3>1 DEF SeedStages, NothingIn
    <3> QED
      BY <2>1, <2>4, <3>1, <3>2, <3>3 DEF SeedInv, S!CompletedIsSeeded
  <2>7. CASE at = 13
    <3>1. seeder' = "users" /\ at' = 0 /\ creating' = SeededUser
      BY <2>1, <2>7, SeedTables DEF S!AfterTable, SeededUser
    <3>2. S!TypeOK'
      BY <2>1, <2>2, <3>1, SeedTables DEF SeedInv, S!TypeOK, SeededUser
    <3>3. NothingIn(Emptied \union {"permissions", "roles", "rolePermissions", "userRoles"})'
      BY <2>5, <2>7, SeedTables DEF NothingIn, Emptied
    <3>4. SeedStages'
      BY <2>1, <3>1, <3>3 DEF SeedStages, NothingIn
    <3> QED
      BY <2>1, <2>4, <3>1, <3>2, <3>4 DEF SeedInv, S!CompletedIsSeeded
  <2> QED
    BY <2>1, <2>6, <2>7
<1> QED
  BY <1>1, <1>2

\* A script that has ended without a word leaves nothing to be said.
LEMMA SeedFailureKeeps ==
  ASSUME SeedSetting, SeedInv, S!Fail, ~printed,
         seeded' = [t \in S!Table |-> seeded'[t]],
         seeded'["users"] \subseteq {SuperAdmin, Admin, Plain, Newcomer},
         \A t \in S!Table \ {"users"} : seeded'[t] = seeded[t]
  PROVE  SeedInv'
<1>1. /\ seeder' = "off" /\ at' = 0 /\ creating' = {}
      /\ printed' = printed /\ ~printed' /\ trouble' = trouble
  BY DEF S!Fail
<1>2. S!TypeOK'
  BY <1>1, SeedTables DEF SeedInv, S!TypeOK
<1>3. SeedStages' /\ S!CompletedIsSeeded'
  BY <1>1 DEF SeedStages, S!CompletedIsSeeded
<1> QED
  BY <1>2, <1>3 DEF SeedInv

LEMMA SeedUserKeeps ==
  ASSUME SeedSetting, SeedInv, NEW u \in SeededUser, S!CreateUser(u) PROVE SeedInv'
<1>1. /\ seeder = "users" /\ ~printed /\ creating \subseteq SeededUser
      /\ SeededUser \ creating \subseteq seeded["users"] /\ u \in creating
      /\ NothingIn(Emptied \union {"permissions", "roles", "rolePermissions", "userRoles"})
      /\ seeded["users"] \subseteq {SuperAdmin, Admin, Plain, Newcomer}
  BY DEF S!CreateUser, SeedInv, SeedStages, NothingIn, S!TypeOK
<1>2. CASE u \in seeded["users"]
  <2>1. PICK s \in SUBSET (creating \ {u}) :
          seeded' = [seeded EXCEPT !["users"] = @ \union s]
    BY <1>2 DEF S!CreateUser
  <2>2. S!Fail
    BY <1>2 DEF S!CreateUser
  <2>3. /\ seeded' = [t \in S!Table |-> seeded'[t]]
        /\ \A t \in S!Table \ {"users"} : seeded'[t] = seeded[t]
        /\ seeded'["users"] = seeded["users"] \union s
    BY <2>1, SeedTables DEF SeedInv
  <2>4. seeded'["users"] \subseteq {SuperAdmin, Admin, Plain, Newcomer}
    BY <1>1, <2>3 DEF SeededUser
  <2> QED
    BY <1>1, <2>2, <2>3, <2>4, SeedFailureKeeps
<1>3. CASE u \notin seeded["users"]
  <2>1. /\ seeded' = [seeded EXCEPT !["users"] = @ \union {u}]
        /\ creating' = IF creating = {u} THEN Permission ELSE creating \ {u}
        /\ seeder' = IF creating = {u} THEN "permissions" ELSE "users"
        /\ at' = at /\ printed' = printed /\ trouble' = trouble
    BY <1>3 DEF S!CreateUser, S!Add
  <2>2. /\ seeded' = [t \in S!Table |-> seeded'[t]]
        /\ \A t \in S!Table \ {"users"} : seeded'[t] = seeded[t]
        /\ seeded'["users"] = seeded["users"] \union {u}
    BY <2>1, SeedTables DEF SeedInv
  <2>3. seeded'["users"] \subseteq {SuperAdmin, Admin, Plain, Newcomer}
    BY <1>1, <2>2 DEF SeededUser
  <2>4. NothingIn(Emptied \union {"permissions", "roles", "rolePermissions", "userRoles"})'
    BY <1>1, <2>2, SeedTables DEF NothingIn, Emptied
  <2>5. CASE creating = {u}
    <3>1. creating' = Permission /\ seeder' = "permissions"
      BY <2>1, <2>5
    <3>2. S!TypeOK'
      BY <2>1, <2>2, <2>3, <3>1, SeedTables DEF SeedInv, S!TypeOK
    <3>3. SeededUser \subseteq seeded'["users"] /\ seeded'["permissions"] = Permission \ creating'
      BY <1>1, <2>2, <2>4, <2>5, <3>1 DEF NothingIn
    <3>4. SeedStages'
      BY <1>1, <2>1, <2>4, <3>1, <3>3 DEF SeedStages, NothingIn
    <3> QED
      BY <2>2, <3>1, <3>2, <3>4 DEF SeedInv, S!CompletedIsSeeded
  <2>6. CASE creating # {u}
    <3>1. creating' = creating \ {u} /\ seeder' = "users"
      BY <2>1, <2>6
    <3>2. creating' \subseteq {SuperAdmin, Admin, Plain}
      BY <1>1, <3>1 DEF SeededUser
    <3>3. S!TypeOK'
      BY <2>1, <2>2, <2>3, <3>1, <3>2, SeedTables DEF SeedInv, S!TypeOK
    <3>4. SeededUser \ creating' \subseteq seeded'["users"] /\ creating' \subseteq SeededUser
      BY <1>1, <2>2, <3>1
    <3>5. SeedStages'
      BY <1>1, <2>1, <2>4, <3>1, <3>4 DEF SeedStages, NothingIn
    <3> QED
      BY <2>2, <3>1, <3>3, <3>5 DEF SeedInv, S!CompletedIsSeeded
  <2> QED
    BY <2>5, <2>6
<1> QED
  BY <1>2, <1>3

LEMMA SeedPermissionKeeps ==
  ASSUME SeedSetting, SeedInv, NEW p \in Permission, S!CreatePermission(p) PROVE SeedInv'
<1>1. /\ seeder = "permissions" /\ ~printed /\ creating \subseteq Permission /\ p \in creating
      /\ seeded["permissions"] = Permission \ creating /\ SeededUser \subseteq seeded["users"]
      /\ NothingIn(Emptied \union {"roles", "rolePermissions", "userRoles"})
  BY DEF S!CreatePermission, SeedInv, SeedStages, NothingIn
<1>2. /\ seeded' = [seeded EXCEPT !["permissions"] = @ \union {p}]
      /\ creating' = creating \ {p} /\ at' = 1 /\ printed' = printed /\ trouble' = trouble
      /\ seeder' = IF creating = {p} THEN "role" ELSE "permissions"
  BY DEF S!CreatePermission, S!Add
<1>3. /\ seeded' = [t \in S!Table |-> seeded'[t]]
      /\ \A t \in S!Table \ {"permissions"} : seeded'[t] = seeded[t]
      /\ seeded'["permissions"] = Permission \ creating' /\ creating' \subseteq Permission
  BY <1>1, <1>2, SeedTables DEF SeedInv
<1>4. S!TypeOK'
  BY <1>2, <1>3, SeedTables DEF SeedInv, S!TypeOK
<1>5. /\ NothingIn(Emptied \union {"roles", "rolePermissions", "userRoles"})'
      /\ SeededUser \subseteq seeded'["users"]
  BY <1>1, <1>3, SeedTables DEF NothingIn, Emptied
<1>6. ASSUME creating = {p} PROVE RolesAreMade(0, {}, 0)'
  <2>1. seeded'["permissions"] = Permission
    BY <1>2, <1>3, <1>6
  <2> QED
    BY <1>5, <2>1, SeedRoles DEF RolesAreMade, NothingIn
<1>7. at' - 1 = 0 /\ at' \in 1..2
  BY <1>2
<1>8. SeedStages'
  <2>1. CASE creating = {p}
    <3>1. seeder' = "role"
      BY <1>2, <2>1
    <3> QED
      BY <1>1, <1>2, <1>5, <1>6, <1>7, <2>1, <3>1 DEF SeedStages, NothingIn
  <2>2. CASE creating # {p}
    <3>1. seeder' = "permissions"
      BY <1>2, <2>2
    <3> QED
      BY <1>1, <1>2, <1>3, <1>5, <2>2, <3>1 DEF SeedStages, NothingIn
  <2> QED
    BY <2>1, <2>2
<1> QED
  BY <1>2, <1>3, <1>4, <1>8 DEF SeedInv, S!CompletedIsSeeded

\* What one more row in a table leaves of the rest.
LEMMA SeedAddition ==
  ASSUME SeedInv, NEW t \in S!Table, NEW added, S!Add(t, added)
  PROVE  /\ seeded' = [x \in S!Table |-> seeded'[x]]
         /\ seeded'[t] = seeded[t] \union {added}
         /\ \A x \in S!Table \ {t} : seeded'[x] = seeded[x]
BY DEF S!Add, SeedInv

LEMMA SeedRoleKeeps == ASSUME SeedSetting, SeedInv, S!CreateRole PROVE SeedInv'
<1>1. /\ seeder = "role" /\ ~printed /\ at \in 1..2 /\ NothingIn(Emptied)
      /\ SeededUser \subseteq seeded["users"] /\ RolesAreMade(at - 1, {}, at - 1)
      /\ seeded["users"] \subseteq {SuperAdmin, Admin, Plain, Newcomer}
  BY DEF S!CreateRole, SeedInv, SeedStages, S!TypeOK
<1>2. CASE {S!RoleOrder[at], Old} \cap seeded["roles"] # {}
  <2>1. S!Fail /\ seeded' = seeded
    BY <1>2 DEF S!CreateRole
  <2> QED
    BY <1>1, <2>1, SeedFailureKeeps DEF SeedInv
<1>3. CASE ~({S!RoleOrder[at], Old} \cap seeded["roles"] # {})
  <2>1. /\ S!Add("roles", S!RoleOrder[at]) /\ creating' = S!PermissionsOf(S!RoleOrder[at])
        /\ seeder' = "grant" /\ at' = at /\ printed' = printed /\ trouble' = trouble
    BY <1>3 DEF S!CreateRole
  <2>2. /\ seeded' = [x \in S!Table |-> seeded'[x]]
        /\ seeded'["roles"] = seeded["roles"] \union {S!RoleOrder[at]}
        /\ \A x \in S!Table \ {"roles"} : seeded'[x] = seeded[x]
    BY <2>1, SeedAddition, SeedTables
  <2>3. creating' \subseteq Permission
    BY <2>1 DEF S!PermissionsOf
  <2>4. S!RoleOrder[at] \in {SuperAdmin, Admin}
    BY <1>1, SeedRoles
  <2>5. S!TypeOK'
    BY <2>1, <2>2, <2>3, <2>4, SeedTables DEF SeedInv, S!TypeOK
  <2>6. NothingIn(Emptied)' /\ SeededUser \subseteq seeded'["users"]
    BY <1>1, <2>2, SeedTables DEF NothingIn, Emptied
  <2>7. /\ seeded'["permissions"] = Permission /\ seeded'["roles"] = RolesUpTo(at)
        /\ seeded'["userRoles"] = {<<r, r>> : r \in RolesUpTo(at - 1)}
    BY <1>1, <2>2, SeedTables, SeedRoles DEF RolesAreMade
  <2>8. seeded'["rolePermissions"] =
          {g \in RolesUpTo(at) \X Permission :
             g[2] \in S!PermissionsOf(g[1]) /\ (g[1] = S!RoleOrder[at] => g[2] \notin creating')}
    <3>1. seeded'["rolePermissions"] =
            {g \in RolesUpTo(at - 1) \X Permission :
               /\ g[2] \in S!PermissionsOf(g[1])
               /\ g[1] = S!RoleOrder[at - 1] => g[2] \notin {}}
      BY <1>1, <2>2, SeedTables DEF RolesAreMade
    <3>2. CASE at = 1
      BY <2>1, <3>1, <3>2, SeedRoles
    <3>3. CASE at = 2
      BY <2>1, <3>1, <3>3, SeedRoles DEF SeedSetting
    <3> QED
      BY <1>1, <3>2, <3>3
  <2>9. \A n \in 1..2 : n = at => RolesAreMade(n, creating, n - 1)'
    BY <2>1, <2>7, <2>8 DEF RolesAreMade, RolesUpTo, S!RoleOrder, S!PermissionsOf
  <2>10. SeedStages'
    BY <1>1, <2>1, <2>6, <2>9 DEF SeedStages, S!RoleOrder, S!PermissionsOf
  <2> QED
    BY <2>1, <2>2, <2>5, <2>10 DEF SeedInv, S!CompletedIsSeeded
<1> QED
  BY <1>2, <1>3

LEMMA SeedGrantKeeps ==
  ASSUME SeedSetting, SeedInv, NEW p \in Permission, S!Grant(p) PROVE SeedInv'
<1>1. /\ seeder = "grant" /\ ~printed /\ at \in 1..2 /\ NothingIn(Emptied) /\ p \in creating
      /\ SeededUser \subseteq seeded["users"] /\ RolesAreMade(at, creating, at - 1)
      /\ creating \subseteq S!PermissionsOf(S!RoleOrder[at]) /\ creating \subseteq Permission
  BY DEF S!Grant, SeedInv, SeedStages, S!PermissionsOf
<1>2. /\ S!Add("rolePermissions", <<S!RoleOrder[at], p>>) /\ creating' = creating \ {p}
      /\ seeder' = IF creating = {p} THEN "link" ELSE "grant"
      /\ at' = at /\ printed' = printed /\ trouble' = trouble
  BY DEF S!Grant
<1>3. /\ seeded' = [x \in S!Table |-> seeded'[x]]
      /\ seeded'["rolePermissions"] = seeded["rolePermissions"] \union {<<S!RoleOrder[at], p>>}
      /\ \A x \in S!Table \ {"rolePermissions"} : seeded'[x] = seeded[x]
  BY <1>2, SeedAddition, SeedTables
<1>4. S!RoleOrder[at] \in {SuperAdmin, Admin}
  BY <1>1, SeedRoles
<1>5. S!TypeOK'
  <2>1. creating' \subseteq Permission
    BY <1>1, <1>2
  <2> QED
    BY <1>2, <1>3, <1>4, <2>1, SeedTables DEF SeedInv, S!TypeOK
<1>6. NothingIn(Emptied)' /\ SeededUser \subseteq seeded'["users"]
  BY <1>1, <1>3, SeedTables DEF NothingIn, Emptied
<1>7. PICK n \in 1..2 : n = at
  BY <1>1
<1>8. RolesAreMade(n, creating, n - 1)'
  <2>1. /\ seeded'["permissions"] = Permission /\ seeded'["roles"] = RolesUpTo(n)
        /\ seeded'["userRoles"] = {<<r, r>> : r \in RolesUpTo(n - 1)}
    BY <1>1, <1>3, <1>7, SeedTables DEF RolesAreMade
  <2>2. S!RoleOrder[n] \in RolesUpTo(n)
    BY SeedRoles
  <2>3. seeded["rolePermissions"] =
          {g \in RolesUpTo(n) \X Permission :
             g[2] \in S!PermissionsOf(g[1]) /\ (g[1] = S!RoleOrder[n] => g[2] \notin creating)}
    BY <1>1, <1>7 DEF RolesAreMade
  <2>4. seeded'["rolePermissions"] =
          {g \in RolesUpTo(n) \X Permission :
             g[2] \in S!PermissionsOf(g[1]) /\ (g[1] = S!RoleOrder[n] => g[2] \notin creating')}
    BY <1>1, <1>2, <1>3, <1>7, <2>2, <2>3
  <2> QED
    BY <2>1, <2>4 DEF RolesAreMade, RolesUpTo, S!RoleOrder, S!PermissionsOf
<1>9. SeedStages'
  <2>1. CASE creating = {p}
    <3>1. seeder' = "link" /\ creating' = {}
      BY <1>2, <2>1
    <3>2. RolesAreMade(n, {}, n - 1)'
      BY <1>8, <3>1 DEF RolesAreMade
    <3> QED
      BY <1>1, <1>2, <1>6, <1>7, <3>1, <3>2 DEF SeedStages
  <2>2. CASE creating # {p}
    <3>1. seeder' = "grant"
      BY <1>2, <2>2
    <3>2. creating' \subseteq S!PermissionsOf(S!RoleOrder[at'])
      BY <1>1, <1>2
    <3> QED
      BY <1>1, <1>2, <1>6, <1>7, <1>8, <3>1, <3>2
      DEF SeedStages, S!RoleOrder, S!PermissionsOf
  <2> QED
    BY <2>1, <2>2
<1> QED
  BY <1>2, <1>3, <1>5, <1>9 DEF SeedInv, S!CompletedIsSeeded

LEMMA SeedLinkKeeps == ASSUME SeedSetting, SeedInv, S!Link PROVE SeedInv'
<1>1. /\ seeder = "link" /\ ~printed /\ at \in 1..2 /\ NothingIn(Emptied)
      /\ SeededUser \subseteq seeded["users"] /\ RolesAreMade(at, {}, at - 1)
  BY DEF S!Link, SeedInv, SeedStages
<1>2. /\ S!Add("userRoles", <<S!RoleOrder[at], S!RoleOrder[at]>>)
      /\ creating' = creating /\ trouble' = trouble
      /\ IF at < 2 THEN seeder' = "role" /\ at' = at + 1 /\ printed' = printed
                   ELSE seeder' = "off" /\ at' = 0 /\ printed' = TRUE
  BY SeedRoles DEF S!Link
<1>3. /\ seeded' = [x \in S!Table |-> seeded'[x]]
      /\ seeded'["userRoles"] = seeded["userRoles"] \union {<<S!RoleOrder[at], S!RoleOrder[at]>>}
      /\ \A x \in S!Table \ {"userRoles"} : seeded'[x] = seeded[x]
  BY <1>2, SeedAddition, SeedTables
<1>4. S!TypeOK'
  <2>1. printed' \in BOOLEAN
    BY <1>2 DEF SeedInv, S!TypeOK
  <2>2. at' \in 0..13
    BY <1>1, <1>2
  <2> QED
    BY <1>2, <1>3, <2>1, <2>2, SeedTables DEF SeedInv, S!TypeOK
<1>5. NothingIn(Emptied)' /\ SeededUser \subseteq seeded'["users"]
  BY <1>1, <1>3, SeedTables DEF NothingIn, Emptied
<1>6. /\ seeded'["permissions"] = Permission /\ seeded'["roles"] = RolesUpTo(at)
      /\ seeded'["userRoles"] = {<<r, r>> : r \in RolesUpTo(at)}
  <2>1. /\ seeded["userRoles"] = {<<r, r>> : r \in RolesUpTo(at - 1)}
        /\ seeded["permissions"] = Permission /\ seeded["roles"] = RolesUpTo(at)
    BY <1>1 DEF RolesAreMade
  <2>2. CASE at = 1
    BY <1>3, <2>1, <2>2, SeedTables, SeedRoles
  <2>3. CASE at = 2
    BY <1>3, <2>1, <2>3, SeedTables, SeedRoles
  <2> QED
    BY <1>1, <2>2, <2>3
<1>7. seeded'["rolePermissions"] =
        {g \in RolesUpTo(at) \X Permission : g[2] \in S!PermissionsOf(g[1])}
  BY <1>1, <1>3, SeedTables DEF RolesAreMade
<1>8. CASE at = 1
  <2>1. seeder' = "role" /\ at' = 2 /\ printed' = printed
    BY <1>2, <1>8
  <2>2. RolesAreMade(1, {}, 1)'
    BY <1>6, <1>7, <1>8 DEF RolesAreMade, RolesUpTo, S!RoleOrder, S!PermissionsOf
  <2>3. at' - 1 = 1 /\ at' \in 1..2
    BY <2>1
  <2>4. SeedStages'
    BY <1>1, <1>5, <2>1, <2>2, <2>3 DEF SeedStages
  <2> QED
    BY <1>3, <1>4, <2>1, <2>4 DEF SeedInv, S!CompletedIsSeeded
<1>9. CASE at = 2
  <2>1. seeder' = "off"
    BY <1>2, <1>9
  <2>2. /\ seeded'["roles"] = {SuperAdmin, Admin}
        /\ seeded'["userRoles"] = {<<SuperAdmin, SuperAdmin>>, <<Admin, Admin>>}
    BY <1>6, <1>9, SeedRoles
  <2>3. seeded'["rolePermissions"] =
          {g \in {SuperAdmin, Admin} \X Permission : g[1] = Admin => g[2] # RolesDelete}
    BY <1>7, <1>9, SeedRoles DEF S!PermissionsOf, SeedSetting
  <2>4. S!CompletedIsSeeded'
    BY <1>5, <1>6, <2>2, <2>3 DEF S!CompletedIsSeeded, SeededUser, NothingIn, Emptied
  <2> QED
    BY <1>3, <1>4, <2>1, <2>4 DEF SeedInv, SeedStages
<1> QED
  BY <1>1, <1>8, <1>9

LEMMA SeedKeeps == SeedSetting /\ SeedInv /\ [S!Next]_(S!vars) => SeedInv'
<1> SUFFICES ASSUME SeedSetting, SeedInv, [S!Next]_(S!vars) PROVE SeedInv'
  OBVIOUS
<1>1. CASE S!Run \/ S!Stop
  BY <1>1, SeedStopKeeps
<1>2. CASE (\E u \in {Newcomer, Plain} : S!Register(u)) \/ S!Enqueue
  BY <1>2, SeedOthersKeep
<1>3. CASE S!ScriptStep
  BY <1>3, SeedDeleteKeeps, SeedUserKeeps, SeedPermissionKeeps, SeedRoleKeeps, SeedGrantKeeps,
     SeedLinkKeeps DEF S!ScriptStep, SeededUser
<1>4. CASE UNCHANGED S!vars
  BY <1>4 DEF S!vars, SeedInv, SeedStages, S!TypeOK, S!CompletedIsSeeded, NothingIn,
              RolesAreMade
<1> QED
  BY <1>1, <1>2, <1>3, <1>4 DEF S!Next

LEMMA SeedAlways == ASSUME SeedSetting PROVE S!Spec => []SeedInv
<1>1. S!Init => SeedInv
  BY SeedStarts
<1>2. SeedInv /\ [S!Next]_(S!vars) => SeedInv'
  BY SeedKeeps
<1> QED
  BY <1>1, <1>2, PTL DEF S!Spec

(* The type of the seeded tables and of where the script is.               *)
THEOREM SeedTypes == ASSUME SeedSetting PROVE S!Spec => []S!TypeOK
<1>1. SeedInv => S!TypeOK
  BY DEF SeedInv
<1> QED
  BY <1>1, SeedAlways, PTL

(***************************************************************************)
(* What the seed has printed as completed is there: both roles with their  *)
(* permissions and users, and nothing of what was there before, whatever   *)
(* earlier runs were stopped and whoever has registered, for any           *)
(* permissions and any number of stops.                                    *)
(***************************************************************************)
THEOREM SeedCompletes == ASSUME SeedSetting PROVE S!Spec => []S!CompletedIsSeeded
<1>1. SeedInv => S!CompletedIsSeeded
  BY DEF SeedInv
<1> QED
  BY <1>1, SeedAlways, PTL

-----------------------------------------------------------------------------
(* Listing *)

\* How many of the rows come before i or are i.
UpTo(ids, order, i) == {j \in ids : IF order = "desc" THEN j >= i ELSE j <= i}
Place(ids, order, i) == Cardinality(UpTo(ids, order, i))

LEMMA PlaceBounds ==
  ASSUME NEW ids, IsFiniteSet(ids), NEW order, NEW i
  PROVE  Place(ids, order, i) \in Nat /\ Place(ids, order, i) <= Cardinality(ids)
BY FS_Subset, FS_CardinalityType DEF Place, UpTo

\* Rows that go only bring the others nearer.
LEMMA PlaceGrows ==
  ASSUME NEW ids, NEW more, IsFiniteSet(more), ids \subseteq more, NEW order, NEW i
  PROVE  Place(ids, order, i) <= Place(more, order, i)
<1>1. UpTo(ids, order, i) \subseteq UpTo(more, order, i) /\ IsFiniteSet(UpTo(more, order, i))
  BY FS_Subset DEF UpTo
<1> QED
  BY <1>1, FS_Subset DEF Place

\* The newest comes last, unless it comes first.
LEMMA PlaceStays ==
  ASSUME NEW ids \in SUBSET Nat, NEW n \in Nat, NEW i \in Nat, i < n, NEW order, order # "desc",
         NEW more, more \subseteq ids \union {n}, ids \subseteq more
  PROVE  Place(more, order, i) = Place(ids, order, i)
<1>1. \A j \in more : j <= i <=> j \in ids /\ j <= i
  <2>1. ~(n <= i)
    OBVIOUS
  <2> QED
    BY <2>1
<1>2. UpTo(more, order, i) = UpTo(ids, order, i)
  BY <1>1 DEF UpTo
<1> QED
  BY <1>2 DEF Place

(* The k-th row of a list that has an order has k rows up to it, and every *)
(* row is somewhere in the list.                                           *)
LEMMA OrderedPlaces ==
  ASSUME NEW ids \in SUBSET Nat, IsFiniteSet(ids), NEW order \in {"asc", "desc"},
         NEW s \in L!InOrder(ids, order)
  PROVE  /\ s \in [1..Cardinality(ids) -> ids] /\ Cardinality(ids) \in Nat
         /\ \A i \in ids : \E k \in 1..Cardinality(ids) : s[k] = i
         /\ \A k \in 1..Cardinality(ids) : Place(ids, order, s[k]) = k
<1> DEFINE n == Cardinality(ids)
<1>1. n \in Nat
  BY FS_CardinalityType
<1>2. /\ s \in [1..n -> ids]
      /\ \A j, k \in 1..n : j # k => s[j] # s[k]
      /\ \A j, k \in 1..n : j < k => IF order = "desc" THEN s[j] > s[k] ELSE s[j] < s[k]
  <2>1. L!Cardinality(ids) = n
    BY DEF L!Cardinality, Cardinality
  <2> QED
    BY <2>1 DEF L!InOrder, L!SetToSeqs
<1>3. \A i \in ids : \E k \in 1..n : s[k] = i
  <2>1. s \in Injection(1..n, ids)
    BY <1>2 DEF Injection, IsInjective
  <2>2. Cardinality(1..n) = n
    BY <1>1, FS_Interval
  <2>3. s \in Surjection(1..n, ids)
    BY <2>1, <2>2, FS_Injection
  <2> QED
    BY <2>3 DEF Surjection
<1>4. ASSUME NEW k \in 1..n PROVE Place(ids, order, s[k]) = k
  <2> DEFINE t == [m \in 1..k |-> s[m]]
             u == UpTo(ids, order, s[k])
  <2>1. k \in Nat /\ 1..k \subseteq 1..n
    BY <1>1
  <2>2. \A m \in 1..n : s[m] \in u <=> m \in 1..k
    <3> SUFFICES ASSUME NEW m \in 1..n PROVE s[m] \in u <=> m \in 1..k
      OBVIOUS
    <3>1. s[m] \in Nat /\ s[k] \in Nat /\ s[m] \in ids /\ m \in Nat /\ m >= 1
      <4>1. s[m] \in ids /\ s[k] \in ids
        BY <1>2
      <4>2. m \in Nat /\ m >= 1
        BY <1>1
      <4> QED
        BY <4>1, <4>2
    <3>2. CASE m = k
      BY <2>1, <3>1, <3>2 DEF UpTo
    <3>3. CASE m < k
      <4>1. IF order = "desc" THEN s[m] > s[k] ELSE s[m] < s[k]
        BY <1>2, <3>3
      <4> QED
        BY <2>1, <3>1, <3>3, <4>1 DEF UpTo
    <3>4. CASE m > k
      <4>1. IF order = "desc" THEN s[k] > s[m] ELSE s[k] < s[m]
        BY <1>2, <3>4
      <4> QED
        BY <2>1, <3>1, <3>4, <4>1 DEF UpTo
    <3> QED
      BY <2>1, <3>1, <3>2, <3>3, <3>4
  <2>3. u \subseteq ids
    BY DEF UpTo
  <2> HIDE DEF u
  <2>4. t \in [1..k -> u] /\ \A m \in 1..k : t[m] = s[m]
    BY <2>1, <2>2
  <2>5. t \in Injection(1..k, u)
    BY <1>2, <2>1, <2>4 DEF Injection, IsInjective
  <2>6. \A i \in u : \E m \in 1..k : t[m] = i
    BY <1>3, <2>2, <2>3, <2>4
  <2>7. t \in Bijection(1..k, u)
    BY <2>4, <2>5, <2>6 DEF Bijection, Surjection
  <2>8. Cardinality(1..k) = k /\ IsFiniteSet(1..k)
    BY <2>1, FS_Interval
  <2>9. Cardinality(u) = k
    BY <2>7, <2>8, FS_Bijection DEF ExistsBijection
  <2> QED
    BY <2>9 DEF Place, u
<1> QED
  BY <1>1, <1>2, <1>3, <1>4

LEMMA Skips ==
  ASSUME L!LimitAssumption, NEW p \in Nat \ {0}
  PROVE  /\ Limit * (p - 1) \in Nat /\ Limit * p = Limit * (p - 1) + Limit
         /\ Limit \in Nat /\ Limit >= 1
<1>1. Limit \in Nat /\ Limit >= 1 /\ p - 1 \in Nat
  BY DEF L!LimitAssumption
<1>2. \A a, b \in Nat : a * b \in Nat
  OBVIOUS
<1>3. \A a, b \in Int : a * (b + 1) = a * b + a
  OBVIOUS
<1>4. Limit * ((p - 1) + 1) = Limit * (p - 1) + Limit
  BY <1>1, <1>3
<1> QED
  BY <1>1, <1>2, <1>4

\* The pages hold as many rows as there were when they were counted.
LEMMA LastPageHolds ==
  ASSUME L!LimitAssumption, NEW total \in Nat, NEW p \in Nat, L!LastPage(total) <= p
  PROVE  total <= Limit * p
<1> DEFINE q == L!LastPage(total)
<1>1. Limit \in Nat \ {0}
  BY DEF L!LimitAssumption
<1>2. q \in Nat /\ total + Limit - 1 < Limit * q + Limit
  BY <1>1 DEF L!LastPage
<1>3. Limit * q <= Limit * p
  <2>1. \A a, b, c \in Nat : a <= b => c * a <= c * b
    OBVIOUS
  <2> QED
    BY <1>1, <1>2, <2>1
<1>4. Limit * q \in Nat /\ Limit * p \in Nat
  <2>1. \A a, b \in Nat : a * b \in Nat
    OBVIOUS
  <2> QED
    BY <1>1, <1>2, <2>1
<1> HIDE DEF q
<1> QED
  BY <1>1, <1>2, <1>3, <1>4

\* The rows of a page are the next ones of the list.
LEMMA PageHolds ==
  ASSUME L!LimitAssumption, NEW p \in Nat \ {0}, NEW T, NEW n \in Nat, NEW s \in [1..n -> T]
  PROVE  LET page == L!Page(s, p)
             skipped == Limit * (p - 1)
         IN /\ page \in Seq(T) /\ Len(page) \in Nat /\ Len(page) <= Limit
            /\ \A m \in 1..Len(page) : skipped + m \in 1..n /\ page[m] = s[skipped + m]
            /\ \A k \in 1..n : skipped < k /\ k <= Limit * p => k - skipped \in 1..Len(page)
<1> DEFINE skipped == Limit * (p - 1)
           end == L!Least(n, Limit * p)
           page == L!Page(s, p)
<1>1. skipped \in Nat /\ Limit * p = skipped + Limit /\ Limit \in Nat
  BY Skips
<1>2. end \in Nat /\ end <= n /\ end <= skipped + Limit
      /\ \A k \in 1..n : k <= Limit * p => k <= end
  BY <1>1 DEF L!Least
<1>3. Len(s) = n
  OBVIOUS
<1>4. page = SubSeq(s, skipped + 1, end)
  BY <1>3 DEF L!Page
<1> HIDE DEF skipped, end, page
<1>5. \A m \in (skipped + 1)..end : s[m] \in T
  BY <1>1, <1>2
<1>6. /\ page \in Seq(T)
      /\ Len(page) = IF skipped + 1 <= end THEN end - (skipped + 1) + 1 ELSE 0
      /\ \A m \in 1..(end - (skipped + 1) + 1) : page[m] = s[(skipped + 1) + m - 1]
  BY <1>1, <1>2, <1>4, <1>5, SubSeqProperties
<1>7. Len(page) \in Nat /\ Len(page) <= Limit
  BY <1>1, <1>2, <1>6
<1>8. ASSUME NEW m \in 1..Len(page) PROVE skipped + m \in 1..n /\ page[m] = s[skipped + m]
  <2>1. m \in 1..(end - (skipped + 1) + 1) /\ (skipped + 1) + m - 1 = skipped + m
    BY <1>1, <1>2, <1>6
  <2> QED
    BY <1>1, <1>2, <1>6, <2>1
<1>9. \A k \in 1..n : skipped < k /\ k <= Limit * p => k - skipped \in 1..Len(page)
  <2> SUFFICES ASSUME NEW k \in 1..n, skipped < k, k <= Limit * p
               PROVE  k - skipped \in 1..Len(page)
    OBVIOUS
  <2>1. k \in Nat /\ k <= end
    BY <1>2
  <2>2. Len(page) = end - skipped
    BY <1>1, <1>2, <1>6, <2>1
  <2> QED
    BY <1>1, <1>2, <2>1, <2>2
<1> QED
  BY <1>6, <1>7, <1>8, <1>9 DEF skipped, page

ListSetting ==
  L!ListsAssumption /\ L!SortingsAssumption /\ L!LimitAssumption /\ L!BoundAssumption

\* The lists whose rows are given an order by every request.
ListsAreOrdered == "roles" \notin Lists /\ ("users" \in Lists => FALSE \notin Sortings)

Walks ==
  [pc : {"idle", "both", "rows", "count", "answer", "done"}, list : L!AllLists,
   search : BOOLEAN, order : {"asc", "desc", "any"}, page : Nat, found : Seq(L!Ids),
   total : Nat, got : Seq(L!Ids), start : SUBSET L!Ids,
   grown : BOOLEAN, removed : BOOLEAN, split : BOOLEAN]

WalkInv ==
  /\ listed \in Seq(L!Row) /\ walk \in Walks
  /\ Len(walk.found) <= Limit
  /\ walk.pc # "idle" => walk.list \in Lists /\ walk.page >= 1
  /\ walk.pc \notin {"count", "answer"} => walk.found = <<>>
  /\ ListsAreOrdered => walk.order # "any"

WalkIds == L!Listed(walk.list, walk.search)

\* The lists are rows of the table, and all but the roles are in use.
LEMMA ListedRows ==
  ASSUME listed \in Seq(L!Row), NEW list \in L!AllLists, NEW search \in BOOLEAN
  PROVE  /\ L!Ids = 1..Len(listed) /\ Len(listed) \in Nat /\ IsFiniteSet(L!Ids)
         /\ L!Listed(list, search) \subseteq L!Ids /\ IsFiniteSet(L!Listed(list, search))
         /\ L!Listed(list, search) \in SUBSET Nat
         /\ list # "roles" => L!Listed(list, search) \subseteq L!Live
<1>1. L!Ids = 1..Len(listed) /\ Len(listed) \in Nat
  BY DEF L!Ids
<1>2. IsFiniteSet(L!Ids)
  BY <1>1, FS_Interval
<1>3. /\ L!Listed(list, search) \subseteq L!Ids
      /\ list # "roles" => L!Listed(list, search) \subseteq L!Live
  BY DEF L!Listed, L!ListedUsers, L!ListedRoles, L!ListedSubjects, L!ListedTickets,
         L!ListedQuestions, L!ListedAnswers, L!ListedSaved, L!Matching, L!Live, L!AllLists
<1> QED
  BY <1>1, <1>2, <1>3, FS_Subset

\* What a change of the rows does to a list.
LEMMA ListedAfterInsertion ==
  ASSUME listed \in Seq(L!Row), NEW list \in L!AllLists, NEW search \in BOOLEAN,
         NEW matches \in BOOLEAN, listed' = Append(listed, L!Fresh(matches))
  PROVE  /\ listed' \in Seq(L!Row) /\ Len(listed') = Len(listed) + 1
         /\ L!Ids' = L!Ids \union {Len(listed) + 1}
         /\ L!Listed(list, search) \subseteq L!Listed(list, search)'
         /\ L!Listed(list, search)' \subseteq L!Listed(list, search) \union {Len(listed) + 1}
<1>1. /\ listed' \in Seq(L!Row) /\ Len(listed') = Len(listed) + 1 /\ Len(listed) \in Nat
      /\ \A i \in 1..Len(listed) : listed'[i] = listed[i]
  BY DEF L!Row, L!Fresh
<1>2. L!Ids = 1..Len(listed) /\ L!Ids' = L!Ids \union {Len(listed) + 1}
  BY <1>1 DEF L!Ids
<1>3. /\ L!Live \subseteq L!Live' /\ L!Live' \subseteq L!Live \union {Len(listed) + 1}
      /\ L!Matching(search) \subseteq L!Matching(search)'
      /\ L!Matching(search)' \subseteq L!Matching(search) \union {Len(listed) + 1}
  BY <1>1, <1>2 DEF L!Live, L!Matching
<1> DEFINE found == L!Live \intersect L!Matching(search)
<1>4. found \subseteq found' /\ found' \subseteq found \union {Len(listed) + 1}
  BY <1>3
<1>5. CASE list = "roles"
  BY <1>1, <1>2, <1>4, <1>5 DEF L!Listed, L!ListedRoles
<1>6. CASE list = "saved"
  <2>1. \A i \in found : listed'[i].questionDeleted = listed[i].questionDeleted
    BY <1>1, <1>2 DEF L!Live
  <2>2. L!Listed(list, search) = {i \in found : ~listed[i].questionDeleted}
    BY <1>6 DEF L!Listed, L!ListedSaved
  <2>3. L!Listed(list, search)' = {i \in found' : ~listed'[i].questionDeleted}
    BY <1>6 DEF L!Listed, L!ListedSaved
  <2> QED
    BY <1>1, <1>2, <1>4, <2>1, <2>2, <2>3
<1>7. CASE list \notin {"roles", "saved"}
  <2>1. L!Listed(list, search) = found /\ L!Listed(list, search)' = found'
    BY <1>7 DEF L!Listed, L!ListedUsers, L!ListedSubjects, L!ListedTickets, L!ListedQuestions,
                L!ListedAnswers, L!AllLists
  <2> QED
    BY <1>1, <1>2, <1>4, <2>1
<1> QED
  BY <1>5, <1>6, <1>7

LEMMA ListedAfterRemoval ==
  ASSUME listed \in Seq(L!Row), NEW list \in L!AllLists, NEW search \in BOOLEAN, NEW i \in L!Ids,
         \/ listed' = [listed EXCEPT ![i].isDeleted = TRUE]
         \/ listed' = [listed EXCEPT ![i].questionDeleted = TRUE]
  PROVE  /\ listed' \in Seq(L!Row) /\ Len(listed') = Len(listed) /\ L!Ids' = L!Ids
         /\ L!Listed(list, search)' \subseteq L!Listed(list, search)
<1>1. L!Ids = 1..Len(listed) /\ listed \in [1..Len(listed) -> L!Row] /\ Len(listed) \in Nat
  BY DEF L!Ids
<1>2. PICK changed \in L!Row :
        /\ listed' = [listed EXCEPT ![i] = changed]
        /\ changed.matches = listed[i].matches
        /\ listed[i].isDeleted => changed.isDeleted
        /\ listed[i].questionDeleted => changed.questionDeleted
  <2>1. listed[i] \in L!Row
    BY <1>1
  <2>2. CASE listed' = [listed EXCEPT ![i].isDeleted = TRUE]
    <3>1. [listed[i] EXCEPT !.isDeleted = TRUE] \in L!Row
      BY <2>1 DEF L!Row
    <3> QED
      BY <2>1, <2>2, <3>1 DEF L!Row
  <2>3. CASE listed' = [listed EXCEPT ![i].questionDeleted = TRUE]
    <3>1. [listed[i] EXCEPT !.questionDeleted = TRUE] \in L!Row
      BY <2>1 DEF L!Row
    <3> QED
      BY <2>1, <2>3, <3>1 DEF L!Row
  <2> QED
    BY <2>2, <2>3
<1>3. /\ listed' \in Seq(L!Row) /\ Len(listed') = Len(listed)
      /\ \A j \in 1..Len(listed) : listed'[j] = IF j = i THEN changed ELSE listed[j]
  BY <1>1, <1>2, ExceptSeq
<1>4. L!Ids' = L!Ids
  BY <1>1, <1>3 DEF L!Ids
<1>5. /\ L!Live' \subseteq L!Live /\ L!Matching(search)' \subseteq L!Matching(search)
      /\ \A j \in L!Ids : listed[j].questionDeleted => listed'[j].questionDeleted
  BY <1>1, <1>2, <1>3, <1>4 DEF L!Live, L!Matching
<1> QED
  BY <1>3, <1>4, <1>5
  DEF L!Listed, L!ListedUsers, L!ListedRoles, L!ListedSubjects, L!ListedTickets,
      L!ListedQuestions, L!ListedAnswers, L!ListedSaved, L!AllLists, L!Live

\* What a page holds are rows of the list.
LEMMA FoundRows ==
  ASSUME ListSetting, WalkInv, walk.pc # "idle", NEW s \in L!InOrder(WalkIds, walk.order)
  PROVE  /\ L!Page(s, walk.page) \in Seq(WalkIds)
         /\ Len(L!Page(s, walk.page)) <= Limit
<1>1. /\ walk.page \in Nat \ {0} /\ L!LimitAssumption
      /\ walk.list \in L!AllLists /\ walk.search \in BOOLEAN /\ listed \in Seq(L!Row)
  BY DEF WalkInv, Walks, ListSetting
<1>2. IsFiniteSet(WalkIds)
  BY <1>1, ListedRows DEF WalkIds
<1>3. Cardinality(WalkIds) \in Nat /\ L!Cardinality(WalkIds) = Cardinality(WalkIds)
  BY <1>2, FS_CardinalityType DEF L!Cardinality, Cardinality
<1>4. s \in [1..Cardinality(WalkIds) -> WalkIds]
  BY <1>3 DEF L!InOrder, L!SetToSeqs
<1> HIDE DEF WalkIds
<1> QED
  BY <1>1, <1>3, <1>4, PageHolds

LEMMA WalkStarts == ASSUME ListSetting, L!Init PROVE WalkInv
<1>1. L!Fresh(TRUE) \in L!Row /\ InitRows \in Nat
  BY DEF L!Fresh, L!Row, ListSetting, L!BoundAssumption
<1>2. listed \in Seq(L!Row)
  <2> DEFINE fresh == L!Fresh(TRUE)
  <2>1. listed = [i \in 1..InitRows |-> fresh] /\ fresh \in L!Row
    BY <1>1 DEF L!Init
  <2> HIDE DEF fresh
  <2> QED
    BY <1>1, <2>1
<1>3. walk \in Walks /\ Len(walk.found) = 0
  BY EmptySeq DEF L!Init, L!NoWalk, Walks, L!AllLists
<1> QED
  BY <1>2, <1>3 DEF L!Init, L!NoWalk, WalkInv, ListSetting, L!LimitAssumption

LEMMA StartKeeps ==
  ASSUME ListSetting, WalkInv, NEW list \in Lists, NEW search \in BOOLEAN,
         NEW sorted \in Sortings, NEW order \in {"asc", "desc"},
         L!Start(list, search, sorted, order)
  PROVE  WalkInv'
<1>1. /\ list \in L!AllLists /\ listed \in Seq(L!Row) /\ listed' = listed
      /\ L!Listed(list, search) \subseteq L!Ids
  BY ListedRows DEF L!Start, WalkInv, ListSetting, L!ListsAssumption
<1>2. /\ L!OrderBy(list, sorted, order) \in {"asc", "desc", "any"}
      /\ ListsAreOrdered => L!OrderBy(list, sorted, order) # "any"
  <2>1. sorted \in BOOLEAN
    BY DEF ListSetting, L!SortingsAssumption
  <2> QED
    BY <2>1 DEF L!OrderBy, L!UsersOrder, L!RolesOrder, L!SavedOrder, ListsAreOrdered
<1>3. walk' = [pc |-> "both", list |-> list, search |-> search,
               order |-> L!OrderBy(list, sorted, order), page |-> 1, found |-> <<>>, total |-> 0,
               got |-> <<>>, start |-> L!Listed(list, search),
               grown |-> FALSE, removed |-> FALSE, split |-> FALSE]
  BY DEF L!Start, L!NoWalk
<1>4. L!Ids' = L!Ids
  BY <1>1 DEF L!Ids
<1>5. walk' \in Walks'
  BY <1>1, <1>2, <1>3, <1>4, EmptySeq DEF Walks
<1>6. Len(walk'.found) = 0 /\ 0 <= Limit
  BY <1>3 DEF ListSetting, L!LimitAssumption
<1> QED
  BY <1>1, <1>2, <1>3, <1>5, <1>6 DEF WalkInv

LEMMA FindManyKeeps == ASSUME ListSetting, WalkInv, L!FindMany PROVE WalkInv'
<1>1. PICK s \in L!InOrder(WalkIds, walk.order) :
        walk' = [walk EXCEPT !.found = L!Page(s, walk.page),
                             !.pc = IF @ = "both" THEN "count" ELSE "answer"]
  BY DEF L!FindMany, WalkIds
<1>2. walk.pc \in {"both", "rows"} /\ listed' = listed
  BY DEF L!FindMany
<1>3. L!Page(s, walk.page) \in Seq(WalkIds) /\ Len(L!Page(s, walk.page)) <= Limit
  BY <1>2, FoundRows
<1>4. WalkIds \subseteq L!Ids /\ L!Ids' = L!Ids
  BY <1>2, ListedRows DEF WalkIds, WalkInv, Walks, L!Ids
<1>5. L!Page(s, walk.page) \in Seq(L!Ids)
  BY <1>3, <1>4, SeqMonotonic
<1>6. walk' \in Walks'
  BY <1>1, <1>4, <1>5 DEF WalkInv, Walks
<1> QED
  BY <1>1, <1>2, <1>3, <1>6 DEF WalkInv, Walks

LEMMA CountKeeps == ASSUME ListSetting, WalkInv, L!Count PROVE WalkInv'
<1>1. IsFiniteSet(WalkIds) /\ L!Ids' = L!Ids
  BY ListedRows DEF WalkIds, WalkInv, Walks, L!Ids, L!Count
<1>2. L!Cardinality(WalkIds) \in Nat
  BY <1>1, FS_CardinalityType DEF L!Cardinality, Cardinality
<1>3. walk' \in Walks'
  BY <1>1, <1>2 DEF L!Count, WalkInv, Walks, WalkIds
<1> QED
  BY <1>3 DEF WalkInv, L!Count, Walks

LEMMA NextPageKeeps == ASSUME ListSetting, WalkInv, L!NextPage PROVE WalkInv'
<1>1. /\ walk.got \in Seq(L!Ids) /\ walk.found \in Seq(L!Ids) /\ walk.page + 1 \in Nat
      /\ L!Ids' = L!Ids /\ listed' = listed
  BY DEF WalkInv, Walks, L!NextPage, L!Ids
<1>2. walk.got \o walk.found \in Seq(L!Ids) /\ <<>> \in Seq(L!Ids) /\ Len(<<>>) = 0 /\ 0 <= Limit
  BY <1>1, ConcatProperties, EmptySeq DEF ListSetting, L!LimitAssumption
<1>3. walk' \in Walks'
  BY <1>1, <1>2 DEF L!NextPage, WalkInv, Walks
<1>4. walk'.found = <<>> /\ walk'.page >= 1
  BY <1>1 DEF L!NextPage, WalkInv, Walks
<1> QED
  BY <1>1, <1>2, <1>3, <1>4 DEF WalkInv, L!NextPage, Walks

\* A change of the rows is noted and touches nothing else of the walk.
LEMMA NotedWalk ==
  ASSUME WalkInv, NEW gone \in BOOLEAN, walk' = L!Noted(walk, gone)
  PROVE  /\ \A f \in {"pc", "list", "search", "order", "page", "found", "total", "got", "start"} :
              walk'[f] = walk[f]
         /\ walk'.removed = (walk.removed \/ gone) /\ walk'.grown = (walk.grown \/ ~gone)
         /\ walk'.split = (walk.split \/ (~gone /\ walk.pc \in {"rows", "count"}))
BY DEF L!Noted, WalkInv, Walks

LEMMA ChangeKeeps ==
  ASSUME WalkInv, NEW gone \in BOOLEAN, walk' = L!Noted(walk, gone),
         listed' \in Seq(L!Row), L!Ids \subseteq L!Ids'
  PROVE  WalkInv'
<1>1. /\ walk.found \in Seq(L!Ids') /\ walk.got \in Seq(L!Ids') /\ walk.start \subseteq L!Ids'
  BY SeqMonotonic DEF WalkInv, Walks
<1>2. walk' \in Walks'
  BY <1>1 DEF L!Noted, WalkInv, Walks
<1> QED
  BY <1>2, NotedWalk DEF WalkInv

\* What the three actions that change rows have in common.
LEMMA RowsChange ==
  ASSUME WalkInv,
         \/ \E matches \in BOOLEAN : L!InsertRow(matches)
         \/ \E i \in L!Ids : L!RemoveRow(i) \/ L!RemoveQuestion(i)
  PROVE  /\ L!Walking /\ listed' \in Seq(L!Row) /\ L!Ids \subseteq L!Ids'
         /\ \/ /\ walk' = L!Noted(walk, FALSE)
               /\ WalkIds \subseteq WalkIds' /\ WalkIds' \subseteq WalkIds \union {Len(listed) + 1}
            \/ walk' = L!Noted(walk, TRUE) /\ WalkIds' \subseteq WalkIds
<1>1. PICK list \in L!AllLists, search \in BOOLEAN : list = walk.list /\ search = walk.search
  BY DEF WalkInv, Walks
<1>2. ASSUME NEW gone \in BOOLEAN, walk' = L!Noted(walk, gone)
      PROVE  WalkIds' = L!Listed(list, search)'
  <2>1. walk'.list = walk.list /\ walk'.search = walk.search
    BY <1>2, NotedWalk
  <2> QED
    BY <1>1, <2>1 DEF WalkIds
<1>3. ASSUME NEW matches \in BOOLEAN, L!InsertRow(matches)
      PROVE  /\ L!Walking /\ listed' \in Seq(L!Row) /\ L!Ids \subseteq L!Ids'
             /\ walk' = L!Noted(walk, FALSE)
             /\ WalkIds \subseteq WalkIds' /\ WalkIds' \subseteq WalkIds \union {Len(listed) + 1}
  <2>1. listed' = Append(listed, L!Fresh(matches)) /\ walk' = L!Noted(walk, FALSE) /\ L!Walking
    BY <1>3 DEF L!InsertRow
  <2>2. WalkIds' = L!Listed(list, search)'
    BY <1>2, <2>1
  <2>3. /\ listed' \in Seq(L!Row) /\ L!Ids \subseteq L!Ids'
        /\ L!Listed(list, search) \subseteq L!Listed(list, search)'
        /\ L!Listed(list, search)' \subseteq
             L!Listed(list, search) \union {Len(listed) + 1}
    BY <2>1, ListedAfterInsertion DEF WalkInv
  <2> QED
    BY <1>1, <2>1, <2>2, <2>3 DEF WalkIds
<1>4. ASSUME NEW i \in L!Ids, L!RemoveRow(i) \/ L!RemoveQuestion(i)
      PROVE  /\ L!Walking /\ listed' \in Seq(L!Row) /\ L!Ids \subseteq L!Ids'
             /\ walk' = L!Noted(walk, TRUE) /\ WalkIds' \subseteq WalkIds
  <2>1. /\ \/ listed' = [listed EXCEPT ![i].isDeleted = TRUE]
           \/ listed' = [listed EXCEPT ![i].questionDeleted = TRUE]
        /\ walk' = L!Noted(walk, TRUE) /\ L!Walking
    BY <1>4 DEF L!RemoveRow, L!RemoveQuestion
  <2>2. WalkIds' = L!Listed(list, search)'
    BY <1>2, <2>1
  <2>3. /\ listed' \in Seq(L!Row) /\ L!Ids \subseteq L!Ids'
        /\ L!Listed(list, search)' \subseteq L!Listed(list, search)
    BY <2>1, ListedAfterRemoval DEF WalkInv
  <2> QED
    BY <1>1, <2>1, <2>2, <2>3 DEF WalkIds
<1> QED
  BY <1>3, <1>4

LEMMA WalkKeeps == ASSUME ListSetting PROVE WalkInv /\ [L!Next]_(L!vars) => WalkInv'
<1> SUFFICES ASSUME WalkInv, [L!Next]_(L!vars) PROVE WalkInv'
  OBVIOUS
<1>1. ASSUME NEW list \in Lists, NEW search \in BOOLEAN, NEW sorted \in Sortings,
             NEW order \in {"asc", "desc"}, L!Start(list, search, sorted, order)
      PROVE  WalkInv'
  BY <1>1, StartKeeps
<1>2. CASE L!FindMany \/ L!Count \/ L!NextPage
  BY <1>2, FindManyKeeps, CountKeeps, NextPageKeeps
<1>3. CASE \/ \E matches \in BOOLEAN : L!InsertRow(matches)
           \/ \E i \in L!Ids : L!RemoveRow(i) \/ L!RemoveQuestion(i)
  BY <1>3, RowsChange, ChangeKeeps
<1>4. CASE UNCHANGED L!vars
  BY <1>4 DEF L!vars, WalkInv, Walks, L!Ids
<1> QED
  BY <1>1, <1>2, <1>3, <1>4 DEF L!Next

LEMMA WalkAlways == ASSUME ListSetting PROVE L!Spec => []WalkInv
<1>1. L!Init => WalkInv
  BY WalkStarts
<1>2. WalkInv /\ [L!Next]_(L!vars) => WalkInv'
  BY WalkKeeps
<1> QED
  BY <1>1, <1>2, PTL DEF L!Spec

(* The type of the lists; a page never has more rows than the limit.       *)
THEOREM ListTypes == ASSUME ListSetting PROVE L!Spec => []L!TypeOK
<1>1. WalkInv => L!TypeOK
  BY DEF WalkInv, Walks, L!TypeOK
<1> QED
  BY <1>1, WalkAlways, PTL

(***************************************************************************)
(* A page lists only rows that can be opened by their id, for any of the   *)
(* lists but those of the roles and the tickets.                           *)
(***************************************************************************)
THEOREM ListedOpens ==
  ASSUME ListSetting, "roles" \notin Lists, "tickets" \notin Lists
  PROVE  L!Spec => L!ListedCanBeOpened
<1>1. WalkInv /\ [L!Next]_(L!vars) =>
        [L!FindMany => L!Range(walk'.found) \subseteq L!FoundById(walk.list)]_(L!vars)
  <2> SUFFICES ASSUME WalkInv, L!FindMany
               PROVE  L!Range(walk'.found) \subseteq L!FoundById(walk.list)
    OBVIOUS
  <2>1. PICK s \in L!InOrder(WalkIds, walk.order) :
          walk' = [walk EXCEPT !.found = L!Page(s, walk.page),
                               !.pc = IF @ = "both" THEN "count" ELSE "answer"]
    BY DEF L!FindMany, WalkIds
  <2>2. walk'.found \in Seq(WalkIds)
    <3>1. L!Page(s, walk.page) \in Seq(WalkIds)
      BY FoundRows DEF L!FindMany
    <3> QED
      BY <2>1, <3>1 DEF WalkInv, Walks
  <2>3. walk.list \notin {"roles", "tickets"}
    BY DEF L!FindMany, WalkInv
  <2>4. WalkIds \subseteq L!Live
    BY <2>3, ListedRows DEF WalkIds, WalkInv, Walks
  <2> QED
    BY <2>2, <2>3, <2>4 DEF L!FoundById, L!Range
<1> QED
  BY <1>1, WalkAlways, PTL DEF L!Spec, L!ListedCanBeOpened

-----------------------------------------------------------------------------
(* The rows a walk has met, those of the page it awaits included, and how  *)
(* far into the list the requests have come.                               *)
Met == walk.got \o walk.found
Reached ==
  IF walk.pc \in {"count", "answer"} THEN Limit * walk.page ELSE Limit * (walk.page - 1)

LEMMA Concatenated ==
  ASSUME NEW T, NEW a \in Seq(T), NEW b \in Seq(T)
  PROVE  /\ \A k \in DOMAIN (a \o b) : \/ \E m \in DOMAIN a : (a \o b)[k] = a[m]
                                       \/ \E m \in DOMAIN b : (a \o b)[k] = b[m]
         /\ \A m \in DOMAIN a : m \in DOMAIN (a \o b) /\ (a \o b)[m] = a[m]
         /\ \A m \in DOMAIN b : \E k \in DOMAIN (a \o b) : (a \o b)[k] = b[m]
         /\ L!IsInjective(a \o b) => L!IsInjective(a)
         /\ /\ L!IsInjective(a) /\ L!IsInjective(b)
            /\ \A k \in DOMAIN a, m \in DOMAIN b : a[k] # b[m]
            => L!IsInjective(a \o b)
<1>1. /\ DOMAIN a = 1..Len(a) /\ DOMAIN b = 1..Len(b) /\ Len(a) \in Nat /\ Len(b) \in Nat
      /\ DOMAIN (a \o b) = 1..(Len(a) + Len(b))
      /\ \A k \in 1..(Len(a) + Len(b)) : (a \o b)[k] = IF k <= Len(a) THEN a[k] ELSE b[k - Len(a)]
  BY ConcatProperties, LenProperties
<1>2. ASSUME NEW k \in DOMAIN (a \o b)
      PROVE  \/ k \in DOMAIN a /\ (a \o b)[k] = a[k]
             \/ k - Len(a) \in DOMAIN b /\ (a \o b)[k] = b[k - Len(a)]
  BY <1>1
<1>3. \A m \in DOMAIN a : m \in DOMAIN (a \o b) /\ (a \o b)[m] = a[m]
  BY <1>1
<1>4. ASSUME NEW m \in DOMAIN b
      PROVE  m + Len(a) \in DOMAIN (a \o b) /\ (a \o b)[m + Len(a)] = b[m]
  <2>1. m \in Nat /\ m >= 1 /\ m <= Len(b)
    BY <1>1
  <2>2. m + Len(a) \in 1..(Len(a) + Len(b)) /\ ~(m + Len(a) <= Len(a)) /\ (m + Len(a)) - Len(a) = m
    BY <1>1, <2>1
  <2> QED
    BY <1>1, <2>2
<1>5. L!IsInjective(a \o b) => L!IsInjective(a)
  BY <1>3 DEF L!IsInjective
<1>6. ASSUME L!IsInjective(a), L!IsInjective(b), \A k \in DOMAIN a, m \in DOMAIN b : a[k] # b[m],
             NEW j \in DOMAIN (a \o b), NEW k \in DOMAIN (a \o b), (a \o b)[j] = (a \o b)[k]
      PROVE  j = k
  <2>1. CASE j \in DOMAIN a /\ (a \o b)[j] = a[j] /\ k \in DOMAIN a /\ (a \o b)[k] = a[k]
    BY <1>6, <2>1 DEF L!IsInjective
  <2>2. CASE /\ j - Len(a) \in DOMAIN b /\ (a \o b)[j] = b[j - Len(a)]
             /\ k - Len(a) \in DOMAIN b /\ (a \o b)[k] = b[k - Len(a)]
    <3>1. j - Len(a) = k - Len(a)
      BY <1>6, <2>2 DEF L!IsInjective
    <3> QED
      BY <1>1, <3>1
  <2> QED
    BY <1>2, <1>6, <2>1, <2>2
<1>7. /\ L!IsInjective(a) /\ L!IsInjective(b)
      /\ \A k \in DOMAIN a, m \in DOMAIN b : a[k] # b[m]
      => L!IsInjective(a \o b)
  BY <1>6 DEF L!IsInjective
<1> QED
  BY <1>2, <1>3, <1>4, <1>5, <1>7

\* A page has exactly the rows of the places it stands for.
LEMMA FindManyMeets ==
  ASSUME ListSetting, ListsAreOrdered, WalkInv, L!FindMany
  PROVE  /\ walk'.found \in Seq(WalkIds) /\ L!IsInjective(walk'.found)
         /\ \A m \in DOMAIN walk'.found :
              /\ Reached < Place(WalkIds, walk.order, walk'.found[m])
              /\ Place(WalkIds, walk.order, walk'.found[m]) <= Reached'
         /\ \A i \in WalkIds :
              /\ Reached < Place(WalkIds, walk.order, i)
              /\ Place(WalkIds, walk.order, i) <= Reached'
              => \E m \in DOMAIN walk'.found : walk'.found[m] = i
         /\ Reached \in Nat /\ Reached' \in Nat /\ Reached <= Reached'
         /\ Reached' = Limit * walk.page
<1>1. PICK s \in L!InOrder(WalkIds, walk.order) :
        walk' = [walk EXCEPT !.found = L!Page(s, walk.page),
                             !.pc = IF @ = "both" THEN "count" ELSE "answer"]
  BY DEF L!FindMany, WalkIds
<1>2. /\ walk.pc \in {"both", "rows"} /\ walk.page \in Nat \ {0} /\ L!LimitAssumption
      /\ walk.order \in {"asc", "desc"} /\ walk.list \in L!AllLists /\ walk.search \in BOOLEAN
      /\ listed \in Seq(L!Row)
  BY DEF L!FindMany, WalkInv, Walks, ListSetting
<1>3. /\ walk'.found = L!Page(s, walk.page) /\ walk'.pc \in {"count", "answer"}
      /\ walk'.page = walk.page
  BY <1>1, <1>2 DEF WalkInv, Walks
<1>4. /\ Reached = Limit * (walk.page - 1) /\ Reached' = Limit * walk.page
      /\ Reached \in Nat /\ Limit * walk.page = Reached + Limit /\ Limit \in Nat
  BY <1>2, <1>3, Skips DEF Reached
<1>5. WalkIds \in SUBSET Nat /\ IsFiniteSet(WalkIds)
  BY <1>2, ListedRows DEF WalkIds
<1> DEFINE n == Cardinality(WalkIds)
           page == L!Page(s, walk.page)
<1>6. /\ s \in [1..n -> WalkIds] /\ n \in Nat
      /\ \A i \in WalkIds : \E k \in 1..n : s[k] = i
      /\ \A k \in 1..n : Place(WalkIds, walk.order, s[k]) = k
  BY <1>2, <1>5, OrderedPlaces
<1> HIDE DEF n
<1>7. /\ page \in Seq(WalkIds) /\ Len(page) \in Nat
      /\ \A m \in 1..Len(page) : Reached + m \in 1..n /\ page[m] = s[Reached + m]
      /\ \A k \in 1..n : Reached < k /\ k <= Reached' => k - Reached \in 1..Len(page)
  <2> DEFINE skipped == Limit * (walk.page - 1)
  <2>1. /\ page \in Seq(WalkIds) /\ Len(page) \in Nat
        /\ \A m \in 1..Len(page) : skipped + m \in 1..n /\ page[m] = s[skipped + m]
        /\ \A k \in 1..n : skipped < k /\ k <= Limit * walk.page => k - skipped \in 1..Len(page)
    <3> DEFINE p == walk.page
               T == WalkIds
    <3>1. p \in Nat \ {0} /\ s \in [1..n -> T] /\ n \in Nat /\ L!LimitAssumption
      BY <1>2, <1>6
    <3> HIDE DEF p, T
    <3>2. LET q == L!Page(s, p)
          IN /\ q \in Seq(T) /\ Len(q) \in Nat
             /\ \A m \in 1..Len(q) : Limit * (p - 1) + m \in 1..n /\ q[m] = s[Limit * (p - 1) + m]
             /\ \A k \in 1..n :
                  Limit * (p - 1) < k /\ k <= Limit * p => k - Limit * (p - 1) \in 1..Len(q)
      BY <3>1, PageHolds
    <3> QED
      BY <3>2 DEF p, T
  <2> HIDE DEF skipped
  <2>2. skipped = Reached /\ Limit * walk.page = Reached'
    BY <1>4 DEF skipped
  <2> QED
    BY <2>1, <2>2
<1>8. Len(page) <= Limit
  BY <1>2, <1>6, PageHolds
<1> HIDE DEF page
<1>9. walk'.found = page /\ DOMAIN page = 1..Len(page)
  BY <1>3, <1>7, LenProperties DEF page
<1>10. \A m \in 1..Len(page) : Place(WalkIds, walk.order, page[m]) = Reached + m
  BY <1>6, <1>7
<1>11. ASSUME NEW m \in 1..Len(page)
       PROVE  /\ Reached < Place(WalkIds, walk.order, page[m])
              /\ Place(WalkIds, walk.order, page[m]) <= Reached'
  <2>1. m \in Nat /\ m >= 1 /\ m <= Limit
    BY <1>7, <1>8, <1>4
  <2> QED
    BY <1>4, <1>10, <2>1
<1>12. ASSUME NEW j \in 1..Len(page), NEW k \in 1..Len(page), page[j] = page[k] PROVE j = k
  <2>1. Reached + j = Reached + k
    BY <1>10, <1>12
  <2> QED
    BY <1>4, <1>7, <2>1
<1>13. ASSUME NEW i \in WalkIds, Reached < Place(WalkIds, walk.order, i),
              Place(WalkIds, walk.order, i) <= Reached'
       PROVE  \E m \in 1..Len(page) : page[m] = i
  <2>1. PICK k \in 1..n : s[k] = i
    BY <1>6
  <2>2. Place(WalkIds, walk.order, i) = k /\ k \in Nat
    BY <1>6, <2>1
  <2>3. k - Reached \in 1..Len(page) /\ Reached + (k - Reached) = k
    BY <1>4, <1>7, <1>13, <2>2
  <2>4. page[k - Reached] = s[k]
    BY <1>7, <2>3
  <2> QED
    BY <2>1, <2>3, <2>4
<1>14. L!IsInjective(page)
  BY <1>9, <1>12 DEF L!IsInjective
<1>15. Reached' \in Nat /\ Reached <= Reached'
  BY <1>4
<1> QED
  BY <1>4, <1>7, <1>9, <1>11, <1>13, <1>14, <1>15

(* While the order keeps the places of what has been met, no row is met    *)
(* twice, for none of those is further in the list than the requests are.  *)
MetOnce ==
  \/ walk.order = "desc" /\ walk.grown
  \/ /\ L!IsInjective(Met)
     /\ \A k \in DOMAIN Met : Place(WalkIds, walk.order, Met[k]) <= Reached

\* What every step knows of what a walk has met.
LEMMA MetFacts ==
  ASSUME ListSetting, WalkInv
  PROVE  /\ Met \in Seq(L!Ids) /\ Reached \in Int /\ IsFiniteSet(WalkIds)
         /\ WalkIds \in SUBSET Nat /\ WalkIds \subseteq L!Ids
         /\ L!Ids = 1..Len(listed) /\ Len(listed) \in Nat
         /\ walk.found = <<>> => Met = walk.got
<1>1. /\ walk.list \in L!AllLists /\ walk.search \in BOOLEAN /\ listed \in Seq(L!Row)
      /\ walk.got \in Seq(L!Ids) /\ walk.found \in Seq(L!Ids) /\ walk.page \in Nat /\ Limit \in Nat
  BY DEF WalkInv, Walks, ListSetting, L!LimitAssumption
<1>2. \A a, b \in Int : a * b \in Int
  OBVIOUS
<1>3. walk.page - 1 \in Int
  BY <1>1
<1>4. Met \in Seq(L!Ids) /\ (walk.found = <<>> => Met = walk.got)
  BY <1>1, ConcatProperties, ConcatEmptySeq DEF Met
<1>5. Reached \in Int
  BY <1>1, <1>2, <1>3 DEF Reached
<1>6. /\ IsFiniteSet(WalkIds) /\ WalkIds \in SUBSET Nat /\ WalkIds \subseteq L!Ids
      /\ L!Ids = 1..Len(listed) /\ Len(listed) \in Nat
  BY <1>1, ListedRows DEF WalkIds
<1> QED
  BY <1>4, <1>5, <1>6

\* Counting, asking for the next page and doing nothing meet nobody.
LEMMA MetSame ==
  ASSUME ListSetting, WalkInv, L!Count \/ L!NextPage \/ UNCHANGED L!vars
  PROVE  Met' = Met /\ Reached' = Reached /\ WalkIds' = WalkIds /\ listed' = listed
         /\ UNCHANGED <<walk.order, walk.grown, walk.removed, walk.split, walk.start>>
<1>1. CASE L!Count
  BY <1>1 DEF L!Count, WalkInv, Walks, Met, Reached, WalkIds, L!Listed, L!ListedUsers,
    L!ListedRoles, L!ListedSubjects, L!ListedTickets, L!ListedQuestions, L!ListedAnswers,
    L!ListedSaved, L!Matching, L!Live, L!Ids
<1>2. CASE L!NextPage
  <2>1. /\ walk'.got = walk.got \o walk.found /\ walk'.found = <<>> /\ walk'.page = walk.page + 1
        /\ walk'.pc \in {"both", "done"} /\ walk.pc = "answer" /\ listed' = listed
        /\ UNCHANGED <<walk.list, walk.search>>
        /\ UNCHANGED <<walk.order, walk.grown, walk.removed, walk.split, walk.start>>
    BY <1>2 DEF L!NextPage, WalkInv, Walks
  <2>2. Met' = Met
    BY <2>1, MetFacts, ConcatEmptySeq DEF Met
  <2>3. (walk.page + 1) - 1 = walk.page
    BY DEF WalkInv, Walks
  <2>4. Reached' = Reached
    BY <2>1, <2>3 DEF Reached
  <2>5. WalkIds' = WalkIds
    BY <2>1 DEF WalkIds, L!Listed, L!ListedUsers, L!ListedRoles, L!ListedSubjects,
      L!ListedTickets, L!ListedQuestions, L!ListedAnswers, L!ListedSaved, L!Matching, L!Live,
      L!Ids
  <2> QED
    BY <2>1, <2>2, <2>4, <2>5
<1>3. CASE UNCHANGED L!vars
  BY <1>3 DEF L!vars, Met, Reached, WalkIds, L!Listed, L!ListedUsers, L!ListedRoles,
    L!ListedSubjects, L!ListedTickets, L!ListedQuestions, L!ListedAnswers, L!ListedSaved,
    L!Matching, L!Live, L!Ids
<1> QED
  BY <1>1, <1>2, <1>3

\* The frame of the query for the rows.
LEMMA FindManySame ==
  ASSUME ListSetting, WalkInv, L!FindMany
  PROVE  /\ Met = walk.got /\ Met' = Met \o walk'.found /\ WalkIds' = WalkIds /\ listed' = listed
         /\ UNCHANGED <<walk.order, walk.grown, walk.removed, walk.split, walk.start, walk.total>>
         /\ walk.pc \in {"both", "rows"} /\ walk'.page = walk.page
         /\ walk'.pc = IF walk.pc = "both" THEN "count" ELSE "answer"
<1>1. PICK q : walk' = [walk EXCEPT !.found = q,
                                    !.pc = IF @ = "both" THEN "count" ELSE "answer"]
  BY DEF L!FindMany
<1>2. walk.pc \in {"both", "rows"} /\ listed' = listed
  BY DEF L!FindMany
<1>3. /\ UNCHANGED <<walk.list, walk.search, walk.got, walk.page>>
      /\ UNCHANGED <<walk.order, walk.grown, walk.removed, walk.split, walk.start, walk.total>>
      /\ walk'.pc = IF walk.pc = "both" THEN "count" ELSE "answer"
  BY <1>1 DEF WalkInv, Walks
<1>4. Met = walk.got
  BY <1>2, MetFacts DEF WalkInv
<1>5. Met' = Met \o walk'.found
  BY <1>3, <1>4 DEF Met
<1>6. WalkIds' = WalkIds
  BY <1>2, <1>3 DEF WalkIds, L!Listed, L!ListedUsers, L!ListedRoles, L!ListedSubjects,
    L!ListedTickets, L!ListedQuestions, L!ListedAnswers, L!ListedSaved, L!Matching, L!Live, L!Ids
<1> QED
  BY <1>2, <1>3, <1>4, <1>5, <1>6

\* What a change of the rows leaves of the walk.
LEMMA ChangeSame ==
  ASSUME WalkInv, NEW gone \in BOOLEAN, walk' = L!Noted(walk, gone)
  PROVE  /\ Met' = Met /\ Reached' = Reached
         /\ UNCHANGED <<walk.order, walk.start, walk.pc, walk.total, walk.page>>
BY NotedWalk DEF Met, Reached

LEMMA MetOnceKept ==
  ASSUME ListSetting, ListsAreOrdered
  PROVE  WalkInv /\ MetOnce /\ [L!Next]_(L!vars) => MetOnce'
<1> SUFFICES ASSUME WalkInv, MetOnce, [L!Next]_(L!vars) PROVE MetOnce'
  OBVIOUS
<1>1. ASSUME NEW list \in Lists, NEW search \in BOOLEAN, NEW sorted \in Sortings,
             NEW order \in {"asc", "desc"}, L!Start(list, search, sorted, order)
      PROVE  MetOnce'
  <2>1. walk'.got = <<>> /\ walk'.found = <<>>
    BY <1>1 DEF L!Start, L!NoWalk
  <2>2. Met' = <<>>
    BY <2>1, EmptySeq, ConcatEmptySeq DEF Met
  <2>3. DOMAIN <<>> = {}
    OBVIOUS
  <2> QED
    BY <2>2, <2>3 DEF MetOnce, L!IsInjective
<1>2. CASE L!FindMany
  <2>1. /\ Met' = Met \o walk'.found /\ WalkIds' = WalkIds
        /\ UNCHANGED <<walk.order, walk.grown>>
    BY <1>2, FindManySame
  <2>2. CASE walk.order = "desc" /\ walk.grown
    BY <2>1, <2>2 DEF MetOnce
  <2>3. CASE /\ L!IsInjective(Met)
             /\ \A k \in DOMAIN Met : Place(WalkIds, walk.order, Met[k]) <= Reached
    <3> DEFINE q == walk'.found
               place(i) == Place(WalkIds, walk.order, i)
    <3>1. /\ q \in Seq(L!Ids) /\ L!IsInjective(q) /\ Met \in Seq(L!Ids)
      BY <1>2, FindManyMeets, MetFacts, SeqMonotonic
    <3>2. /\ \A m \in DOMAIN q : Reached < place(q[m]) /\ place(q[m]) <= Reached'
          /\ Reached \in Nat /\ Reached' \in Nat /\ Reached <= Reached'
      BY <1>2, FindManyMeets
    <3>3. \A i : place(i) \in Nat
      BY MetFacts, PlaceBounds
    <3>4. \A k \in DOMAIN Met, m \in DOMAIN q : Met[k] # q[m]
      <4> SUFFICES ASSUME NEW k \in DOMAIN Met, NEW m \in DOMAIN q, Met[k] = q[m] PROVE FALSE
        OBVIOUS
      <4>1. place(Met[k]) <= Reached /\ Reached < place(q[m]) /\ place(Met[k]) = place(q[m])
        BY <2>3, <3>2
      <4> HIDE DEF place
      <4> QED
        BY <3>2, <3>3, <4>1
    <3>5. L!IsInjective(Met \o q)
      BY <2>3, <3>1, <3>4, Concatenated
    <3>6. ASSUME NEW k \in DOMAIN (Met \o q) PROVE place((Met \o q)[k]) <= Reached'
      <4> HIDE DEF place, q
      <4>1. \/ \E m \in DOMAIN Met : (Met \o q)[k] = Met[m]
            \/ \E m \in DOMAIN q : (Met \o q)[k] = q[m]
        BY <3>1, <3>6, Concatenated
      <4>2. \A m \in DOMAIN Met : place(Met[m]) <= Reached
        BY <2>3 DEF place
      <4> QED
        BY <3>2, <3>3, <4>1, <4>2
    <3> QED
      BY <2>1, <3>5, <3>6 DEF MetOnce
  <2> QED
    BY <2>2, <2>3 DEF MetOnce
<1>3. CASE L!Count \/ L!NextPage \/ UNCHANGED L!vars
  BY <1>3, MetSame DEF MetOnce
<1>4. CASE \/ \E matches \in BOOLEAN : L!InsertRow(matches)
           \/ \E i \in L!Ids : L!RemoveRow(i) \/ L!RemoveQuestion(i)
  <2>1. PICK gone \in BOOLEAN :
          /\ walk' = L!Noted(walk, gone)
          /\ gone => WalkIds' \subseteq WalkIds
          /\ ~gone => /\ WalkIds \subseteq WalkIds'
                      /\ WalkIds' \subseteq WalkIds \union {Len(listed) + 1}
    BY <1>4, RowsChange
  <2>2. /\ Met' = Met /\ Reached' = Reached /\ walk'.order = walk.order
        /\ walk'.grown = (walk.grown \/ ~gone)
    BY <2>1, ChangeSame, NotedWalk
  <2>3. CASE walk.order = "desc" /\ (walk.grown \/ ~gone)
    BY <2>2, <2>3 DEF MetOnce
  <2>4. CASE ~(walk.order = "desc" /\ (walk.grown \/ ~gone))
    <3>1. /\ L!IsInjective(Met)
          /\ \A k \in DOMAIN Met : Place(WalkIds, walk.order, Met[k]) <= Reached
      BY <2>4 DEF MetOnce
    <3>2. ASSUME NEW k \in DOMAIN Met
          PROVE  Place(WalkIds', walk.order, Met[k]) <= Place(WalkIds, walk.order, Met[k])
      <4>1. CASE gone
        BY <2>1, <4>1, MetFacts, PlaceGrows
      <4>2. CASE ~gone
        <5>1. Met[k] \in Nat /\ Met[k] < Len(listed) + 1 /\ Len(listed) + 1 \in Nat
          BY MetFacts
        <5>2. walk.order # "desc"
          BY <2>4, <4>2
        <5>3. Place(WalkIds', walk.order, Met[k]) = Place(WalkIds, walk.order, Met[k])
          BY <2>1, <4>2, <5>1, <5>2, MetFacts, PlaceStays
        <5> QED
          BY <5>3, MetFacts, PlaceBounds
      <4> QED
        BY <4>1, <4>2
    <3>3. \A i : Place(WalkIds, walk.order, i) \in Nat
      BY MetFacts, PlaceBounds
    <3>4. IsFiniteSet(WalkIds')
      <4>1. IsFiniteSet(WalkIds \union {Len(listed) + 1})
        BY MetFacts, FS_AddElement
      <4>2. WalkIds' \subseteq WalkIds \union {Len(listed) + 1}
        BY <2>1
      <4> QED
        BY <4>1, <4>2, FS_Subset
    <3>5. \A i : Place(WalkIds', walk.order, i) \in Nat
      BY <3>4, PlaceBounds
    <3>6. \A k \in DOMAIN Met : Place(WalkIds', walk.order, Met[k]) <= Reached
      BY <3>1, <3>2, <3>3, <3>5, MetFacts
    <3>7. \A i : Place(WalkIds, walk.order, i)' = Place(WalkIds', walk.order, i)
      BY <2>2 DEF Place, UpTo
    <3> QED
      BY <2>2, <3>1, <3>6, <3>7 DEF MetOnce
  <2> QED
    BY <2>3, <2>4
<1> QED
  BY <1>1, <1>2, <1>3, <1>4 DEF L!Next

(***************************************************************************)
(* Who walks through all pages of a list that has an order meets no row    *)
(* twice unless the newest come first and rows were added: for any number  *)
(* of rows, any limit, and whatever is added and removed between the       *)
(* requests and between the two queries of each.                           *)
(***************************************************************************)
THEOREM NoRowTwice ==
  ASSUME ListSetting, ListsAreOrdered PROVE L!Spec => []L!TwiceOnlyAfterInsertion
<1>1. ASSUME L!Init PROVE MetOnce
  <2>1. walk.got = <<>> /\ walk.found = <<>>
    BY <1>1 DEF L!Init, L!NoWalk
  <2>2. Met = <<>> /\ DOMAIN <<>> = {}
    BY <2>1, EmptySeq, ConcatEmptySeq DEF Met
  <2> QED
    BY <2>2 DEF MetOnce, L!IsInjective
<1>2. WalkInv /\ MetOnce /\ [L!Next]_(L!vars) => MetOnce'
  BY MetOnceKept
<1>3. WalkInv /\ MetOnce => L!TwiceOnlyAfterInsertion
  <2>1. WalkInv /\ L!IsInjective(Met) => L!IsInjective(walk.got)
    BY Concatenated DEF WalkInv, Walks, Met
  <2> QED
    BY <2>1 DEF MetOnce, L!TwiceOnlyAfterInsertion
<1> QED
  BY <1>1, <1>2, <1>3, WalkAlways, PTL DEF L!Spec

(* While no row is removed and the order keeps the places of those that    *)
(* were there at the start, each of them that the requests have come to    *)
(* has been met; the number read for a page does not miss any of them.     *)
MetAllOf(i) ==
  LET place == Place(WalkIds, walk.order, i)
      met == \E k \in DOMAIN Met : Met[k] = i
  IN /\ place <= Reached => met
     /\ walk.pc = "rows" => place <= walk.total
     /\ walk.pc = "answer" /\ walk.total <= Limit * walk.page => met
     /\ walk.pc = "done" => met
MetAll ==
  \/ walk.removed
  \/ walk.order = "desc" /\ walk.split
  \/ \A i \in walk.start \intersect WalkIds : MetAllOf(i)

LEMMA MetAllFound ==
  ASSUME ListSetting, ListsAreOrdered, WalkInv, L!FindMany, NEW i \in WalkIds, MetAllOf(i)
  PROVE  MetAllOf(i)'
<1> DEFINE place == Place(WalkIds, walk.order, i)
           q == walk'.found
<1>1. /\ Met' = Met \o q /\ WalkIds' = WalkIds /\ walk'.order = walk.order
      /\ walk'.total = walk.total /\ walk'.page = walk.page /\ walk.pc \in {"both", "rows"}
      /\ walk'.pc = IF walk.pc = "both" THEN "count" ELSE "answer"
  BY FindManySame
<1>2. /\ q \in Seq(L!Ids) /\ Met \in Seq(L!Ids)
      /\ Reached < place /\ place <= Reached' => \E m \in DOMAIN q : q[m] = i
      /\ Reached \in Nat /\ Reached' \in Nat /\ Reached' = Limit * walk.page
  BY FindManyMeets, MetFacts, SeqMonotonic
<1>3. place \in Nat /\ walk.total \in Nat
  BY MetFacts, PlaceBounds DEF WalkInv, Walks
<1>4. Place(WalkIds, walk.order, i)' = place
  BY <1>1 DEF Place, UpTo
<1>5. place <= Reached => \E k \in DOMAIN Met : Met[k] = i
  BY DEF MetAllOf
<1>6. walk.pc = "rows" => place <= walk.total
  BY DEF MetAllOf
<1> HIDE DEF place, q
<1>7. place <= Reached' => \E k \in DOMAIN (Met \o q) : (Met \o q)[k] = i
  <2>0. /\ \A m \in DOMAIN Met : m \in DOMAIN (Met \o q) /\ (Met \o q)[m] = Met[m]
        /\ \A m \in DOMAIN q : \E k \in DOMAIN (Met \o q) : (Met \o q)[k] = q[m]
    BY <1>2, Concatenated
  <2>1. CASE \E k \in DOMAIN Met : Met[k] = i
    BY <2>0, <2>1
  <2>2. CASE \E m \in DOMAIN q : q[m] = i
    BY <2>0, <2>2
  <2>3. place <= Reached \/ Reached < place
    BY <1>2, <1>3
  <2> QED
    BY <1>2, <1>5, <2>1, <2>2, <2>3
<1>8. walk'.pc = "answer" /\ walk'.total <= Limit * walk'.page => place <= Reached'
  BY <1>1, <1>2, <1>3, <1>6
<1> QED
  BY <1>1, <1>4, <1>7, <1>8 DEF MetAllOf

\* Every row of a list has a place in it.
LEMMA PlacePositive ==
  ASSUME NEW ids \in SUBSET Nat, IsFiniteSet(ids), NEW order, NEW i \in ids
  PROVE  Place(ids, order, i) >= 1
<1>1. i \in UpTo(ids, order, i) /\ IsFiniteSet(UpTo(ids, order, i))
  BY FS_Subset DEF UpTo
<1>2. Place(ids, order, i) # 0 /\ Place(ids, order, i) \in Nat
  BY <1>1, FS_EmptySet, FS_CardinalityType DEF Place
<1> QED
  BY <1>2

\* A number that was read is as large as the place of any row then listed.
LEMMA MetAllCounted ==
  ASSUME ListSetting, WalkInv, L!Count, NEW i \in WalkIds, MetAllOf(i)
  PROVE  MetAllOf(i)'
<1>1. /\ Met' = Met /\ Reached' = Reached /\ WalkIds' = WalkIds /\ walk'.order = walk.order
  BY MetSame
<1>2. /\ walk'.total = Cardinality(WalkIds) /\ walk'.page = walk.page
      /\ walk.pc \in {"both", "count"}
      /\ walk'.pc = IF walk.pc = "both" THEN "rows" ELSE "answer"
  <2>1. L!Cardinality(WalkIds) = Cardinality(WalkIds)
    BY DEF L!Cardinality, Cardinality
  <2> QED
    BY <2>1 DEF L!Count, WalkInv, Walks, WalkIds
<1>3. Place(WalkIds, walk.order, i) \in Nat /\ Place(WalkIds, walk.order, i) <= walk'.total
      /\ walk'.total \in Nat
  BY <1>2, MetFacts, PlaceBounds, FS_CardinalityType
<1>4. Place(WalkIds, walk.order, i)' = Place(WalkIds, walk.order, i)
  BY <1>1 DEF Place, UpTo
<1>5. walk'.pc = "answer" /\ walk'.total <= Limit * walk'.page =>
        Place(WalkIds, walk.order, i) <= Reached
  <2>1. ASSUME walk'.pc = "answer" PROVE Reached = Limit * walk.page
    BY <1>2, <2>1 DEF Reached
  <2> QED
    BY <1>2, <1>3, <2>1, MetFacts
<1> QED
  BY <1>1, <1>2, <1>3, <1>4, <1>5 DEF MetAllOf

\* The answer with the last page comes when every place has been reached.
LEMMA MetAllAnswered ==
  ASSUME ListSetting, WalkInv, L!NextPage, NEW i \in WalkIds, MetAllOf(i)
  PROVE  MetAllOf(i)'
<1>1. /\ Met' = Met /\ Reached' = Reached /\ WalkIds' = WalkIds /\ walk'.order = walk.order
  BY MetSame
<1>2. /\ walk.pc = "answer"
      /\ walk'.pc = IF walk.page < L!LastPage(walk.total) THEN "both" ELSE "done"
      /\ walk.total \in Nat /\ walk.page \in Nat /\ L!LimitAssumption
  BY DEF L!NextPage, WalkInv, Walks, ListSetting
<1>3. Place(WalkIds, walk.order, i)' = Place(WalkIds, walk.order, i)
  BY <1>1 DEF Place, UpTo
<1>4. ASSUME walk'.pc = "done" PROVE walk.total <= Limit * walk.page
  <2>1. L!LastPage(walk.total) <= walk.page
    <3>1. L!LastPage(walk.total) \in Int
      BY <1>2 DEF L!LastPage, L!LimitAssumption
    <3> QED
      BY <1>2, <1>4, <3>1
  <2> QED
    BY <1>2, <2>1, LastPageHolds
<1> QED
  BY <1>1, <1>2, <1>3, <1>4 DEF MetAllOf

\* A row that is added brings none of the old ones nearer and, where the
\* newest come last, moves none away.
LEMMA MetAllGrown ==
  ASSUME ListSetting, WalkInv, walk' = L!Noted(walk, FALSE), IsFiniteSet(WalkIds'),
         WalkIds \subseteq WalkIds', WalkIds' \subseteq WalkIds \union {Len(listed) + 1},
         ~(walk'.order = "desc" /\ walk'.split), NEW i \in WalkIds, MetAllOf(i)
  PROVE  MetAllOf(i)'
<1>1. /\ Met' = Met /\ Reached' = Reached
      /\ UNCHANGED <<walk.order, walk.pc, walk.total, walk.page>>
      /\ walk'.split = (walk.split \/ walk.pc \in {"rows", "count"})
  BY ChangeSame, NotedWalk
<1>2. Place(WalkIds, walk.order, i)' = Place(WalkIds', walk.order, i)
  BY <1>1 DEF Place, UpTo
<1>3. /\ Place(WalkIds, walk.order, i) <= Place(WalkIds', walk.order, i)
      /\ Place(WalkIds, walk.order, i) \in Nat /\ Place(WalkIds', walk.order, i) \in Nat
  BY MetFacts, PlaceGrows, PlaceBounds
<1>4. ASSUME walk.order # "desc"
      PROVE  Place(WalkIds', walk.order, i) = Place(WalkIds, walk.order, i)
  <2>1. /\ i \in Nat /\ i < Len(listed) + 1 /\ Len(listed) + 1 \in Nat
        /\ WalkIds \in SUBSET Nat
    BY MetFacts
  <2>2. walk.order # "desc" /\ WalkIds \subseteq WalkIds'
        /\ WalkIds' \subseteq WalkIds \union {Len(listed) + 1}
    BY <1>4
  <2>3. \A j \in WalkIds' : j <= i <=> j \in WalkIds /\ j <= i
    <3>1. ~(Len(listed) + 1 <= i)
      BY <2>1
    <3> QED
      BY <2>2, <3>1
  <2>4. {j \in WalkIds' : j <= i} = {j \in WalkIds : j <= i}
    BY <2>2, <2>3
  <2> QED
    BY <2>2, <2>4 DEF Place, UpTo
<1>5. walk.pc = "rows" => walk.order # "desc"
  BY <1>1
<1>6. Place(WalkIds', walk.order, i) <= Reached => Place(WalkIds, walk.order, i) <= Reached
  BY <1>3, MetFacts
<1> QED
  BY <1>1, <1>2, <1>4, <1>5, <1>6 DEF MetAllOf

LEMMA MetAllKept ==
  ASSUME ListSetting, ListsAreOrdered
  PROVE  WalkInv /\ MetAll /\ [L!Next]_(L!vars) => MetAll'
<1> SUFFICES ASSUME WalkInv, MetAll, [L!Next]_(L!vars) PROVE MetAll'
  OBVIOUS
<1>1. ASSUME NEW list \in Lists, NEW search \in BOOLEAN, NEW sorted \in Sortings,
             NEW order \in {"asc", "desc"}, L!Start(list, search, sorted, order)
      PROVE  MetAll'
  <2>1. /\ walk'.pc = "both" /\ walk'.page = 1 /\ walk'.list = list /\ walk'.search = search
        /\ listed' = listed
    BY <1>1 DEF L!Start, L!NoWalk
  <2>2. Reached' = 0
    BY <2>1 DEF Reached, ListSetting, L!LimitAssumption
  <2>3. WalkIds' = L!Listed(list, search)
    BY <2>1 DEF WalkIds, L!Listed, L!ListedUsers, L!ListedRoles, L!ListedSubjects,
      L!ListedTickets, L!ListedQuestions, L!ListedAnswers, L!ListedSaved, L!Matching, L!Live,
      L!Ids
  <2>4. IsFiniteSet(WalkIds') /\ WalkIds' \in SUBSET Nat
    BY <2>3, ListedRows DEF WalkInv, ListSetting, L!ListsAssumption
  <2>5. ASSUME NEW i \in WalkIds' PROVE MetAllOf(i)'
    <3>1. Place(WalkIds', walk'.order, i) >= 1 /\ Place(WalkIds', walk'.order, i) \in Nat
      BY <2>4, PlacePositive, PlaceBounds
    <3>2. Place(WalkIds, walk.order, i)' = Place(WalkIds', walk'.order, i)
      BY DEF Place, UpTo
    <3>3. ~(Place(WalkIds', walk'.order, i) <= Reached')
      BY <2>2, <3>1
    <3> QED
      BY <2>1, <3>2, <3>3 DEF MetAllOf
  <2> QED
    BY <2>5 DEF MetAll
<1>2. CASE L!FindMany \/ L!Count \/ L!NextPage
  <2>1. /\ UNCHANGED <<walk.order, walk.removed, walk.split, walk.start>> /\ WalkIds' = WalkIds
    BY <1>2, FindManySame, MetSame
  <2>2. ASSUME NEW i \in walk.start \intersect WalkIds, MetAllOf(i) PROVE MetAllOf(i)'
    BY <1>2, <2>2, MetAllFound, MetAllCounted, MetAllAnswered
  <2> QED
    BY <2>1, <2>2 DEF MetAll
<1>3. CASE \/ \E matches \in BOOLEAN : L!InsertRow(matches)
           \/ \E i \in L!Ids : L!RemoveRow(i) \/ L!RemoveQuestion(i)
  <2>1. CASE walk' = L!Noted(walk, TRUE)
    <3>1. walk'.removed
      BY <2>1, NotedWalk
    <3> QED
      BY <3>1 DEF MetAll
  <2>2. CASE /\ walk' = L!Noted(walk, FALSE)
             /\ WalkIds \subseteq WalkIds' /\ WalkIds' \subseteq WalkIds \union {Len(listed) + 1}
    <3>1. /\ walk'.order = walk.order /\ walk'.start = walk.start
          /\ (walk.removed => walk'.removed) /\ (walk.split => walk'.split)
      BY <2>2, NotedWalk, ChangeSame
    <3>2. IsFiniteSet(WalkIds')
      <4>1. IsFiniteSet(WalkIds \union {Len(listed) + 1})
        BY MetFacts, FS_AddElement
      <4> QED
        BY <2>2, <4>1, FS_Subset
    <3>3. Len(listed) + 1 \notin walk.start
      BY MetFacts DEF WalkInv, Walks
    <3>4. walk'.start \intersect WalkIds' \subseteq walk.start \intersect WalkIds
      BY <2>2, <3>1, <3>3
    <3>5. CASE walk.removed \/ (walk'.order = "desc" /\ walk'.split)
      BY <3>1, <3>5 DEF MetAll
    <3>6. CASE ~walk.removed /\ ~(walk'.order = "desc" /\ walk'.split)
      <4>1. \A i \in walk.start \intersect WalkIds : MetAllOf(i)
        BY <3>1, <3>6 DEF MetAll
      <4>2. ASSUME NEW i \in walk'.start \intersect WalkIds' PROVE MetAllOf(i)'
        <5>1. i \in walk.start \intersect WalkIds /\ i \in WalkIds
          BY <3>4
        <5>2. MetAllOf(i)
          BY <4>1, <5>1
        <5> QED
          BY <2>2, <3>2, <3>6, <5>1, <5>2, MetAllGrown
      <4> QED
        BY <4>2 DEF MetAll
    <3> QED
      BY <3>5, <3>6
  <2> QED
    BY <1>3, <2>1, <2>2, RowsChange
<1>4. CASE UNCHANGED L!vars
  <2>1. /\ Met' = Met /\ Reached' = Reached /\ WalkIds' = WalkIds /\ walk' = walk
    BY <1>4, MetSame DEF L!vars
  <2> QED
    BY <2>1 DEF MetAll, MetAllOf, Place, UpTo
<1> QED
  BY <1>1, <1>2, <1>3, <1>4 DEF L!Next

(***************************************************************************)
(* Who walks through all pages of a list that has an order meets every row *)
(* that was there all the time, unless rows were removed meanwhile, or the *)
(* newest come first and one was added between the two queries of a        *)
(* request: for any number of rows, any limit and any interleaving.        *)
(***************************************************************************)
THEOREM NoRowMissed ==
  ASSUME ListSetting, ListsAreOrdered PROVE L!Spec => []L!MissedOnlyAfterRemoval
<1>1. L!Init => MetAll
  BY DEF L!Init, L!NoWalk, MetAll
<1>2. WalkInv /\ MetAll /\ [L!Next]_(L!vars) => MetAll'
  BY MetAllKept
<1>3. WalkInv /\ MetAll => L!MissedOnlyAfterRemoval
  <2> SUFFICES ASSUME WalkInv, MetAll, walk.pc = "done", ~walk.removed,
                      ~(walk.order = "desc" /\ walk.split),
                      NEW i \in walk.start \intersect WalkIds
               PROVE  i \in L!Range(walk.got)
    BY DEF L!MissedOnlyAfterRemoval, WalkIds
  <2>1. MetAllOf(i)
    BY DEF MetAll
  <2>2. Met = walk.got
    BY MetFacts DEF WalkInv
  <2> QED
    BY <2>1, <2>2 DEF MetAllOf, L!Range
<1> QED
  BY <1>1, <1>2, <1>3, WalkAlways, PTL DEF L!Spec
=============================================================================

------------------------------- MODULE Files --------------------------------
(***************************************************************************)
(* FilesService.upload over the files table and MinIO: a row is created,   *)
(* the object is stored, the row gets its path; a failure deletes the row. *)
(* Uploads run side by side, the stores fail and the process may crash.    *)
(* Every upload has an id of its own, which is also the file's.            *)
(***************************************************************************)
EXTENDS Naturals, FiniteSets

CONSTANTS
  Upload,      \* the uploads, each with the file it stores
  Faults,      \* what goes wrong: a subset of AllFaults
  BucketAtStart

AllFaults == {"minio", "database", "crash"}

ASSUME FaultAssumption == Faults \subseteq AllFaults
ASSUME BucketAssumption == BucketAtStart \in BOOLEAN

VARIABLES
  row,      \* the files table: "none", "noPath" or "path" for each file
  objects,  \* the files whose object is stored
  bucket,   \* whether the bucket exists
  pc,       \* where the upload's request is
  told      \* history: what the client was answered: "nothing", "ok" or "failed"

vars == <<row, objects, bucket, pc, told>>

Init ==
  /\ row = [u \in Upload |-> "none"]
  /\ objects = {}
  /\ bucket = BucketAtStart
  /\ pc = [u \in Upload |-> "start"]
  /\ told = [u \in Upload |-> "nothing"]

AtPc(u, at) == pc[u] = at
Goto(u, at) == pc' = [pc EXCEPT ![u] = at]
Tell(u, answer) == told' = [told EXCEPT ![u] = answer] /\ Goto(u, "done")

-----------------------------------------------------------------------------
CreateRow(u) ==
  /\ AtPc(u, "start")
  /\ row' = [row EXCEPT ![u] = "noPath"]
  /\ Goto(u, "exists")
  /\ UNCHANGED <<objects, bucket, told>>

CreateRowFails(u) ==
  /\ AtPc(u, "start") /\ "database" \in Faults
  /\ Tell(u, "failed")
  /\ UNCHANGED <<row, objects, bucket>>

-----------------------------------------------------------------------------
(* MinioClientService.upload *)

\* upload and, if there is no bucket, makeBucket ask for it.
BucketExists(u) ==
  /\ pc[u] \in {"exists", "existsAgain"}
  /\ Goto(u, IF bucket THEN "put" ELSE IF pc[u] = "exists" THEN "existsAgain" ELSE "make")
  /\ UNCHANGED <<row, objects, bucket, told>>

MakeBucketOnlyIfMissing(u) == \* faulty: an upload that finds it made waits for ever
  /\ AtPc(u, "make") /\ ~bucket
  /\ Goto(u, "put")
  /\ bucket' = TRUE
  /\ UNCHANGED <<row, objects, told>>
\* The bucket another upload has made meanwhile cannot be made again.
MakeBucket(u) ==
  /\ AtPc(u, "make")
  /\ Goto(u, IF bucket THEN "rollBack" ELSE "put")
  /\ bucket' = TRUE
  /\ UNCHANGED <<row, objects, told>>

PutObjectLater(u) == \* faulty: does not wait for the object
  /\ AtPc(u, "put")
  /\ Goto(u, "path")
  /\ UNCHANGED <<row, objects, bucket, told>>
PutObject(u) ==
  /\ AtPc(u, "put")
  /\ objects' = objects \union {u}
  /\ Goto(u, "path")
  /\ UNCHANGED <<row, bucket, told>>

\* A call to MinIO fails; an object may have been stored all the same.
MinioFails(u) ==
  /\ "minio" \in Faults
  /\ pc[u] \in {"exists", "existsAgain", "make", "put"}
  /\ objects' \in {objects, IF AtPc(u, "put") THEN objects \union {u} ELSE objects}
  /\ Goto(u, "rollBack")
  /\ UNCHANGED <<row, bucket, told>>

-----------------------------------------------------------------------------
WritePath(u) ==
  /\ AtPc(u, "path")
  /\ row' = [row EXCEPT ![u] = "path"]
  /\ Tell(u, "ok")
  /\ UNCHANGED <<objects, bucket>>

WritePathFails(u) ==
  /\ AtPc(u, "path") /\ "database" \in Faults
  /\ Goto(u, "rollBack")
  /\ UNCHANGED <<row, objects, bucket, told>>

RollBackNothing(u) == \* faulty: keeps the row
  /\ AtPc(u, "rollBack")
  /\ Tell(u, "failed")
  /\ UNCHANGED <<row, objects, bucket>>
RollBackSoftly(u) == \* faulty: marks the row
  /\ AtPc(u, "rollBack")
  /\ row' = [row EXCEPT ![u] = "deleted"]
  /\ Tell(u, "failed")
  /\ UNCHANGED <<objects, bucket>>
\* The row is deleted; an object that was stored stays.
RollBack(u) ==
  /\ AtPc(u, "rollBack")
  /\ row' = [row EXCEPT ![u] = "none"]
  /\ Tell(u, "failed")
  /\ UNCHANGED <<objects, bucket>>

RollBackFails(u) ==
  /\ AtPc(u, "rollBack") /\ "database" \in Faults
  /\ Tell(u, "failed")
  /\ UNCHANGED <<row, objects, bucket>>

\* The process ends; requests in flight are never answered.
Crash ==
  /\ "crash" \in Faults
  /\ pc' = [u \in Upload |-> IF pc[u] \in {"start", "done"} THEN pc[u] ELSE "lost"]
  /\ UNCHANGED <<row, objects, bucket, told>>

-----------------------------------------------------------------------------
Step(u) ==
  \/ CreateRow(u)
  \/ BucketExists(u)
  \/ MakeBucket(u)
  \/ PutObject(u)
  \/ WritePath(u)
  \/ RollBack(u)

Next ==
  \/ \E u \in Upload :
       \/ Step(u)
       \/ CreateRowFails(u)
       \/ MinioFails(u)
       \/ WritePathFails(u)
       \/ RollBackFails(u)
  \/ Crash

\* The process runs on and its calls return.
Fairness == \A u \in Upload : WF_vars(Step(u))

Spec == Init /\ [][Next]_vars /\ Fairness

-----------------------------------------------------------------------------
TypeOK ==
  /\ row \in [Upload -> {"none", "noPath", "path"}]
  /\ objects \subseteq Upload
  /\ bucket \in BOOLEAN
  /\ pc \in [Upload -> {"start", "exists", "existsAgain", "make", "put", "path",
                        "rollBack", "done", "lost"}]
  /\ told \in [Upload -> {"nothing", "ok", "failed"}]

\* What download and downloadBuffer need: the row and the object.
Downloadable(u) == row[u] # "none" /\ u \in objects

(* A file whose upload was answered with success can be downloaded, and no *)
(* row has a path without an object, whatever fails or crashes.            *)
AnsweredIsStored ==
  \A u \in Upload :
    /\ told[u] = "ok" => row[u] = "path" /\ Downloadable(u)
    /\ row[u] = "path" => u \in objects

(* Once its request is over, an upload has left a row only if it was       *)
(* answered with success ("If Minio upload fails, we should roll back the  *)
(* database entry").                                                       *)
FailedLeavesNoRow ==
  \A u \in Upload : told[u] = "failed" => row[u] = "none"
=============================================================================

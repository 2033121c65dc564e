---------------------------- MODULE PhotoDownload ---------------------------
(***************************************************************************)
(* scripts/download_photos.js: the photos named in the scraped data are    *)
(* downloaded in batches, those that are there already are skipped, and    *)
(* the script may be run again.  A download truncates its file first; the  *)
(* server refuses, the connection is cut, the script is stopped.           *)
(***************************************************************************)
EXTENDS Naturals, FiniteSets, FiniteSetsExt

CONSTANTS
  Photo,      \* the photos named in the JSON files
  BatchSize,  \* BATCH_SIZE
  Faults      \* what goes wrong: a subset of AllFaults

AllFaults == {"refused", "cut", "stopped"}

PhotoAssumption == IsFiniteSet(Photo) /\ Photo # {}
BatchAssumption == BatchSize \in Nat \ {0}
FaultAssumption == Faults \subseteq AllFaults

VARIABLES
  file,    \* the photos directory: "absent", "partial" or "whole"
  script,  \* "off", "batch" or "next" (between two batches)
  todo,    \* photos of the list that no batch has held yet
  batch,   \* the photos of this batch that are not settled
  hung,    \* those of them whose download will never settle
  stats,   \* the script's counters
  report   \* the last line printed: "nothing", "someFailed" or "allDownloaded"

vars == <<file, script, todo, batch, hung, stats, report>>

NoStats == [downloaded |-> 0, skipped |-> 0, errors |-> 0]
Count(what) == stats' = [stats EXCEPT ![what] = @ + 1]

Init ==
  /\ file = [p \in Photo |-> "absent"]
  /\ script = "off"
  /\ todo = {} /\ batch = {} /\ hung = {}
  /\ stats = NoStats
  /\ report = "nothing"

-----------------------------------------------------------------------------
Run ==
  /\ script = "off"
  /\ script' = "next"
  /\ todo' = Photo
  /\ stats' = NoStats
  /\ report' = "nothing"
  /\ UNCHANGED <<file, batch, hung>>

\* The list has an order, which nothing depends on: any batch is taken.  Those
\* whose file exists are skipped; the others' files are opened for writing.
StartBatchAnew == \* faulty: downloads what is there already
  /\ script = "next" /\ todo # {}
  /\ \E b \in kSubset(Min({BatchSize, Cardinality(todo)}), todo) :
       /\ todo' = todo \ b
       /\ batch' = b
       /\ file' = [p \in Photo |-> IF p \in b THEN "partial" ELSE file[p]]
  /\ script' = "batch"
  /\ UNCHANGED <<hung, stats, report>>
StartBatch ==
  /\ script = "next" /\ todo # {}
  /\ \E b \in kSubset(Min({BatchSize, Cardinality(todo)}), todo) :
       LET there == {p \in b : file[p] # "absent"}
       IN /\ todo' = todo \ b
          /\ batch' = b \ there
          /\ file' = [p \in Photo |-> IF p \in b \ there THEN "partial" ELSE file[p]]
          /\ stats' = [stats EXCEPT !.skipped = @ + Cardinality(there)]
  /\ script' = "batch"
  /\ UNCHANGED <<hung, report>>

-----------------------------------------------------------------------------
(* downloadFile *)

Downloaded(p) ==
  /\ p \in batch \ hung
  /\ file' = [file EXCEPT ![p] = "whole"]
  /\ batch' = batch \ {p}
  /\ Count("downloaded")
  /\ UNCHANGED <<script, todo, hung, report>>

FailedKept(p) == \* faulty: the file is not deleted
  /\ p \in batch \ hung
  /\ "refused" \in Faults
  /\ batch' = batch \ {p}
  /\ Count("errors")
  /\ UNCHANGED <<file, script, todo, hung, report>>
FailedUncounted(p) == \* faulty: the error is printed only
  /\ p \in batch \ hung
  /\ "refused" \in Faults
  /\ file' = [file EXCEPT ![p] = "absent"]
  /\ batch' = batch \ {p}
  /\ UNCHANGED <<script, todo, hung, stats, report>>
\* The server answers with an error or not at all; the file is deleted.
Failed(p) ==
  /\ p \in batch \ hung
  /\ "refused" \in Faults
  /\ file' = [file EXCEPT ![p] = "absent"]
  /\ batch' = batch \ {p}
  /\ Count("errors")
  /\ UNCHANGED <<script, todo, hung, report>>

\* The connection is cut within the photo: the response ends the pipe without
\* an end, and neither finish nor error comes (if it is reset: Failed).
Cut(p) ==
  /\ p \in batch \ hung
  /\ "cut" \in Faults
  /\ hung' = hung \union {p}
  /\ UNCHANGED <<file, script, todo, batch, stats, report>>

-----------------------------------------------------------------------------
\* Promise.all: the next batch, or the end.
BatchEnds ==
  /\ script = "batch" /\ batch = {}
  /\ script' = "next"
  /\ UNCHANGED <<file, todo, batch, hung, stats, report>>

Report ==
  /\ script = "next" /\ todo = {}
  /\ report' = IF stats.errors > 0 THEN "someFailed" ELSE "allDownloaded"
  /\ script' = "off"
  /\ UNCHANGED <<file, todo, batch, hung, stats>>

End ==
  /\ script' = "off"
  /\ todo' = {} /\ batch' = {} /\ hung' = {}
  /\ UNCHANGED <<file, stats, report>>

\* Nothing is left that could happen: Node ends, in silence.
Starve == script = "batch" /\ batch # {} /\ batch = hung /\ End

\* Whoever runs it stops it, or the machine does.
Stop == "stopped" \in Faults /\ script # "off" /\ End

-----------------------------------------------------------------------------
Go == StartBatch \/ BatchEnds \/ Report \/ Starve

Next ==
  \/ Run
  \/ Go
  \/ \E p \in Photo : Downloaded(p) \/ Failed(p) \/ Cut(p)
  \/ Stop

\* The script is run again and again, what it awaits settles, and the server
\* does not refuse a photo for ever.
Fairness ==
  /\ WF_vars(Run) /\ WF_vars(Go)
  /\ \A p \in Photo : /\ SF_vars(Downloaded(p))
                      /\ WF_vars(Downloaded(p) \/ Failed(p) \/ Cut(p))

Spec == Init /\ [][Next]_vars /\ Fairness

-----------------------------------------------------------------------------
TypeOK ==
  /\ file \in [Photo -> {"absent", "partial", "whole"}]
  /\ script \in {"off", "batch", "next"}
  /\ todo \subseteq Photo /\ batch \subseteq Photo \ todo /\ hung \subseteq batch
  /\ stats \in [downloaded : 0..Cardinality(Photo), skipped : 0..Cardinality(Photo),
                errors : 0..Cardinality(Photo)]
  /\ report \in {"nothing", "someFailed", "allDownloaded"}

(* The statistics a run reports account for every photo once, in whatever  *)
(* order a batch settles.                                                  *)
StatsAddUp ==
  report # "nothing" =>
    stats.downloaded + stats.skipped + stats.errors = Cardinality(Photo)

(* "All photos downloaded successfully!" (download_photos.js:202) is true  *)
(* as long as downloads either succeed or fail.                            *)
ReportIsTrue ==
  report = "allDownloaded" => \A p \in Photo : file[p] = "whole"

(* "You can run this script again to retry failed downloads."              *)
(* (download_photos.js:200): run again and again it gets every photo.      *)
RetriesGetAll == <>[](\A p \in Photo : file[p] = "whole")
=============================================================================

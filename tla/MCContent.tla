----------------------------- MODULE MCContent ------------------------------
(***************************************************************************)
(* Small instances of what exams are made of, for TLC: the files, the      *)
(* answers of the questions, the questions users save, the paged lists,    *)
(* and the scripts that download photos, import questions and seed the     *)
(* database.  They share no state in the models: a behaviour runs one of   *)
(* them, its part, and leaves the others as they begin.                    *)
(***************************************************************************)
EXTENDS Files, Sequences

CONSTANTS
  Parts,  \* what is checked
  None, c1, c2, q1, q2, editor1, editor2,
  photo1, photo2, photo3, photo4, lesson1, lesson2,
  permission1, permission2, old, superAdmin, admin, plain, newcomer

VARIABLES
  part,
  row2, objects2, bucket2, pc2, told2,                          \* Files, MinIO fails
  answers, lock, answerReq,                                     \* AnswerBank
  saved, savedReq, savedTold,                                   \* SavedQuestions
  listed, walk,                                                 \* Listing
  file, script, todo, batch, hung, stats, report,               \* PhotoDownload
  site, disk, scraper, fetched, left, answered, summary, scrapes,
  loaded, inserted, migrating, tables,                          \* QuestionImport
  seeded, seeder, at, creating, printed, trouble                \* Seeding

-----------------------------------------------------------------------------
(* The instances.  The files while everything fails are those of the       *)
(* module extended.                                                        *)

\* Only MinIO fails.
OnlyMinio == INSTANCE Files WITH
  Faults <- {"minio"},
  row <- row2, objects <- objects2, bucket <- bucket2, pc <- pc2, told <- told2

Flags == {<<TRUE>>, <<FALSE, TRUE>>, <<TRUE, TRUE>>, <<FALSE>>}
AnswerRow(q, correct) == [question |-> q, isCorrect |-> correct, isDeleted |-> FALSE]

\* One administrator with all operations, two questions.
Editing == INSTANCE AnswerBank WITH
  Question <- {q1, q2}, Editor <- {editor1},
  Operations <- {"create", "createCorrect", "createMultiple", "setCorrect",
                 "setDeletedCorrect", "setIncorrect", "remove"},
  Batches <- Flags, InitAnswers <- <<AnswerRow(q1, TRUE), AnswerRow(q2, TRUE)>>,
  MaxAnswers <- 5, req <- answerReq

\* Two administrators update and remove the answers of one question.
Updating == INSTANCE AnswerBank WITH
  Question <- {q1}, Editor <- {editor1, editor2},
  Operations <- {"setCorrect", "setDeletedCorrect", "setIncorrect", "remove"},
  Batches <- Flags,
  InitAnswers <- <<AnswerRow(q1, TRUE), AnswerRow(q1, FALSE), AnswerRow(q1, FALSE)>>,
  MaxAnswers <- 3, req <- answerReq

\* Two devices toggle questions and exchange them ...
Toggling == INSTANCE SavedQuestions WITH
  Question <- {q1, q2}, Client <- {c1, c2}, Operations <- {"toggle", "update"},
  MaxRows <- 4, req <- savedReq, told <- savedTold

\* ... or toggle and remove them.
Removing == INSTANCE SavedQuestions WITH
  Question <- {q1, q2}, Client <- {c1, c2}, Operations <- {"toggle", "remove"},
  MaxRows <- 4, req <- savedReq, told <- savedTold

\* Three lists in the order of creation, two rows a page.
Lists == INSTANCE Listing WITH
  Lists <- {"users", "questions", "saved"}, Sortings <- {TRUE}, Limit <- 2,
  InitRows <- 3, MaxRows <- 4, rows <- listed

\* The server refuses photos ...
Photos == INSTANCE PhotoDownload WITH
  Photo <- {photo1, photo2, photo3, photo4}, BatchSize <- 2, Faults <- {"refused"}

\* ... and connections are cut and the script is stopped.
PhotosCut == INSTANCE PhotoDownload WITH
  Photo <- {photo1, photo2, photo3, photo4}, BatchSize <- 2,
  Faults <- {"refused", "cut", "stopped"}

\* Requests fail ...
Import == INSTANCE QuestionImport WITH
  Lesson <- {lesson1, lesson2}, Faults <- {"refused"}, MaxScrapes <- 2, MaxImports <- 1

\* ... once only ...
ImportOnce == INSTANCE QuestionImport WITH
  Lesson <- {lesson1, lesson2}, Faults <- {"refused"}, MaxScrapes <- 1, MaxImports <- 1

\* ... and the scripts are stopped.
ImportStopped == INSTANCE QuestionImport WITH
  Lesson <- {lesson1, lesson2}, Faults <- {"refused", "stopped"},
  MaxScrapes <- 2, MaxImports <- 1

\* The script is stopped and run again, users register ...
Seed == INSTANCE Seeding WITH
  Permission <- {permission1, permission2}, RolesDelete <- permission2,
  SuperAdmin <- superAdmin, Admin <- admin, Plain <- plain, Newcomer <- newcomer,
  Old <- old, MayEnqueue <- FALSE, MaxTrouble <- 3, rows <- seeded, script <- seeder

\* ... and enqueue jobs.
SeedUsed == INSTANCE Seeding WITH
  Permission <- {permission1, permission2}, RolesDelete <- permission2,
  SuperAdmin <- superAdmin, Admin <- admin, Plain <- plain, Newcomer <- newcomer,
  Old <- old, MayEnqueue <- TRUE, MaxTrouble <- 4, rows <- seeded, script <- seeder

ASSUME AnswersAssumptions ==
  /\ Editing!OperationAssumption /\ Editing!BatchAssumption
  /\ Editing!InitAssumption /\ Editing!EditorAssumption
  /\ Updating!OperationAssumption /\ Updating!InitAssumption /\ Updating!EditorAssumption
ASSUME SavedAssumptions ==
  Toggling!OperationAssumption /\ Toggling!NoneAssumption /\ Removing!OperationAssumption
ASSUME ListsAssumptions == Lists!ListsAssumption /\ Lists!LimitAssumption
ASSUME ScriptsAssumptions ==
  /\ Photos!PhotoAssumption /\ Photos!BatchAssumption
  /\ Photos!FaultAssumption /\ PhotosCut!FaultAssumption
  /\ Import!FaultAssumption /\ ImportStopped!FaultAssumption
  /\ Seed!RolesDeleteAssumption /\ SeedUsed!EnqueueAssumption

-----------------------------------------------------------------------------
onlyMinioVars == <<row2, objects2, bucket2, pc2, told2>>
answersVars == <<answers, lock, answerReq>>
savedVars == <<saved, savedReq, savedTold>>
listVars == <<listed, walk>>
photoVars == <<file, script, todo, batch, hung, stats, report>>
importVars == <<site, disk, scraper, fetched, left, answered, summary, scrapes,
                loaded, inserted, migrating, tables>>
seedVars == <<seeded, seeder, at, creating, printed, trouble>>
scriptsVars == <<photoVars, importVars, seedVars>>
contentVars == <<vars, onlyMinioVars, answersVars, savedVars, listVars>>
allVars == <<part, contentVars, scriptsVars>>

ContentInit ==
  /\ part \in Parts
  /\ Init
  /\ OnlyMinio!Init
  /\ IF part = "answers, two editors" THEN Updating!Init ELSE Editing!Init
  /\ Toggling!Init
  /\ Lists!Init
  /\ Photos!Init
  /\ Import!Init /\ (part \notin {"import", "import, once", "import, stopped"} => site = {})
  /\ Seed!Init /\ (part \notin {"seed", "seed, in use"} => seeded["roles"] = {})

FilesStep ==
  /\ part = "files, all fail" /\ Next
  /\ UNCHANGED <<onlyMinioVars, answersVars, savedVars, listVars, scriptsVars>>
OnlyMinioStep ==
  /\ part = "files" /\ OnlyMinio!Next
  /\ UNCHANGED <<vars, answersVars, savedVars, listVars, scriptsVars>>
AnswersStep ==
  /\ \/ part = "answers" /\ Editing!Next
     \/ part = "answers, two editors" /\ Updating!Next
  /\ UNCHANGED <<vars, onlyMinioVars, savedVars, listVars, scriptsVars>>
SavedStep ==
  /\ \/ part = "saved, exchanged" /\ Toggling!Next
     \/ part = "saved, removed" /\ Removing!Next
  /\ UNCHANGED <<vars, onlyMinioVars, answersVars, listVars, scriptsVars>>
ListsStep ==
  /\ part = "lists" /\ Lists!Next
  /\ UNCHANGED <<vars, onlyMinioVars, answersVars, savedVars, scriptsVars>>
PhotosStep ==
  /\ \/ part = "photos" /\ Photos!Next
     \/ part = "photos, cut" /\ PhotosCut!Next
  /\ UNCHANGED <<contentVars, importVars, seedVars>>
ImportStep ==
  /\ \/ part = "import" /\ Import!Next
     \/ part = "import, once" /\ ImportOnce!Next
     \/ part = "import, stopped" /\ ImportStopped!Next
  /\ UNCHANGED <<contentVars, photoVars, seedVars>>
SeedStep ==
  /\ \/ part = "seed" /\ Seed!Next
     \/ part = "seed, in use" /\ SeedUsed!Next
  /\ UNCHANGED <<contentVars, photoVars, importVars>>

ContentNext ==
  /\ UNCHANGED part
  /\ \/ FilesStep \/ OnlyMinioStep \/ AnswersStep \/ SavedStep \/ ListsStep
     \/ PhotosStep \/ ImportStep \/ SeedStep

\* As in the modules of the instances.
ContentFairness ==
  /\ \A u \in Upload : /\ WF_vars(part = "files, all fail" /\ Step(u))
                       /\ WF_onlyMinioVars(part = "files" /\ OnlyMinio!Step(u))
  /\ \A e \in {editor1, editor2} :
       /\ SF_answersVars(/\ part = "answers, two editors"
                         /\ \E i \in Updating!Ids : Updating!WriteOther(e, i))
       /\ SF_answersVars(part = "answers, two editors" /\ Updating!Commit(e))
       /\ WF_answersVars(part = "answers, two editors" /\ Updating!RollBack(e))
  /\ WF_photoVars(part = "photos" /\ Photos!Run)
  /\ WF_photoVars(part = "photos" /\ Photos!Go)
  /\ \A p \in {photo1, photo2, photo3, photo4} :
       /\ SF_photoVars(part = "photos" /\ Photos!Downloaded(p))
       /\ WF_photoVars(part = "photos" /\ (Photos!Downloaded(p) \/ Photos!Failed(p)))
  /\ WF_importVars(part = "import, once" /\ ImportOnce!ScraperStep)
  /\ WF_seedVars(part = "seed" /\ ~printed /\ Seed!Run)
  /\ WF_seedVars(part = "seed" /\ Seed!ScriptStep)

ContentSpec == ContentInit /\ [][ContentNext]_allVars
FairContentSpec == ContentSpec /\ ContentFairness

-----------------------------------------------------------------------------
(* The properties of the instances.  What they state is told where they    *)
(* are defined.                                                            *)

(* Every part's state is of its type.                                      *)
ContentTypeOK ==
  /\ TypeOK /\ OnlyMinio!TypeOK
  /\ IF part = "answers, two editors" THEN Updating!TypeOK ELSE Editing!TypeOK
  /\ Toggling!TypeOK
  /\ Lists!TypeOK
  /\ Photos!TypeOK
  /\ Import!TypeOK
  /\ SeedUsed!TypeOK

(* An import is in every table or in none, and every imported question has *)
(* the subject it was fetched for.  As long as the scraper is not stopped, *)
(* its files fit each other when it is not running.                        *)
ImportIsWhole ==
  /\ Import!AllOrNothing /\ Import!SubjectsAreThere
  /\ part = "import" => Import!FilesFit

(* What is told of failures and ends is so: an upload told to have failed  *)
(* while the database answers has left no row, "All photos downloaded      *)
(* successfully!" is true while downloads either succeed or fail, the      *)
(* statistics of a run account for every photo once, and what the seed has *)
(* printed as completed is there.                                          *)
ToldIsTrue ==
  /\ OnlyMinio!FailedLeavesNoRow
  /\ part = "photos" => Photos!ReportIsTrue
  /\ Photos!StatsAddUp
  /\ Seed!CompletedIsSeeded

(* A question has at most one correct answer: one administrator does       *)
(* anything, or several update and remove.  No interleaving of updates     *)
(* passes through a state in which exams cannot ask the question.          *)
AnswersAreSound ==
  /\ [](IF part = "answers, two editors" THEN Updating!OneCorrectAtMost
        ELSE Editing!OneCorrectAtMost)
  /\ [][part = "answers, two editors" => Updating!UnfitOnPurpose]_answersVars

(* A walk through all pages misses a row only if rows were removed, or one *)
(* was added between the two queries of a page with the newest first; it   *)
(* meets a row twice only if rows were added with the newest first; and a  *)
(* page lists only rows that can be opened by their id.                    *)
WalksAreExact ==
  /\ [](Lists!MissedOnlyAfterRemoval /\ Lists!TwiceOnlyAfterInsertion)
  /\ Lists!ListedCanBeOpened

(* What the last answer about a saved question said is what is stored, and *)
(* no question is saved twice.  While nothing is removed by id, a toggle   *)
(* that runs alone succeeds.                                               *)
SavedAreSound ==
  /\ [](Toggling!ToldIsSaved /\ Toggling!SavedOnce)
  /\ [][part = "saved, exchanged" => Toggling!FailedToggleWasNotAlone]_savedVars

UpdatingOthers(e) == part = "answers, two editors" /\ Updating!AtPc(e, "others")

(* What was begun comes to its end: an upload is answered, or lost with    *)
(* the process; an update ends, also when two of them want each other's    *)
(* rows; run again and again, the download has every photo and the seed    *)
(* completes; a scrape ends though any of its requests may fail.           *)
EverythingEnds ==
  /\ \A u \in Upload :
       /\ part = "files" ~> OnlyMinio!AtPc(u, "done")
       /\ part = "files, all fail" ~> pc[u] \in {"done", "lost"}
  /\ \A e \in {editor1, editor2} : UpdatingOthers(e) ~> ~UpdatingOthers(e)
  /\ part = "photos" ~> [](\A p \in {photo1, photo2, photo3, photo4} : file[p] = "whole")
  /\ (part = "import, once" /\ scraper # "off") ~> scraper = "off"
  /\ part = "seed" ~> printed
=============================================================================

--------------------------- MODULE QuestionImport ---------------------------
(***************************************************************************)
(* scripts/scraper.js fetches the lessons and their questions from another *)
(* site into JSON files; scripts/migrate_questions.js inserts them into    *)
(* the database in one transaction.  Requests fail, the site changes, and  *)
(* both scripts may be stopped, run again and run at the same time.        *)
(* A lesson stands for its questions too: they are fetched by one request. *)
(***************************************************************************)
EXTENDS Naturals, FiniteSets

CONSTANTS
  Lesson,
  Faults,     \* what goes wrong: a subset of AllFaults
  MaxScrapes, \* bound: runs of the scraper
  MaxImports  \* bound: runs of the migration that begin a transaction

AllFaults == {"refused", "stopped"}

FaultAssumption == Faults \subseteq AllFaults
BoundAssumption == MaxScrapes \in Nat /\ MaxImports \in Nat

VARIABLES
  site,     \* the lessons the site has
  disk,     \* the JSON files
  scraper,  \* where the scraper is
  fetched,  \* the lessons of this run of it
  left,     \* those whose questions are still to be fetched
  answered, \* those whose questions were
  summary,  \* whether this run has written export_summary.json
  scrapes,  \* runs so far (for the bound)
  loaded,   \* what each import read from the files
  inserted, \* the tables this transaction has inserted into
  migrating,
  tables    \* committed: the imports each table has rows of

scraperVars == <<scraper, fetched, left, answered, summary, scrapes>>
migrationVars == <<loaded, inserted, migrating, tables>>
vars == <<site, disk, scraperVars, migrationVars>>

FileName == {"lessons", "questions", "exams", "controls"}
Table == {"subjects", "tickets", "files", "questions", "answers"}
Absent == [state |-> "absent", holds |-> {}]

Init ==
  /\ site \in SUBSET Lesson
  /\ disk = [f \in FileName |-> Absent]
  /\ scraper = "off"
  /\ fetched = {} /\ left = {} /\ answered = {}
  /\ summary = FALSE
  /\ scrapes = 0
  /\ loaded = [k \in 1..MaxImports |-> [lessons |-> {}, questions |-> {}]]
  /\ inserted = {}
  /\ migrating = 0
  /\ tables = [t \in Table |-> {}]

-----------------------------------------------------------------------------
(* scraper.js *)

SiteChanges ==
  /\ site' \in SUBSET Lesson
  /\ UNCHANGED <<disk, scraperVars, migrationVars>>

Scrape ==
  /\ scraper = "off" /\ scrapes < MaxScrapes
  /\ scraper' = "fetchLessons"
  /\ fetched' = {} /\ left' = {} /\ answered' = {}
  /\ summary' = FALSE
  /\ scrapes' = scrapes + 1
  /\ UNCHANGED <<site, disk, migrationVars>>

FetchLessons ==
  /\ scraper = "fetchLessons"
  /\ fetched' = site
  /\ scraper' = "openLessons"
  /\ UNCHANGED <<site, disk, left, answered, summary, scrapes, migrationVars>>

\* fetchLessons returns null; the questions are left out.
FetchLessonsFails ==
  /\ scraper = "fetchLessons" /\ "refused" \in Faults
  /\ scraper' = "openExams"
  /\ UNCHANGED <<site, disk, fetched, left, answered, summary, scrapes, migrationVars>>

\* saveToFile: fs.writeJson opens, and so truncates, the file ...
Open(f, at, to) ==
  /\ scraper = at
  /\ disk' = [disk EXCEPT ![f] = [state |-> "broken", holds |-> {}]]
  /\ scraper' = to
  /\ UNCHANGED <<site, fetched, left, answered, summary, scrapes, migrationVars>>

\* ... and writes it.
Write(f, what, at, to) ==
  /\ scraper = at
  /\ disk' = [disk EXCEPT ![f] = [state |-> "whole", holds |-> what]]
  /\ scraper' = to
  /\ UNCHANGED <<site, fetched, answered, summary, scrapes, migrationVars>>

WriteLessons ==
  /\ Write("lessons", fetched, "writeLessons", "fetchQuestions")
  /\ left' = fetched

FetchLessonQuestions(l) ==
  /\ scraper = "fetchQuestions" /\ l \in left
  /\ left' = left \ {l}
  /\ answered' = answered \union {l}
  /\ UNCHANGED <<site, disk, scraper, fetched, summary, scrapes, migrationVars>>

\* The lesson is left out.
FetchLessonQuestionsFails(l) ==
  /\ scraper = "fetchQuestions" /\ l \in left /\ "refused" \in Faults
  /\ left' = left \ {l}
  /\ UNCHANGED <<site, disk, scraper, fetched, answered, summary, scrapes, migrationVars>>

OpenQuestionsWhenAll == \* faulty: waits for every lesson
  answered = fetched /\ Open("questions", "fetchQuestions", "writeQuestions")
OpenQuestionsIfAny == \* faulty: an empty result keeps the old file
  left = {} /\ IF answered # {} THEN Open("questions", "fetchQuestions", "writeQuestions")
              ELSE /\ scraper = "fetchQuestions" /\ scraper' = "openExams"
                   /\ UNCHANGED <<site, disk, fetched, left, answered, summary, scrapes,
                                  migrationVars>>
OpenQuestions == left = {} /\ Open("questions", "fetchQuestions", "writeQuestions")

WriteQuestions ==
  /\ Write("questions", answered, "writeQuestions", "openExams")
  /\ UNCHANGED left

\* The exams and controls are tried by number; what is not there is left out.
SaveOthers ==
  \/ Open("exams", "openExams", "writeExams")
  \/ Write("exams", {}, "writeExams", "openControls") /\ UNCHANGED left
  \/ Open("controls", "openControls", "writeControls")
  \/ Write("controls", {}, "writeControls", "summarize") /\ UNCHANGED left

Summarize ==
  /\ scraper = "summarize"
  /\ summary' = TRUE
  /\ scraper' = "off"
  /\ UNCHANGED <<site, disk, fetched, left, answered, scrapes, migrationVars>>

StopScraper ==
  /\ scraper # "off" /\ "stopped" \in Faults
  /\ scraper' = "off"
  /\ UNCHANGED <<site, disk, fetched, left, answered, summary, scrapes, migrationVars>>

-----------------------------------------------------------------------------
(* migrate_questions.js *)

NextImport == CHOOSE k \in 1..MaxImports : loaded[k].lessons = {} /\ loaded[k].questions = {}
Imports == {k \in 1..MaxImports : loaded[k].lessons # {} \/ loaded[k].questions # {}}

LoadWhole == \A f \in {"lessons", "questions"} : disk[f].state = "whole"
EveryQuestionHasItsSubjectNever == TRUE \* faulty: a missing subject is let through
\* "Question ... not migrated": a question whose subject is not among the
\* lessons ends the migration.
EveryQuestionHasItsSubject == disk["questions"].holds \subseteq disk["lessons"].holds

Migrate ==
  /\ migrating = 0
  /\ Cardinality(Imports) < MaxImports
  /\ LoadWhole /\ EveryQuestionHasItsSubject
  /\ disk["lessons"].holds # {} \* importing nothing changes nothing
  /\ LET k == NextImport IN
     /\ loaded' = [loaded EXCEPT ![k] = [lessons |-> disk["lessons"].holds,
                                         questions |-> disk["questions"].holds]]
     /\ migrating' = k
  /\ inserted' = {}
  /\ UNCHANGED <<site, disk, scraperVars, tables>>

After(t) == CASE t = "subjects" -> {}
              [] t = "tickets" -> {"subjects"}
              [] t = "files" -> {"subjects", "tickets"}
              [] t = "questions" -> {"subjects", "tickets", "files"}
              [] t = "answers" -> Table \ {"answers"}

BatchInsertNow(t) == \* faulty: outside the transaction
  /\ migrating # 0
  /\ inserted = After(t)
  /\ inserted' = inserted \union {t}
  /\ tables' = [tables EXCEPT ![t] = @ \union {migrating}]
  /\ UNCHANGED <<site, disk, scraperVars, loaded, migrating>>
BatchInsert(t) ==
  /\ migrating # 0
  /\ inserted = After(t)
  /\ inserted' = inserted \union {t}
  /\ UNCHANGED <<site, disk, scraperVars, loaded, migrating, tables>>

Commit ==
  /\ migrating # 0
  /\ inserted = Table
  /\ tables' = [t \in Table |-> tables[t] \union {migrating}]
  /\ migrating' = 0
  /\ UNCHANGED <<site, disk, scraperVars, loaded, inserted>>

\* An insert fails or the script is stopped: the transaction is rolled back.
Rollback ==
  /\ migrating # 0 /\ Faults # {}
  /\ migrating' = 0
  /\ UNCHANGED <<site, disk, scraperVars, loaded, inserted, tables>>

-----------------------------------------------------------------------------
ScraperStep ==
  \/ FetchLessons
  \/ FetchLessonsFails
  \/ Open("lessons", "openLessons", "writeLessons")
  \/ WriteLessons
  \/ \E l \in Lesson : FetchLessonQuestions(l) \/ FetchLessonQuestionsFails(l)
  \/ OpenQuestions
  \/ WriteQuestions
  \/ SaveOthers
  \/ Summarize

MigrationStep == (\E t \in Table : BatchInsert(t)) \/ Commit

Next ==
  \/ SiteChanges
  \/ Scrape
  \/ ScraperStep
  \/ StopScraper
  \/ Migrate
  \/ MigrationStep
  \/ Rollback

\* The requests of a running scraper return.
Spec == Init /\ [][Next]_vars /\ WF_vars(ScraperStep)

-----------------------------------------------------------------------------
TypeOK ==
  /\ site \subseteq Lesson
  /\ disk \in [FileName -> [state : {"absent", "broken", "whole"}, holds : SUBSET Lesson]]
  /\ scraper \in {"off", "fetchLessons", "openLessons", "writeLessons", "fetchQuestions",
                  "writeQuestions", "openExams", "writeExams", "openControls",
                  "writeControls", "summarize"}
  /\ fetched \subseteq Lesson /\ left \subseteq fetched /\ answered \subseteq fetched \ left
  /\ summary \in BOOLEAN /\ scrapes \in 0..MaxScrapes
  /\ loaded \in [1..MaxImports -> [lessons : SUBSET Lesson, questions : SUBSET Lesson]]
  /\ inserted \subseteq Table
  /\ migrating \in 0..MaxImports
  /\ tables \in [Table -> SUBSET (1..MaxImports)]

(* Whatever fails or is stopped, and whenever it reads the files, an       *)
(* import is in every table or in none.                                    *)
AllOrNothing ==
  \A k \in 1..MaxImports : \A t, u \in Table : k \in tables[t] <=> k \in tables[u]

(* Every imported question has the subject it was fetched for, also from   *)
(* files that two runs of the scraper, one of them stopped, have left.     *)
SubjectsAreThere ==
  \A k \in tables["questions"] : loaded[k].questions \subseteq loaded[k].lessons

(* As long as the scraper is not stopped, its files fit each other when it *)
(* is not running, whatever requests fail and however the site changes.    *)
FilesFit ==
  scraper = "off" =>
    disk["questions"].holds \subseteq disk["lessons"].holds

(* A scrape comes to its end, though any of its requests may fail.         *)
ScriptsEnd == scraper # "off" ~> scraper = "off"
=============================================================================

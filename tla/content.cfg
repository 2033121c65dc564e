\* What exams are made of, one part at a time.
SPECIFICATION ContentSpec
CONSTANTS
  None = None  c1 = c1  c2 = c2  q1 = q1  q2 = q2  editor1 = editor1  editor2 = editor2
  photo1 = photo1  photo2 = photo2  photo3 = photo3  photo4 = photo4
  lesson1 = lesson1  lesson2 = lesson2
  permission1 = permission1  permission2 = permission2  old = old
  superAdmin = superAdmin  admin = admin  plain = plain  newcomer = newcomer
  Parts = {"files", "files, all fail", "answers", "answers, two editors",
           "saved, exchanged", "saved, removed", "lists", "photos", "photos, cut",
           "import", "import, stopped", "seed", "seed, in use"}
  Upload = {1, 2, 3}
  Faults = {"minio", "database", "crash"}
  BucketAtStart = FALSE
INVARIANTS ContentTypeOK AnsweredIsStored ImportIsWhole ToldIsTrue
PROPERTIES AnswersAreSound WalksAreExact SavedAreSound
CHECK_DEADLOCK FALSE

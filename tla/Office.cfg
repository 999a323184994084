SPECIFICATION OfficeSpec
CONSTANTS
  t1 = t1
  t2 = t2
  c1 = c1
  c2 = c2
  math = math
  lab = lab
  a1 = a1
  a2 = a2
  asha = asha
  midterm = midterm
  e1 = e1
  AnyClassNamed = AnyClassNamed
  Students = {a1, a2}
  Exams = {e1}
  ExamNames = {midterm}
  ClassOf <- OneClass
  Lookups = {asha}
  Bearers <- BearersOf
  Alike <- AlikeOf
  SearchLimit = 5
  Recordings <- RecordingsTried
  Corrections <- CorrectionsTried
  DeskEntries <- DeskEntriesTried
  DeskValues = {70}
  AnyClass = AnyClassNamed
  PassMark = 40
  MaxMarks = 2
  MaxDeskEdits = 2
  Sessions = {s1, s2}
  Classes = {c1, c2}
  Teachers = {t1, t2}
  Subjects = {math, lab}
  Days <- TwoDays
  Periods = {1, 2}
  Number <- NumberOf
  Recess = {}
  DayOf <- AnyDay
  NoDay = NoDay
  EntryIds = {1, 2, 3}
  GenerateRequests <- Bodies
  NewEntries <- Rows
  EntryChanges <- Changes
  MorningNamed = 1
  MorningCore = 1
  MaxRows = 2
  MaxEdits = 1
  RowIds = {1, 2, 3, 4, 5}
  FirstRows <- Schools
  NewRows <- RowsWanted
  PutBodies <- PutsTried
  ExamPoints <- Marks
  MaxWrites = 2
  ShelfIds = {1, 2, 3, 4, 5, 6, 7}
  FirstShelves <- Shelves
  Wanted <- ForSale
  ShelfEdits <- EditsTried
  MaxRequests = 3
  tuition = tuition
  bus = bus
  yearly = yearly
  monthly = monthly
  Components = {tuition, bus}
  Base <- Prices
  Templates = {yearly, monthly}
  PartsOf <- Parts
  TermsOf <- TermsNamed
  EnrolledIn <- OneFeeClass
  OptedOut <- NotTheBus
  Grants <- GrantsMade
  FeeYears = {1}
  MaxFeeRequests = 4
  LastYear = 2
  roll = roll
  album = album
  RegIds = {1, 2, 3, 4, 5}
  FirstRegister <- Registers
  NewAttendance <- Submissions
  RegEdits <- EditsOfRows
  Promotions <- Moves
  Lists = {roll}
  Albums = {album}
  Entered = {math, lab}
  MaxTurns = 3
  MaxUploads = 2
  MaxRemovals = 3
  Tried = {"record_student_marks", "get_marksheet_for_exam", "schedule_exam", "assign_subject_to_class",
           "find_free_teachers", "update_timetable_entry", "list_all_classes", "mark_student_attendance"}
  MaxCalls = 2
  RecursionLimit = 3
  MaxChats = 2
CHECK_DEADLOCK FALSE
INVARIANTS OfficeTypeOK LessonsFit LimitsPassedByDoubles SpacingKept
  OneActiveYear LeaderboardsAgree
  RecordedOnce CorrectionsFit  InvoiceAddsUp ListsStayWhole
  StoresAgree AnswersMatchCalls
PROPERTIES SwapsMakeNoClash RequestsEnd DeletedExamsStay VerifiedStay
  LastItemStays NamesStayDistinct DeletionsKeepSelling
  ClassInvoicedWhole LeaversStay

SPECIFICATION TimetableSpec
CONSTANTS
  c1 = c1
  c2 = c2
  math = math
  lab = lab
  t1 = t1
  t2 = t2
  Sessions = {s1, s2}
  Students = {}
  Classes = {c1, c2}
  Teachers = {t1, t2}
  Subjects = {math, lab}
  Days <- TwoDays
  Periods = {1, 2}
  Number <- NumberOf
  Recess = {}
  DayOf <- AnyDay
  NoDay = NoDay
  EntryIds = {1, 2, 3}
  GenerateRequests <- Weeks
  NewEntries = {}
  EntryChanges = {}
  MorningNamed = 1
  MorningCore = 1
  MaxRows = 2
  MaxEdits = 0
CHECK_DEADLOCK FALSE
INVARIANT GeneratedTeachersOnce

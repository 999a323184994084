----------------------------- MODULE MCSchoolOffice -----------------------------
(* The instances of all parts together.                                       *)
EXTENDS SchoolOffice, MCTimetable, MCStudentLife, MCCatalog, MCFees, MCRegistry
=============================================================================

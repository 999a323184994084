----------------------------- MODULE SchoolOffice -----------------------------
(***************************************************************************)
(* The school office: the components that share the sessions of School.     *)
(* They keep tables of their own and no request works on two of them, so a   *)
(* behaviour of the office is an interleaving of behaviours of its parts.     *)
(* focus says which part a behaviour is about; the others rest.               *)
(***************************************************************************)
EXTENDS Timetable, MarkBook, StudentLife, Catalog, Fees, Registry, Media, AgentChats

VARIABLE focus

Foci == {"generator", "timetable", "marks", "life", "catalog", "fees", "registry", "media", "chats"}

officeVars == <<focus, job, alone, timetableVars, markVars, lifeVars, catalogVars, feesVars, registryVars,
                mediaVars, chatVars>>

OfficeInit ==
  /\ focus \in Foci /\ TimetableInit /\ MarkInit /\ LifeInit /\ CatalogInit /\ FeesInit /\ RegistryInit
  /\ MediaInit /\ ChatInit
  /\ focus = "life" \/ rows = CHOOSE r \in FirstRows : TRUE   \* the others do not look

\* A preview writes nothing and meets nobody: it is followed under "generator".
OfficeNext ==
  /\ UNCHANGED focus
  /\ \/ focus = "generator" /\ (\E s \in Sessions : GenerateStep(s)) /\ WatchSwaps
     \/ /\ focus = "timetable" /\ TimetableNext
        /\ \A s \in Sessions : Working(s, "generate")' => ~job'[s].body.dry
     \/ focus = "marks" /\ MarkNext
     \/ focus = "life" /\ LifeNext
     \/ focus = "catalog" /\ CatalogNext
     \/ focus = "fees" /\ FeesNext
     \/ focus = "registry" /\ RegistryNext
     \/ focus = "media" /\ MediaNext
     \/ focus = "chats" /\ ChatNext
  /\ focus \in {"generator", "timetable"} \/ UNCHANGED timetableVars
  /\ focus = "marks" \/ UNCHANGED markVars
  /\ focus = "life" \/ UNCHANGED lifeVars
  /\ focus = "catalog" \/ UNCHANGED catalogVars
  /\ focus = "fees" \/ UNCHANGED feesVars
  /\ focus = "registry" \/ UNCHANGED registryVars
  /\ focus = "media" \/ UNCHANGED mediaVars
  /\ focus = "chats" \/ UNCHANGED chatVars

OfficeSpec == OfficeInit /\ [][OfficeNext]_officeVars /\ TimetableFairness /\ FeesFairness /\ ChatFairness

\* Every component keeps the types of its tables and of the requests it serves.
OfficeTypeOK ==
  /\ focus \in Foci
  /\ focus \in {"generator", "timetable"} => TimetableTypeOK
  /\ focus = "marks" => MarkTypeOK
  /\ focus = "life" => LifeTypeOK
  /\ focus = "catalog" => CatalogTypeOK
  /\ focus = "fees" => FeesTypeOK
  /\ focus = "registry" => RegistryTypeOK
  /\ focus = "media" => MediaTypeOK
  /\ focus = "chats" => ChatTypeOK

\* The requests that take many steps end: the generator, which may place and give
\* up for long; the billing of a class, which waits for numbers that others are
\* inserting; and a chat, whose model may ask for calls without end.
RequestsEnd == GenerationEnds /\ BillingEnds /\ ChatsEnd
=============================================================================

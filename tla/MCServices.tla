------------------------------ MODULE MCServices ------------------------------
(***************************************************************************)
(* The smaller services side by side.  They share the frame of Requests    *)
(* and nothing else, so a behaviour is one of one of them: part says       *)
(* which, and the variables of the others stay as they are.                *)
(***************************************************************************)
EXTENDS Sessions, FrontDesk, Assistant, Startup, Recommend

VARIABLE part

MCMigration(for, kind, on, inSchema) ==
  [driver |-> for, kind |-> kind, on |-> on, inSchema |-> inSchema]

\* A column that the schema has by now, a table, a unique index on it, MySQL's
\* AUTO_INCREMENT, and another index on the schema.
MCMigrations ==
  <<MCMigration("", "add", 0, TRUE), MCMigration("", "create", 0, FALSE),
    MCMigration("", "unique", 2, FALSE), MCMigration("mysql", "modify", 2, FALSE),
    MCMigration("", "add", 0, FALSE)>>

\* A title that is part of another.
MCTitlesWith == [t \in {"San Ti", "San Ti II"} |-> {t, "San Ti II"}]

MCSubjects == <<{"novel"}, {"novel", "space"}, {}>>
MCAuthor == <<"Liu", "", "Liu">>
MCTastes == {{}, {"space"}}
MCLimits == {0, 1}

sessions == <<backend, counters, accounts, history>>
frontDesk == <<gateLog, favorites, toggles, dueState, notices>>
assistant == <<given, records>>
startup == startupVars
recommend == <<reading, shelf>>
vars == <<part, pc, req, sessions, frontDesk, assistant, startup, recommend>>

Parts == {"sessions", "gate", "favorites", "reminders", "assistant", "startup", "recommend"}

Init ==
  /\ part \in Parts
  /\ SessionsInit /\ FrontDeskInit /\ AssistantInit /\ StartupInit /\ RecommendInit
  /\ part # "sessions" => backend = "memory"
  /\ part # "assistant" => provider = "mock" /\ matter = "loan"
  /\ part # "startup" => driver = "sqlite" /\ built = {} /\ repeated = {}

InSessions ==
  /\ part = "sessions" /\ SessionsNext
  /\ UNCHANGED <<part, frontDesk, assistant, startup, recommend>>

\* The three services of the front desk have nothing in common either.
InGate ==
  /\ part = "gate" /\ GateNext
  /\ UNCHANGED <<part, sessions, assistant, startup, recommend>>

InFavorites ==
  /\ part = "favorites" /\ FavoritesNext
  /\ UNCHANGED <<part, sessions, assistant, startup, recommend>>

InReminders ==
  /\ part = "reminders" /\ RemindersNext
  /\ UNCHANGED <<part, sessions, assistant, startup, recommend>>

InAssistant ==
  /\ part = "assistant" /\ AssistantNext
  /\ UNCHANGED <<part, sessions, frontDesk, startup, recommend>>

InStartup ==
  /\ part = "startup" /\ StartupNext
  /\ UNCHANGED <<part, pc, req, sessions, frontDesk, assistant, recommend>>

InRecommend ==
  /\ part = "recommend" /\ RecommendNext
  /\ UNCHANGED <<part, sessions, frontDesk, assistant, startup>>

Next ==
  \/ InSessions \/ InGate \/ InFavorites \/ InReminders
  \/ InAssistant \/ InStartup \/ InRecommend

\* Time passes: the fairness of SessionsSpec.  (A tick always changes the
\* counters, so they do for the subscript.)
TimePasses ==
  /\ part = "sessions" /\ Tick
  /\ UNCHANGED <<backend, part, frontDesk, assistant, startup, recommend>>

Spec == Init /\ [][Next]_vars /\ WF_counters(TimePasses)

ServicesTypeOK ==
  CASE part = "sessions" -> SessionsTypeOK
    [] part = "assistant" -> AssistantTypeOK
    [] part = "startup" -> StartupTypeOK
    [] part = "recommend" -> RecommendTypeOK
    [] OTHER -> FrontDeskTypeOK
=============================================================================

------------------------------- MODULE Settings -------------------------------
(***************************************************************************)
(* The evaluation date, anchored or floating, the flag that says whether   *)
(* an event on that date has occurred, and the scopes that save and        *)
(* restore both.                                                           *)
(*                                                                         *)
(*   ql/settings.hpp, ql/settings.cpp   Settings, SavedSettings            *)
(*   ql/event.cpp                       Event::hasOccurred                 *)
(*                                                                         *)
(* The actions here change the settings alone; Instruments joins to each   *)
(* what the notification of a date does.  A flag is a plain bool &: nobody *)
(* is told when it is written, nor when the clock strikes midnight.        *)
(***************************************************************************)
EXTENDS Naturals, Sequences

CONSTANTS
  MaxDate,       \* bound: last day the clock reaches
  MaxScopes      \* bound: SavedSettings objects alive at once

ASSUME DateAssumption == MaxDate \in Nat \ {0}
ASSUME ScopesAssumption == MaxScopes \in Nat

VARIABLES
  today,                        \* Date::todaysDate()
  evaluationDate,               \* Settings::evaluationDate_
  includeReferenceDateEvents,   \* Settings::includeReferenceDateEvents_
  scopes,                       \* the SavedSettings alive, innermost last
  announced                     \* history: every change so far was notified

settings == <<today, evaluationDate, includeReferenceDateEvents, scopes, announced>>

Date == 1 .. MaxDate
NoDate == 0                     \* Date()

Saved == [date : Date, flag : BOOLEAN]

SettingsTypeOK ==
  /\ today \in Date
  /\ evaluationDate \in Date \cup {NoDate}
  /\ includeReferenceDateEvents \in BOOLEAN
  /\ scopes \in Seq(Saved)
  /\ Len(scopes) <= MaxScopes
  /\ announced \in BOOLEAN

SettingsInit ==
  /\ today = 1
  /\ evaluationDate = NoDate
  /\ includeReferenceDateEvents = FALSE
  /\ scopes = <<>>
  /\ announced = TRUE

\* DateProxy::operator Date
EvaluationDate == IF evaluationDate = NoDate THEN today ELSE evaluationDate

HasOccurred(d) == IF includeReferenceDateEvents THEN d < EvaluationDate
                                                ELSE d <= EvaluationDate

\* ObservableValue::operator=; all observers are told.
Assign(d) ==
  /\ evaluationDate' = d
  /\ UNCHANGED <<today, includeReferenceDateEvents, scopes, announced>>

\* Nothing is assigned, and nobody told, if the date is anchored already.
Anchor == evaluationDate = NoDate /\ Assign(today)

SetFlag(b) ==
  /\ includeReferenceDateEvents' = b
  /\ announced' = (announced /\ b = includeReferenceDateEvents)
  /\ UNCHANGED <<today, evaluationDate, scopes>>

Midnight ==
  /\ today < MaxDate
  /\ today' = today + 1
  /\ announced' = (announced /\ evaluationDate # NoDate)
  /\ UNCHANGED <<evaluationDate, includeReferenceDateEvents, scopes>>

\* SavedSettings::SavedSettings: the date saved is today's if it is floating.
Save ==
  /\ Len(scopes) < MaxScopes
  /\ scopes' = Append(scopes, [date |-> EvaluationDate,
                               flag |-> includeReferenceDateEvents])
  /\ UNCHANGED <<today, evaluationDate, includeReferenceDateEvents, announced>>

LastSaved == scopes[Len(scopes)]

\* The destructor assigns the date only if it reads differently.
Assigns == EvaluationDate # LastSaved.date

\* SavedSettings::~SavedSettings.  An observer that raises when told of the
\* date ends it before the flag is restored.
Restore(raises) ==
  /\ scopes # <<>>
  /\ raises => Assigns
  /\ scopes' = SubSeq(scopes, 1, Len(scopes) - 1)
  /\ evaluationDate' = IF Assigns THEN LastSaved.date ELSE evaluationDate
  /\ includeReferenceDateEvents' =
       IF raises THEN includeReferenceDateEvents ELSE LastSaved.flag
  /\ announced' = (announced /\ includeReferenceDateEvents' = includeReferenceDateEvents)
  /\ UNCHANGED today
=============================================================================

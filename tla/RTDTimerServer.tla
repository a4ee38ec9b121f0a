--------------------------- MODULE RTDTimerServer ---------------------------
(***************************************************************************)
(* The real-time-data server behind =cegTimeNow(): one timer per topic,    *)
(* whose callbacks run on pool threads, while Excel connects topics and    *)
(* collects results on its own thread.                                     *)
(*                                                                         *)
(*   CEGLibXll/Rtd/RTDTimerServer.cs   RTDTimerServer, PayLoad             *)
(*   CEGLibXll/Time/Date.cs            cegTimeNow                          *)
(*                                                                         *)
(* Excel is modelled from the interface it calls: it takes one call at a   *)
(* time, sends a topic id to ConnectData when a cell needs one, and calls  *)
(* RefreshData after UpdateNotify.                                         *)
(***************************************************************************)
EXTENDS Naturals, FiniteSets, Functions

CONSTANTS
  Topic,       \* topic ids of Excel
  Timed,       \* those whose function name timer_Elapsed knows
  PayLoad,     \* PayLoad objects
  Thread,      \* threads of the pool that runs timer callbacks
  MaxTime,     \* bound: instants told apart
  None

ASSUME TopicAssumption == Timed \subseteq Topic /\ None \notin PayLoad \cup Topic
ASSUME TimeAssumption == MaxTime \in Nat \ {0}

VARIABLES
  now,         \* DateTime.Now
  up,          \* between ServerStart and ServerTerminate
  taskMap,     \* RTDTimerServer.taskMap
  task,        \* the PayLoad objects
  thread,      \* what each pool thread is doing
  main,        \* what Excel's thread is doing
  notified,    \* UpdateNotify called since the last RefreshData
  shown,       \* what the cell of a topic shows, 0 with no cell
  started,     \* history: the time of ServerStart
  unheard      \* history: payloads whose last update had no listener

vars == <<now, up, taskMap, task, thread, main, notified, shown, started, unheard>>

Time == 0 .. MaxTime

Task == [topic : Topic \cup {None}, timer : BOOLEAN, subscribed : BOOLEAN,
         IsUpdated : BOOLEAN, result : Time]

Callback == [pc : {"idle", "store", "raise", "complete"},
             payload : PayLoad \cup {None}, value : Time]

Excel == [pc : {"idle", "subscribe", "add", "refresh", "reset"},
          topic : Topic \cup {None}, payload : PayLoad \cup {None},
          todo : SUBSET Topic, result : Time]

TypeOK ==
  /\ now \in Time \ {0}
  /\ up \in BOOLEAN
  /\ taskMap \in [Topic -> PayLoad \cup {None}]
  /\ task \in [PayLoad -> Task]
  /\ thread \in [Thread -> Callback]
  /\ main \in Excel
  /\ notified \in BOOLEAN
  /\ shown \in [Topic -> Time]
  /\ started \in Time
  /\ unheard \subseteq PayLoad

NoTask == [topic |-> None, timer |-> FALSE, subscribed |-> FALSE,
           IsUpdated |-> FALSE, result |-> 0]
Resting == [pc |-> "idle", payload |-> None, value |-> 0]
Idle == [pc |-> "idle", topic |-> None, payload |-> None, todo |-> {}, result |-> 0]

Init ==
  /\ now = 1
  /\ up = FALSE
  /\ taskMap = [t \in Topic |-> None]
  /\ task = [p \in PayLoad |-> NoTask]
  /\ thread = [h \in Thread |-> Resting]
  /\ main = Idle
  /\ notified = FALSE
  /\ shown = [t \in Topic |-> 0]
  /\ started = 0
  /\ unheard = {}

\* Topics with a task: taskMap.Keys.
Keys == {t \in Topic : taskMap[t] # None}

\* Objects nothing refers to: a running timer refers to its payload.
Unused == {p \in PayLoad : /\ ~task[p].timer
                           /\ p \notin Range(taskMap)
                           /\ \A h \in Thread : thread[h].payload # p}

-----------------------------------------------------------------------------
\* Excel's thread

\* Slip: the dictionary of the previous session is kept.
ServerStartKeeps ==
  /\ ~up
  /\ up' = TRUE
  /\ notified' = FALSE
  /\ started' = now
  /\ UNCHANGED <<now, taskMap, task, thread, main, shown, unheard>>

ServerStart ==
  /\ ~up
  /\ up' = TRUE
  /\ taskMap' = [t \in Topic |-> None]
  /\ notified' = FALSE
  /\ started' = now
  /\ UNCHANGED <<now, task, thread, main, shown, unheard>>

ServerTerminate ==
  /\ up
  /\ main.pc = "idle"
  /\ up' = FALSE
  /\ task' = [p \in PayLoad |-> [task[p] EXCEPT !.timer = @ /\ p \notin Range(taskMap)]]
  /\ shown' = [t \in Topic |-> 0]
  /\ UNCHANGED <<now, taskMap, thread, main, notified, started, unheard>>

\* PayLoad::PayLoad: the timer runs before anyone listens.
NewPayLoad(p, t) == task' = [task EXCEPT ![p] = [NoTask EXCEPT !.topic = t, !.timer = TRUE]]

\* Slip: the test for a task already set is missing, and Add raises.
ConnectDataUnchecked(t) ==
  /\ up
  /\ main.pc = "idle"
  /\ shown[t] = 0
  /\ \E p \in Unused :
       /\ NewPayLoad(p, t)
       /\ IF t \in Keys
            THEN UNCHANGED main
            ELSE main' = [Idle EXCEPT !.pc = "subscribe", !.topic = t, !.payload = p]
       /\ unheard' = unheard \ {p}
  /\ UNCHANGED <<now, up, taskMap, thread, notified, shown, started>>

\* A topic that has a task keeps it; otherwise one is made.
ConnectData(t) ==
  /\ up
  /\ main.pc = "idle"
  /\ shown[t] = 0
  /\ \/ /\ t \in Keys
        /\ shown' = [shown EXCEPT ![t] = now]
        /\ UNCHANGED <<task, main, unheard>>
     \/ /\ t \notin Keys
        /\ \E p \in Unused :
             /\ NewPayLoad(p, t)
             /\ main' = [Idle EXCEPT !.pc = "subscribe", !.topic = t, !.payload = p]
             /\ unheard' = unheard \ {p}
        /\ UNCHANGED shown
  /\ UNCHANGED <<now, up, taskMap, thread, notified, started>>

\* Slip: nobody listens to the new task.
SubscribeForgotten ==
  /\ main.pc = "subscribe"
  /\ main' = [main EXCEPT !.pc = "add"]
  /\ UNCHANGED <<now, up, taskMap, task, thread, notified, shown, started, unheard>>

\* task.OnComplete += task_OnComplete
Subscribe ==
  /\ main.pc = "subscribe"
  /\ task' = [task EXCEPT ![main.payload].subscribed = TRUE]
  /\ main' = [main EXCEPT !.pc = "add"]
  /\ UNCHANGED <<now, up, taskMap, thread, notified, shown, started, unheard>>

\* taskMap.Add(topicId, task); return DateTime.Now
AddTask ==
  /\ main.pc = "add"
  /\ taskMap' = [taskMap EXCEPT ![main.topic] = main.payload]
  /\ shown' = [shown EXCEPT ![main.topic] = now]
  /\ main' = Idle
  /\ UNCHANGED <<now, up, task, thread, notified, started, unheard>>

\* The cell is gone; the server does nothing.
DisconnectData(t) ==
  /\ up
  /\ main.pc = "idle"
  /\ shown[t] # 0
  /\ shown' = [shown EXCEPT ![t] = 0]
  /\ UNCHANGED <<now, up, taskMap, task, thread, main, notified, started, unheard>>

RefreshData ==
  /\ up
  /\ main.pc = "idle"
  /\ notified
  /\ notified' = FALSE
  /\ main' = [Idle EXCEPT !.pc = "refresh", !.todo = Keys]
  /\ UNCHANGED <<now, up, taskMap, task, thread, shown, started, unheard>>

\* One round of the loop: IsUpdated is tested and result read,
Visit(t) ==
  /\ main.pc = "refresh"
  /\ t \in main.todo
  /\ main' = IF task[taskMap[t]].IsUpdated
               THEN [main EXCEPT !.pc = "reset", !.topic = t, !.todo = @ \ {t},
                                 !.result = task[taskMap[t]].result]
               ELSE [main EXCEPT !.todo = @ \ {t}]
  /\ UNCHANGED <<now, up, taskMap, task, thread, notified, shown, started, unheard>>

\* then IsUpdated marked back to false; Excel drops values no cell wants.
Collect ==
  /\ main.pc = "reset"
  /\ LET t == main.topic
         p == taskMap[t]
     IN  /\ task' = [task EXCEPT ![p].IsUpdated = FALSE]
         /\ shown' = [shown EXCEPT ![t] = IF @ = 0 THEN 0 ELSE main.result]
         /\ unheard' = unheard \ {p}
  /\ main' = [main EXCEPT !.pc = "refresh", !.topic = None, !.result = 0]
  /\ UNCHANGED <<now, up, taskMap, thread, notified, started>>

EndRefresh ==
  /\ main.pc = "refresh"
  /\ main.todo = {}
  /\ main' = Idle
  /\ UNCHANGED <<now, up, taskMap, task, thread, notified, shown, started, unheard>>

-----------------------------------------------------------------------------
\* The threads of the timers' callbacks

\* Slip: the result is the time of the next callback.
ElapsedAhead(p, h) ==
  /\ task[p].timer
  /\ task[p].topic \in Timed
  /\ thread[h].pc = "idle"
  /\ thread' = [thread EXCEPT ![h] = [pc |-> "store", payload |-> p, value |-> now + 1]]
  /\ UNCHANGED <<now, up, taskMap, task, main, notified, shown, started, unheard>>

\* timer_Elapsed, called again each interval whether or not it has returned.
Elapsed(p, h) ==
  /\ task[p].timer
  /\ task[p].topic \in Timed
  /\ thread[h].pc = "idle"
  /\ thread' = [thread EXCEPT ![h] = [pc |-> "store", payload |-> p, value |-> now]]
  /\ UNCHANGED <<now, up, taskMap, task, main, notified, shown, started, unheard>>

\* result = DateTime.Now, the value already read
StoreResult(h) ==
  /\ thread[h].pc = "store"
  /\ task' = [task EXCEPT ![thread[h].payload].result = thread[h].value]
  /\ thread' = [thread EXCEPT ![h].pc = "raise"]
  /\ UNCHANGED <<now, up, taskMap, main, notified, shown, started, unheard>>

\* this.IsUpdated = true
RaiseFlag(h) ==
  /\ thread[h].pc = "raise"
  /\ task' = [task EXCEPT ![thread[h].payload].IsUpdated = TRUE]
  /\ thread' = [thread EXCEPT ![h].pc = "complete"]
  /\ UNCHANGED <<now, up, taskMap, main, notified, shown, started, unheard>>

\* Slip: a task that is not in taskMap yet is not announced.
OnCompleteKnown(h) ==
  /\ thread[h].pc = "complete"
  /\ LET p == thread[h].payload
     IN  IF task[p].subscribed
           THEN notified' = (notified \/ p \in Range(taskMap)) /\ unheard' = unheard \ {p}
           ELSE unheard' = unheard \cup {p} /\ UNCHANGED notified
  /\ thread' = [thread EXCEPT ![h] = Resting]
  /\ UNCHANGED <<now, up, taskMap, task, main, shown, started>>

\* OnComplete(this, null): UpdateNotify, or with no subscriber a
\* NullReferenceException that ends the callback.
OnComplete(h) ==
  /\ thread[h].pc = "complete"
  /\ LET p == thread[h].payload
     IN  IF task[p].subscribed
           THEN notified' = TRUE /\ unheard' = unheard \ {p}
           ELSE unheard' = unheard \cup {p} /\ UNCHANGED notified
  /\ thread' = [thread EXCEPT ![h] = Resting]
  /\ UNCHANGED <<now, up, taskMap, task, main, shown, started>>

Tick ==
  /\ now < MaxTime
  /\ now' = now + 1
  /\ UNCHANGED <<up, taskMap, task, thread, main, notified, shown, started, unheard>>

Next ==
  \/ ServerStart \/ ServerTerminate \/ RefreshData
  \/ Subscribe \/ AddTask \/ Collect \/ EndRefresh
  \/ \E t \in Topic : ConnectData(t) \/ DisconnectData(t) \/ Visit(t)
  \/ \E p \in PayLoad : \E h \in Thread : Elapsed(p, h)
  \/ \E h \in Thread : StoreResult(h) \/ RaiseFlag(h) \/ OnComplete(h)
  \/ Tick

Spec == Init /\ [][Next]_vars

\* Calls return, callbacks are queued until a thread takes them and run to
\* their end, and Excel answers a notification.
Fairness ==
  /\ WF_vars(RefreshData \/ Subscribe \/ AddTask \/ Collect \/ EndRefresh
               \/ \E t \in Topic : Visit(t))
  /\ \A p \in PayLoad : SF_vars(\E h \in Thread : Elapsed(p, h))
  /\ \A h \in Thread : WF_vars(StoreResult(h) \/ RaiseFlag(h) \/ OnComplete(h))

FairSpec == Spec /\ Fairness

-----------------------------------------------------------------------------
(***************************************************************************)
(* Only timers of the running session tick, one for each topic, so that    *)
(* ServerTerminate, which stops those of taskMap, stops all.               *)
(***************************************************************************)
NoOrphans ==
  \A p \in PayLoad : task[p].timer =>
    up /\ (taskMap[task[p].topic] = p \/ (main.payload = p /\ main.pc # "idle"))

(***************************************************************************)
(* An update waiting to be collected is announced: Excel has been told, or *)
(* is about to be, or RefreshData is still to look at it.  The exception   *)
(* is a tick before ConnectData had subscribed to OnComplete.              *)
(***************************************************************************)
Announced ==
  \A t \in Keys :
    LET p == taskMap[t]
    IN  up /\ task[p].IsUpdated =>
          \/ notified
          \/ t \in main.todo \/ main.topic = t
          \/ \E h \in Thread : thread[h].pc = "complete" /\ thread[h].payload = p
          \/ p \in unheard

(***************************************************************************)
(* A cell never shows a time from before the server was last started, even *)
(* when callbacks of the previous session are still under way.             *)
(***************************************************************************)
ThisSession == \A t \in Topic : shown[t] # 0 => up /\ shown[t] >= started

(***************************************************************************)
(* Every result a timer produces is shown sooner or later, or a newer one, *)
(* unless the cell or the server goes away.                                *)
(***************************************************************************)
Refreshed ==
  \A t \in Timed : \A p \in PayLoad : \A v \in Time \ {0} :
    (up /\ taskMap[t] = p /\ task[p].result = v) ~> (~up \/ shown[t] = 0 \/ shown[t] >= v)

(***************************************************************************)
(* taskMap's comment has the timer call "back on native window's thread",  *)
(* where RefreshData runs (RTDTimerServer.cs:85): then no result could be  *)
(* stored between reading result and resetting IsUpdated, and once Excel   *)
(* has collected, its cells would show the last results.  Forms' timer is  *)
(* not what the code uses, so no run has this as an invariant.             *)
(***************************************************************************)
NothingLost ==
  up /\ main.pc = "idle" /\ ~notified /\ (\A h \in Thread : thread[h].pc = "idle") =>
    \A t \in Keys : shown[t] # 0 =>
      \/ shown[t] >= task[taskMap[t]].result
      \/ taskMap[t] \in unheard
=============================================================================

----------------------- MODULE RTDTimerServerProofs -----------------------
(***************************************************************************)
(* Proofs about the real-time-data server, for any number of topics,       *)
(* payloads and threads: the sessions of the server, with callbacks of     *)
(* earlier sessions still running, neither leave timers behind nor let an  *)
(* update go unannounced.                                                  *)
(***************************************************************************)
EXTENDS RTDTimerServer, TLAPS

\* What Excel's thread holds in each phase of a call
MainInv ==
  /\ main.pc = "idle" => main = Idle
  /\ main.pc # "idle" => up
  /\ main.pc \in {"subscribe", "add"} =>
       /\ main.topic \in Topic /\ main.payload \in PayLoad
       /\ main.todo = {}
       /\ task[main.payload].timer /\ task[main.payload].topic = main.topic
       /\ taskMap[main.topic] = None
  /\ main.pc \in {"refresh", "reset"} => main.payload = None /\ main.todo \subseteq Keys
  /\ main.pc = "refresh" => main.topic = None
  /\ main.pc = "reset" => main.topic \in Keys

\* A callback under way belongs to a payload; a timer that runs, to a topic.
CallbackInv ==
  /\ \A h \in Thread : thread[h].pc = "idle" <=> thread[h].payload = None
  /\ \A p \in PayLoad : task[p].timer => task[p].topic \in Topic

\* The payloads of the running session
Live(p) == up /\ (main.payload = p \/ \E t \in Topic : taskMap[t] = p)

(***************************************************************************)
(* Callbacks that outlive their session keep their payload from being used *)
(* again, so the results of the running session are all its own.           *)
(***************************************************************************)
SessionInv ==
  /\ started <= now
  /\ \A p \in PayLoad : Live(p) => task[p].result = 0 \/ task[p].result >= started
  /\ \A h \in Thread : Live(thread[h].payload) /\ thread[h].pc # "idle"
                         => thread[h].value >= started
  /\ main.pc = "reset" => main.result = 0 \/ main.result >= started

\* A payload that ConnectData has not yet put into the dictionary
NewcomerInv ==
  main.pc \in {"subscribe", "add"} /\ task[main.payload].IsUpdated =>
    \/ notified
    \/ \E h \in Thread : thread[h].pc = "complete" /\ thread[h].payload = main.payload
    \/ main.payload \in unheard

Inv == /\ TypeOK /\ MainInv /\ CallbackInv /\ NoOrphans
       /\ SessionInv /\ NewcomerInv /\ Announced /\ ThisSession

LEMMA InitInv == Init => Inv
<1> SUFFICES ASSUME Init PROVE Inv
  OBVIOUS
<1>1. 0 \in Time /\ 1 \in Time \ {0} /\ 1 \in Nat
  BY TimeAssumption DEF Time
<1>2. NoTask \in Task /\ NoTask.timer = FALSE
  BY <1>1 DEF NoTask, Task
<1>3. Resting \in Callback /\ Resting.pc = "idle" /\ Resting.payload = None
  BY <1>1 DEF Resting, Callback
<1>4. Idle \in Excel /\ Idle.pc = "idle" /\ Idle.payload = None
  BY <1>1 DEF Idle, Excel
<1>5. TypeOK
  BY <1>1, <1>2, <1>3, <1>4 DEF Init, TypeOK
<1>6. MainInv /\ CallbackInv /\ NoOrphans /\ NewcomerInv /\ Announced /\ ThisSession
  BY <1>2, <1>3, <1>4 DEF Init, MainInv, CallbackInv, NoOrphans, NewcomerInv, Announced,
                          ThisSession, Keys
<1>7. SessionInv
  BY <1>4 DEF Init, SessionInv, Live
<1>8. QED
  BY <1>5, <1>6, <1>7 DEF Inv

\* A new session has no timers and no keys yet.
LEMMA ServerStartInv ==
  ASSUME Inv, ServerStart
  PROVE  Inv'
<1>1. TypeOK'
  BY TopicAssumption, TimeAssumption
     DEF Inv, ServerStart, TypeOK, Time, Task, Callback, Excel, Idle, NoTask,
         Resting
<1>2. MainInv'
  BY TopicAssumption, TimeAssumption
     DEF Inv, ServerStart, TypeOK, Task, Callback, Excel, MainInv, Keys,
         CallbackInv, Idle, NoTask, Resting
<1>3. CallbackInv'
  BY TopicAssumption, TimeAssumption
     DEF Inv, ServerStart, TypeOK, Task, Callback, Excel, MainInv,
         CallbackInv, Idle, NoTask, Resting
<1>4. NoOrphans'
  BY TopicAssumption, TimeAssumption
     DEF Inv, ServerStart, TypeOK, Task, Callback, Excel, MainInv,
         CallbackInv, NoOrphans, Range, Idle, NoTask, Resting
<1>5. SessionInv'
  BY TopicAssumption, TimeAssumption
     DEF Inv, ServerStart, TypeOK, Time, Task, Callback, Excel, MainInv,
         CallbackInv, NoOrphans, SessionInv, Live, Keys, Idle, NoTask, Resting
<1>6. NewcomerInv'
  BY TopicAssumption, TimeAssumption
     DEF Inv, ServerStart, TypeOK, Task, Callback, Excel, MainInv,
         CallbackInv, NewcomerInv, Announced, Keys, Idle, NoTask, Resting
<1>7. Announced'
  BY TopicAssumption, TimeAssumption
     DEF Inv, ServerStart, TypeOK, Task, Callback, Excel, MainInv,
         CallbackInv, NewcomerInv, Announced, Keys, Idle, NoTask, Resting
<1>8. ThisSession'
  BY TopicAssumption, TimeAssumption
     DEF Inv, ServerStart, TypeOK, Time, Task, Callback, Excel, MainInv,
         SessionInv, ThisSession, Idle, NoTask, Resting
<1>9. QED
  BY <1>1, <1>2, <1>3, <1>4, <1>5, <1>6, <1>7, <1>8 DEF Inv

\* Every timer that runs is one of taskMap's, and is stopped.
LEMMA ServerTerminateInv ==
  ASSUME Inv, ServerTerminate
  PROVE  Inv'
<1>1. TypeOK'
  <2>1. ASSUME NEW p \in PayLoad, NEW b \in BOOLEAN
        PROVE  [task[p] EXCEPT !.timer = @ /\ b] \in Task
    BY DEF Inv, TypeOK, Task
  <2>2. task' \in [PayLoad -> Task]
    BY <2>1 DEF ServerTerminate
  <2>3. shown' \in [Topic -> Time]
    BY TimeAssumption DEF ServerTerminate, Time
  <2>4. QED
    BY <2>2, <2>3 DEF Inv, TypeOK, ServerTerminate
<1>2. MainInv'
  BY TopicAssumption, TimeAssumption
     DEF Inv, ServerTerminate, TypeOK, Task, Callback, Excel, MainInv, Keys,
         CallbackInv, Idle, NoTask, Resting
<1>3. CallbackInv'
  BY TopicAssumption, TimeAssumption
     DEF Inv, ServerTerminate, TypeOK, Task, Callback, Excel, MainInv,
         CallbackInv, Idle, NoTask, Resting
<1>4. NoOrphans'
  <2>1. ASSUME NEW p \in PayLoad, task'[p].timer
        PROVE  FALSE
    <3>1. task[p].timer /\ p \notin Range(taskMap)
      BY <2>1 DEF Inv, TypeOK, Task, ServerTerminate
    <3>2. task[p].topic \in Topic /\ taskMap[task[p].topic] = p
      BY <3>1 DEF Inv, NoOrphans, CallbackInv, ServerTerminate
    <3>3. QED
      BY <3>1, <3>2 DEF Inv, TypeOK, Range
  <2>2. QED
    BY <2>1 DEF NoOrphans
<1>5. SessionInv'
  BY TopicAssumption, TimeAssumption
     DEF Inv, ServerTerminate, TypeOK, Time, Task, Callback, Excel, MainInv,
         CallbackInv, NoOrphans, SessionInv, Live, Keys, Idle, NoTask, Resting
<1>6. NewcomerInv'
  BY TopicAssumption, TimeAssumption
     DEF Inv, ServerTerminate, TypeOK, Task, Callback, Excel, MainInv,
         CallbackInv, NewcomerInv, Announced, Keys, Idle, NoTask, Resting
<1>7. Announced'
  BY TopicAssumption, TimeAssumption
     DEF Inv, ServerTerminate, TypeOK, Task, Callback, Excel, MainInv,
         CallbackInv, NewcomerInv, Announced, Keys, Idle, NoTask, Resting
<1>8. ThisSession'
  BY TopicAssumption, TimeAssumption
     DEF Inv, ServerTerminate, TypeOK, Time, Task, Callback, Excel, MainInv,
         SessionInv, ThisSession, Idle, NoTask, Resting
<1>9. QED
  BY <1>1, <1>2, <1>3, <1>4, <1>5, <1>6, <1>7, <1>8 DEF Inv

\* A new payload is one that no callback holds.
LEMMA ConnectDataInv ==
  ASSUME NEW t \in Topic, Inv, ConnectData(t)
  PROVE  Inv'
<1>1. CASE t \in Keys
  <2>1. /\ shown' = [shown EXCEPT ![t] = now]
        /\ up /\ main.pc = "idle"
        /\ UNCHANGED <<now, up, taskMap, task, thread, main, notified, started, unheard>>
    BY <1>1 DEF ConnectData
  <2>2. TypeOK' /\ ThisSession'
    BY <2>1 DEF Inv, TypeOK, ThisSession, SessionInv, Time
  <2>3. MainInv' /\ CallbackInv' /\ NoOrphans' /\ SessionInv' /\ NewcomerInv' /\ Announced'
    BY <2>1
       DEF Inv, MainInv, CallbackInv, NoOrphans, SessionInv, NewcomerInv,
           Announced,
                Live, Keys
  <2>4. QED
    BY <2>2, <2>3 DEF Inv
<1>2. CASE t \notin Keys
  <2> DEFINE new(p) == [NoTask EXCEPT !.topic = t, !.timer = TRUE]
             call(p) == [Idle EXCEPT !.pc = "subscribe", !.topic = t, !.payload = p]
  <2>1. PICK p \in PayLoad :
          /\ p \in Unused
          /\ task' = [task EXCEPT ![p] = new(p)]
          /\ main' = call(p)
          /\ unheard' = unheard \ {p}
          /\ up /\ main = Idle
          /\ UNCHANGED <<now, up, taskMap, thread, notified, shown, started>>
    BY <1>2 DEF ConnectData, NewPayLoad, Unused, Inv, MainInv
  <2>2. /\ new(p) \in Task /\ new(p).topic = t
        /\ new(p).timer = TRUE /\ new(p).IsUpdated = FALSE /\ new(p).result = 0
    <3>1. 0 \in Time
      BY TimeAssumption DEF Time
    <3>2. NoTask \in Task /\ NoTask.IsUpdated = FALSE /\ NoTask.result = 0
      BY <3>1 DEF NoTask, Task
    <3>3. QED
      BY <3>2 DEF Task
  <2>3. /\ call(p) \in Excel /\ call(p).pc = "subscribe" /\ call(p).topic = t
        /\ call(p).payload = p /\ call(p).todo = {} /\ call(p).result = 0
    <3>1. 0 \in Time
      BY TimeAssumption DEF Time
    <3>2. Idle \in Excel /\ Idle.todo = {} /\ Idle.result = 0
      BY <3>1 DEF Idle, Excel
    <3>3. QED
      BY <3>2 DEF Excel
  <2>4. \A u \in Topic : taskMap[u] # p
    BY <2>1 DEF Unused, Range, Inv, TypeOK
  <2>5. \A h \in Thread : thread[h].payload # p
    BY <2>1 DEF Unused
  <2>6. taskMap[t] = None
    BY <1>2 DEF Keys
  <2>7. /\ task'[p] = new(p)
        /\ \A q \in PayLoad \ {p} : task'[q] = task[q]
    BY <2>1 DEF Inv, TypeOK
  <2> HIDE DEF new, call
  <2>8. TypeOK'
    BY <2>1, <2>2, <2>3 DEF Inv, TypeOK
  <2>9. MainInv'
    BY <2>1, <2>2, <2>3, <2>6, <2>7 DEF MainInv
  <2>10. CallbackInv'
    BY <2>1, <2>2, <2>7 DEF Inv, CallbackInv
  <2>11. NoOrphans'
    <3>1. ASSUME NEW q \in PayLoad \ {p}, task[q].timer
          PROVE  taskMap[task[q].topic] = q
      BY <2>1, <3>1 DEF Inv, NoOrphans, Idle
    <3>2. QED
      BY <2>1, <2>3, <2>7, <3>1 DEF NoOrphans
  <2>12. SessionInv'
    <3>1. \A q \in PayLoad \ {p} : Live(q)' => Live(q)
      BY <2>1, <2>3 DEF Live
    <3>2. ASSUME NEW h \in Thread, thread[h].pc # "idle", Live(thread[h].payload)'
          PROVE  Live(thread[h].payload)
      BY <2>1, <2>3, <2>5, <3>2 DEF Live
    <3>3. QED
      BY <2>1, <2>2, <2>3, <2>7, <3>1, <3>2 DEF Inv, SessionInv
  <2>13. NewcomerInv'
    BY <2>1, <2>2, <2>3, <2>7 DEF NewcomerInv
  <2>14. Announced'
    <3>1. SUFFICES ASSUME NEW u \in Keys, task[taskMap[u]].IsUpdated
                   PROVE  \/ notified
                          \/ \E h \in Thread : /\ thread[h].pc = "complete"
                                               /\ thread[h].payload = taskMap[u]
                          \/ taskMap[u] \in unheard /\ taskMap[u] # p
      BY <2>1, <2>4, <2>7 DEF Announced, Keys, Inv, TypeOK
    <3>2. u # main.topic /\ u \notin main.todo
      BY <2>1, TopicAssumption DEF Idle, Keys
    <3>3. QED
      BY <2>1, <2>4, <3>1, <3>2 DEF Inv, Announced, Keys
  <2>15. ThisSession'
    BY <2>1 DEF Inv, ThisSession
  <2>16. QED
    BY <2>8, <2>9, <2>10, <2>11, <2>12, <2>13, <2>14, <2>15 DEF Inv
<1>3. QED
  BY <1>1, <1>2

LEMMA SubscribeInv ==
  ASSUME Inv, Subscribe
  PROVE  Inv'
<1>1. TypeOK'
  <2>1. main.payload \in PayLoad
    BY DEF Inv, MainInv, Subscribe
  <2>2. [task[main.payload] EXCEPT !.subscribed = TRUE] \in Task
    BY <2>1 DEF Inv, TypeOK, Task
  <2>3. [main EXCEPT !.pc = "add"] \in Excel
    BY DEF Inv, TypeOK, Excel
  <2>4. QED
    BY <2>1, <2>2, <2>3 DEF Inv, TypeOK, Subscribe
<1>2. MainInv'
  BY TopicAssumption, TimeAssumption
     DEF Inv, Subscribe, TypeOK, Task, Callback, Excel, MainInv, Keys,
         CallbackInv, Idle, NoTask, Resting
<1>3. CallbackInv'
  BY TopicAssumption, TimeAssumption
     DEF Inv, Subscribe, TypeOK, Task, Callback, Excel, MainInv, CallbackInv,
         Idle, NoTask, Resting
<1>4. NoOrphans'
  BY TopicAssumption, TimeAssumption
     DEF Inv, Subscribe, TypeOK, Task, Callback, Excel, MainInv, CallbackInv,
         NoOrphans, Range, Idle, NoTask, Resting
<1>5. SessionInv'
  BY TopicAssumption, TimeAssumption
     DEF Inv, Subscribe, TypeOK, Time, Task, Callback, Excel, MainInv,
         CallbackInv, NoOrphans, SessionInv, Live, Keys, Idle, NoTask, Resting
<1>6. NewcomerInv'
  BY TopicAssumption, TimeAssumption
     DEF Inv, Subscribe, TypeOK, Task, Callback, Excel, MainInv, CallbackInv,
         NewcomerInv, Announced, Keys, Idle, NoTask, Resting
<1>7. Announced'
  BY TopicAssumption, TimeAssumption
     DEF Inv, Subscribe, TypeOK, Task, Callback, Excel, MainInv, CallbackInv,
         NewcomerInv, Announced, Keys, Idle, NoTask, Resting
<1>8. ThisSession'
  BY TopicAssumption, TimeAssumption
     DEF Inv, Subscribe, TypeOK, Time, Task, Callback, Excel, MainInv,
         SessionInv, ThisSession, Idle, NoTask, Resting
<1>9. QED
  BY <1>1, <1>2, <1>3, <1>4, <1>5, <1>6, <1>7, <1>8 DEF Inv

\* The newcomer's updates are announced, or had no listener.
LEMMA AddTaskInv ==
  ASSUME Inv, AddTask
  PROVE  Inv'
<1>1. TypeOK'
  <2>1. main.topic \in Topic /\ main.payload \in PayLoad
    BY DEF Inv, MainInv, AddTask
  <2>2. Idle \in Excel
    BY TimeAssumption DEF Idle, Excel, Time
  <2>3. now \in Time /\ Time \subseteq Nat
    BY DEF Inv, TypeOK, Time
  <2>4. QED
    BY <2>1, <2>2, <2>3 DEF Inv, TypeOK, AddTask
<1>2. MainInv'
  BY TopicAssumption, TimeAssumption
     DEF Inv, AddTask, TypeOK, Task, Callback, Excel, MainInv, Keys,
         CallbackInv, Idle, NoTask, Resting
<1>3. CallbackInv'
  BY TopicAssumption, TimeAssumption
     DEF Inv, AddTask, TypeOK, Task, Callback, Excel, MainInv, CallbackInv,
         Idle, NoTask, Resting
<1>4. NoOrphans'
  BY TopicAssumption, TimeAssumption
     DEF Inv, AddTask, TypeOK, Task, Callback, Excel, MainInv, CallbackInv,
         NoOrphans, Range, Idle, NoTask, Resting
<1>5. SessionInv'
  BY TopicAssumption, TimeAssumption
     DEF Inv, AddTask, TypeOK, Time, Task, Callback, Excel, MainInv,
         CallbackInv, NoOrphans, SessionInv, Live, Keys, Idle, NoTask, Resting
<1>6. NewcomerInv'
  BY TopicAssumption, TimeAssumption
     DEF Inv, AddTask, TypeOK, Task, Callback, Excel, MainInv, CallbackInv,
         NewcomerInv, Announced, Keys, Idle, NoTask, Resting
<1>7. Announced'
  BY TopicAssumption, TimeAssumption
     DEF Inv, AddTask, TypeOK, Task, Callback, Excel, MainInv, CallbackInv,
         NewcomerInv, Announced, Keys, Idle, NoTask, Resting
<1>8. ThisSession'
  BY TopicAssumption, TimeAssumption
     DEF Inv, AddTask, TypeOK, Time, Task, Callback, Excel, MainInv,
         SessionInv, ThisSession, Idle, NoTask, Resting
<1>9. QED
  BY <1>1, <1>2, <1>3, <1>4, <1>5, <1>6, <1>7, <1>8 DEF Inv

LEMMA DisconnectDataInv ==
  ASSUME NEW t \in Topic, Inv, DisconnectData(t)
  PROVE  Inv'
<1>1. TypeOK'
  BY TopicAssumption, TimeAssumption
     DEF Inv, DisconnectData, TypeOK, Time, Task, Callback, Excel, Idle,
         NoTask, Resting
<1>2. MainInv'
  BY TopicAssumption, TimeAssumption
     DEF Inv, DisconnectData, TypeOK, Task, Callback, Excel, MainInv, Keys,
         CallbackInv, Idle, NoTask, Resting
<1>3. CallbackInv'
  BY TopicAssumption, TimeAssumption
     DEF Inv, DisconnectData, TypeOK, Task, Callback, Excel, MainInv,
         CallbackInv, Idle, NoTask, Resting
<1>4. NoOrphans'
  BY TopicAssumption, TimeAssumption
     DEF Inv, DisconnectData, TypeOK, Task, Callback, Excel, MainInv,
         CallbackInv, NoOrphans, Range, Idle, NoTask, Resting
<1>5. SessionInv'
  BY TopicAssumption, TimeAssumption
     DEF Inv, DisconnectData, TypeOK, Time, Task, Callback, Excel, MainInv,
         CallbackInv, NoOrphans, SessionInv, Live, Keys, Idle, NoTask, Resting
<1>6. NewcomerInv'
  BY TopicAssumption, TimeAssumption
     DEF Inv, DisconnectData, TypeOK, Task, Callback, Excel, MainInv,
         CallbackInv, NewcomerInv, Announced, Keys, Idle, NoTask, Resting
<1>7. Announced'
  BY TopicAssumption, TimeAssumption
     DEF Inv, DisconnectData, TypeOK, Task, Callback, Excel, MainInv,
         CallbackInv, NewcomerInv, Announced, Keys, Idle, NoTask, Resting
<1>8. ThisSession'
  BY TopicAssumption, TimeAssumption
     DEF Inv, DisconnectData, TypeOK, Time, Task, Callback, Excel, MainInv,
         SessionInv, ThisSession, Idle, NoTask, Resting
<1>9. QED
  BY <1>1, <1>2, <1>3, <1>4, <1>5, <1>6, <1>7, <1>8 DEF Inv

\* Excel will look at every key.
LEMMA RefreshDataInv ==
  ASSUME Inv, RefreshData
  PROVE  Inv'
<1>1. TypeOK'
  <2>1. 0 \in Time
    BY TimeAssumption DEF Time
  <2>2. Idle \in Excel /\ Keys \subseteq Topic
    BY <2>1 DEF Idle, Excel, Keys
  <2>3. [Idle EXCEPT !.pc = "refresh", !.todo = Keys] \in Excel
    BY <2>2 DEF Excel
  <2>4. QED
    BY <2>3 DEF Inv, TypeOK, RefreshData
<1>2. MainInv'
  BY TopicAssumption, TimeAssumption
     DEF Inv, RefreshData, TypeOK, Task, Callback, Excel, MainInv, Keys,
         CallbackInv, Idle, NoTask, Resting
<1>3. CallbackInv'
  BY TopicAssumption, TimeAssumption
     DEF Inv, RefreshData, TypeOK, Task, Callback, Excel, MainInv,
         CallbackInv, Idle, NoTask, Resting
<1>4. NoOrphans'
  BY TopicAssumption, TimeAssumption
     DEF Inv, RefreshData, TypeOK, Task, Callback, Excel, MainInv,
         CallbackInv, NoOrphans, Range, Idle, NoTask, Resting
<1>5. SessionInv'
  BY TopicAssumption, TimeAssumption
     DEF Inv, RefreshData, TypeOK, Time, Task, Callback, Excel, MainInv,
         CallbackInv, NoOrphans, SessionInv, Live, Keys, Idle, NoTask, Resting
<1>6. NewcomerInv'
  BY TopicAssumption, TimeAssumption
     DEF Inv, RefreshData, TypeOK, Task, Callback, Excel, MainInv,
         CallbackInv, NewcomerInv, Announced, Keys, Idle, NoTask, Resting
<1>7. Announced'
  BY TopicAssumption, TimeAssumption
     DEF Inv, RefreshData, TypeOK, Task, Callback, Excel, MainInv,
         CallbackInv, NewcomerInv, Announced, Keys, Idle, NoTask, Resting
<1>8. ThisSession'
  BY TopicAssumption, TimeAssumption
     DEF Inv, RefreshData, TypeOK, Time, Task, Callback, Excel, MainInv,
         SessionInv, ThisSession, Idle, NoTask, Resting
<1>9. QED
  BY <1>1, <1>2, <1>3, <1>4, <1>5, <1>6, <1>7, <1>8 DEF Inv

LEMMA VisitInv ==
  ASSUME NEW t \in Topic, Inv, Visit(t)
  PROVE  Inv'
<1>1. TypeOK'
  <2>1. taskMap[t] \in PayLoad
    BY DEF Inv, TypeOK, MainInv, Visit, Keys
  <2>2. task[taskMap[t]].result \in Time /\ main.todo \subseteq Topic
    BY <2>1 DEF Inv, TypeOK, Task, Excel
  <2>3. /\ [main EXCEPT !.todo = @ \ {t}] \in Excel
        /\ [main EXCEPT !.pc = "reset", !.topic = t, !.todo = @ \ {t},
                        !.result = task[taskMap[t]].result] \in Excel
    BY <2>2 DEF Inv, TypeOK, Excel
  <2>4. QED
    BY <2>3 DEF Inv, TypeOK, Visit
<1>2. MainInv'
  BY TopicAssumption, TimeAssumption
     DEF Inv, Visit, TypeOK, Task, Callback, Excel, MainInv, Keys,
         CallbackInv, Idle, NoTask, Resting
<1>3. CallbackInv'
  BY TopicAssumption, TimeAssumption
     DEF Inv, Visit, TypeOK, Task, Callback, Excel, MainInv, CallbackInv,
         Idle, NoTask, Resting
<1>4. NoOrphans'
  BY TopicAssumption, TimeAssumption
     DEF Inv, Visit, TypeOK, Task, Callback, Excel, MainInv, CallbackInv,
         NoOrphans, Range, Idle, NoTask, Resting
<1>5. SessionInv'
  BY TopicAssumption, TimeAssumption
     DEF Inv, Visit, TypeOK, Time, Task, Callback, Excel, MainInv,
         CallbackInv, NoOrphans, SessionInv, Live, Keys, Idle, NoTask, Resting
<1>6. NewcomerInv'
  BY TopicAssumption, TimeAssumption
     DEF Inv, Visit, TypeOK, Task, Callback, Excel, MainInv, CallbackInv,
         NewcomerInv, Announced, Keys, Idle, NoTask, Resting
<1>7. Announced'
  BY TopicAssumption, TimeAssumption
     DEF Inv, Visit, TypeOK, Task, Callback, Excel, MainInv, CallbackInv,
         NewcomerInv, Announced, Keys, Idle, NoTask, Resting
<1>8. ThisSession'
  BY TopicAssumption, TimeAssumption
     DEF Inv, Visit, TypeOK, Time, Task, Callback, Excel, MainInv, SessionInv,
         ThisSession, Idle, NoTask, Resting
<1>9. QED
  BY <1>1, <1>2, <1>3, <1>4, <1>5, <1>6, <1>7, <1>8 DEF Inv

\* What is collected is a result of this session.
LEMMA CollectInv ==
  ASSUME Inv, Collect
  PROVE  Inv'
<1>1. TypeOK'
  <2>1. main.topic \in Topic /\ taskMap[main.topic] \in PayLoad
    BY DEF Inv, TypeOK, MainInv, Collect, Keys
  <2>2. [task[taskMap[main.topic]] EXCEPT !.IsUpdated = FALSE] \in Task
    BY <2>1 DEF Inv, TypeOK, Task
  <2> DEFINE next == [main EXCEPT !.pc = "refresh", !.topic = None, !.result = 0]
  <2>3. next \in Excel
    <3>1. 0 \in Time
      BY TimeAssumption DEF Time
    <3>2. QED
      BY <3>1 DEF Inv, TypeOK, Excel
  <2>4. main.result \in Time /\ 0 \in Time
    BY TimeAssumption DEF Inv, TypeOK, Excel, Time
  <2>5. task' \in [PayLoad -> Task]
    BY <2>1, <2>2 DEF Inv, TypeOK, Collect
  <2>6. shown' \in [Topic -> Time]
    BY <2>4 DEF Inv, TypeOK, Collect
  <2>7. main' \in Excel
    BY <2>3 DEF Collect
  <2>8. QED
    BY <2>5, <2>6, <2>7 DEF Inv, TypeOK, Collect
<1>2. MainInv'
  BY TopicAssumption, TimeAssumption
     DEF Inv, Collect, TypeOK, Task, Callback, Excel, MainInv, Keys,
         CallbackInv, Idle, NoTask, Resting
<1>3. CallbackInv'
  BY TopicAssumption, TimeAssumption
     DEF Inv, Collect, TypeOK, Task, Callback, Excel, MainInv, CallbackInv,
         Idle, NoTask, Resting
<1>4. NoOrphans'
  BY TopicAssumption, TimeAssumption
     DEF Inv, Collect, TypeOK, Task, Callback, Excel, MainInv, CallbackInv,
         NoOrphans, Range, Idle, NoTask, Resting
<1>5. SessionInv'
  BY TopicAssumption, TimeAssumption
     DEF Inv, Collect, TypeOK, Time, Task, Callback, Excel, MainInv,
         CallbackInv, NoOrphans, SessionInv, Live, Keys, Idle, NoTask, Resting
<1>6. NewcomerInv'
  BY TopicAssumption, TimeAssumption
     DEF Inv, Collect, TypeOK, Task, Callback, Excel, MainInv, CallbackInv,
         NewcomerInv, Announced, Keys, Idle, NoTask, Resting
<1>7. Announced'
  BY TopicAssumption, TimeAssumption
     DEF Inv, Collect, TypeOK, Task, Callback, Excel, MainInv, CallbackInv,
         NewcomerInv, Announced, Keys, Idle, NoTask, Resting
<1>8. ThisSession'
  BY TopicAssumption, TimeAssumption
     DEF Inv, Collect, TypeOK, Time, Task, Callback, Excel, MainInv,
         SessionInv, ThisSession, Idle, NoTask, Resting
<1>9. QED
  BY <1>1, <1>2, <1>3, <1>4, <1>5, <1>6, <1>7, <1>8 DEF Inv

LEMMA EndRefreshInv ==
  ASSUME Inv, EndRefresh
  PROVE  Inv'
<1>1. TypeOK'
  BY TopicAssumption, TimeAssumption
     DEF Inv, EndRefresh, TypeOK, Time, Task, Callback, Excel, Idle, NoTask,
         Resting
<1>2. MainInv'
  BY TopicAssumption, TimeAssumption
     DEF Inv, EndRefresh, TypeOK, Task, Callback, Excel, MainInv, Keys,
         CallbackInv, Idle, NoTask, Resting
<1>3. CallbackInv'
  BY TopicAssumption, TimeAssumption
     DEF Inv, EndRefresh, TypeOK, Task, Callback, Excel, MainInv, CallbackInv,
         Idle, NoTask, Resting
<1>4. NoOrphans'
  BY TopicAssumption, TimeAssumption
     DEF Inv, EndRefresh, TypeOK, Task, Callback, Excel, MainInv, CallbackInv,
         NoOrphans, Range, Idle, NoTask, Resting
<1>5. SessionInv'
  BY TopicAssumption, TimeAssumption
     DEF Inv, EndRefresh, TypeOK, Time, Task, Callback, Excel, MainInv,
         CallbackInv, NoOrphans, SessionInv, Live, Keys, Idle, NoTask, Resting
<1>6. NewcomerInv'
  BY TopicAssumption, TimeAssumption
     DEF Inv, EndRefresh, TypeOK, Task, Callback, Excel, MainInv, CallbackInv,
         NewcomerInv, Announced, Keys, Idle, NoTask, Resting
<1>7. Announced'
  BY TopicAssumption, TimeAssumption
     DEF Inv, EndRefresh, TypeOK, Task, Callback, Excel, MainInv, CallbackInv,
         NewcomerInv, Announced, Keys, Idle, NoTask, Resting
<1>8. ThisSession'
  BY TopicAssumption, TimeAssumption
     DEF Inv, EndRefresh, TypeOK, Time, Task, Callback, Excel, MainInv,
         SessionInv, ThisSession, Idle, NoTask, Resting
<1>9. QED
  BY <1>1, <1>2, <1>3, <1>4, <1>5, <1>6, <1>7, <1>8 DEF Inv

LEMMA ElapsedInv ==
  ASSUME NEW p \in PayLoad, NEW h \in Thread, Inv, Elapsed(p, h)
  PROVE  Inv'
<1>1. TypeOK'
  BY TopicAssumption, TimeAssumption
     DEF Inv, Elapsed, TypeOK, Time, Task, Callback, Excel, Idle, NoTask,
         Resting
<1>2. MainInv'
  BY TopicAssumption, TimeAssumption
     DEF Inv, Elapsed, TypeOK, Task, Callback, Excel, MainInv, Keys,
         CallbackInv, Idle, NoTask, Resting
<1>3. CallbackInv'
  BY TopicAssumption, TimeAssumption
     DEF Inv, Elapsed, TypeOK, Task, Callback, Excel, MainInv, CallbackInv,
         Idle, NoTask, Resting
<1>4. NoOrphans'
  BY TopicAssumption, TimeAssumption
     DEF Inv, Elapsed, TypeOK, Task, Callback, Excel, MainInv, CallbackInv,
         NoOrphans, Range, Idle, NoTask, Resting
<1>5. SessionInv'
  BY TopicAssumption, TimeAssumption
     DEF Inv, Elapsed, TypeOK, Time, Task, Callback, Excel, MainInv,
         CallbackInv, NoOrphans, SessionInv, Live, Keys, Idle, NoTask, Resting
<1>6. NewcomerInv'
  BY TopicAssumption, TimeAssumption
     DEF Inv, Elapsed, TypeOK, Task, Callback, Excel, MainInv, CallbackInv,
         NewcomerInv, Announced, Keys, Idle, NoTask, Resting
<1>7. Announced'
  BY TopicAssumption, TimeAssumption
     DEF Inv, Elapsed, TypeOK, Task, Callback, Excel, MainInv, CallbackInv,
         NewcomerInv, Announced, Keys, Idle, NoTask, Resting
<1>8. ThisSession'
  BY TopicAssumption, TimeAssumption
     DEF Inv, Elapsed, TypeOK, Time, Task, Callback, Excel, MainInv,
         SessionInv, ThisSession, Idle, NoTask, Resting
<1>9. QED
  BY <1>1, <1>2, <1>3, <1>4, <1>5, <1>6, <1>7, <1>8 DEF Inv

LEMMA StoreResultInv ==
  ASSUME NEW h \in Thread, Inv, StoreResult(h)
  PROVE  Inv'
<1>1. TypeOK'
  <2>1. thread[h].payload \in PayLoad /\ thread[h].value \in Time
    BY DEF Inv, TypeOK, CallbackInv, Callback, StoreResult
  <2>2. [task[thread[h].payload] EXCEPT !.result = thread[h].value] \in Task
    BY <2>1 DEF Inv, TypeOK, Task
  <2>3. [thread[h] EXCEPT !.pc = "raise"] \in Callback
    BY DEF Inv, TypeOK, Callback
  <2>4. QED
    BY <2>1, <2>2, <2>3 DEF Inv, TypeOK, StoreResult
<1>2. MainInv'
  BY TopicAssumption, TimeAssumption
     DEF Inv, StoreResult, TypeOK, Task, Callback, Excel, MainInv, Keys,
         CallbackInv, Idle, NoTask, Resting
<1>3. CallbackInv'
  BY TopicAssumption, TimeAssumption
     DEF Inv, StoreResult, TypeOK, Task, Callback, Excel, MainInv,
         CallbackInv, Idle, NoTask, Resting
<1>4. NoOrphans'
  BY TopicAssumption, TimeAssumption
     DEF Inv, StoreResult, TypeOK, Task, Callback, Excel, MainInv,
         CallbackInv, NoOrphans, Range, Idle, NoTask, Resting
<1>5. SessionInv'
  BY TopicAssumption, TimeAssumption
     DEF Inv, StoreResult, TypeOK, Time, Task, Callback, Excel, MainInv,
         CallbackInv, NoOrphans, SessionInv, Live, Keys, Idle, NoTask, Resting
<1>6. NewcomerInv'
  BY TopicAssumption, TimeAssumption
     DEF Inv, StoreResult, TypeOK, Task, Callback, Excel, MainInv,
         CallbackInv, NewcomerInv, Announced, Keys, Idle, NoTask, Resting
<1>7. Announced'
  BY TopicAssumption, TimeAssumption
     DEF Inv, StoreResult, TypeOK, Task, Callback, Excel, MainInv,
         CallbackInv, NewcomerInv, Announced, Keys, Idle, NoTask, Resting
<1>8. ThisSession'
  BY TopicAssumption, TimeAssumption
     DEF Inv, StoreResult, TypeOK, Time, Task, Callback, Excel, MainInv,
         SessionInv, ThisSession, Idle, NoTask, Resting
<1>9. QED
  BY <1>1, <1>2, <1>3, <1>4, <1>5, <1>6, <1>7, <1>8 DEF Inv

LEMMA RaiseFlagInv ==
  ASSUME NEW h \in Thread, Inv, RaiseFlag(h)
  PROVE  Inv'
<1>1. TypeOK'
  <2>1. thread[h].payload \in PayLoad
    BY DEF Inv, TypeOK, CallbackInv, Callback, RaiseFlag
  <2>2. [task[thread[h].payload] EXCEPT !.IsUpdated = TRUE] \in Task
    BY <2>1 DEF Inv, TypeOK, Task
  <2>3. [thread[h] EXCEPT !.pc = "complete"] \in Callback
    BY DEF Inv, TypeOK, Callback
  <2>4. QED
    BY <2>1, <2>2, <2>3 DEF Inv, TypeOK, RaiseFlag
<1>2. MainInv'
  BY TopicAssumption, TimeAssumption
     DEF Inv, RaiseFlag, TypeOK, Task, Callback, Excel, MainInv, Keys,
         CallbackInv, Idle, NoTask, Resting
<1>3. CallbackInv'
  BY TopicAssumption, TimeAssumption
     DEF Inv, RaiseFlag, TypeOK, Task, Callback, Excel, MainInv, CallbackInv,
         Idle, NoTask, Resting
<1>4. NoOrphans'
  BY TopicAssumption, TimeAssumption
     DEF Inv, RaiseFlag, TypeOK, Task, Callback, Excel, MainInv, CallbackInv,
         NoOrphans, Range, Idle, NoTask, Resting
<1>5. SessionInv'
  BY TopicAssumption, TimeAssumption
     DEF Inv, RaiseFlag, TypeOK, Time, Task, Callback, Excel, MainInv,
         CallbackInv, NoOrphans, SessionInv, Live, Keys, Idle, NoTask, Resting
<1>6. NewcomerInv'
  BY TopicAssumption, TimeAssumption
     DEF Inv, RaiseFlag, TypeOK, Task, Callback, Excel, MainInv, CallbackInv,
         NewcomerInv, Announced, Keys, Idle, NoTask, Resting
<1>7. Announced'
  BY TopicAssumption, TimeAssumption
     DEF Inv, RaiseFlag, TypeOK, Task, Callback, Excel, MainInv, CallbackInv,
         NewcomerInv, Announced, Keys, Idle, NoTask, Resting
<1>8. ThisSession'
  BY TopicAssumption, TimeAssumption
     DEF Inv, RaiseFlag, TypeOK, Time, Task, Callback, Excel, MainInv,
         SessionInv, ThisSession, Idle, NoTask, Resting
<1>9. QED
  BY <1>1, <1>2, <1>3, <1>4, <1>5, <1>6, <1>7, <1>8 DEF Inv

\* The one who completes tells Excel, or nobody listens.
LEMMA OnCompleteInv ==
  ASSUME NEW h \in Thread, Inv, OnComplete(h)
  PROVE  Inv'
<1>1. TypeOK'
  <2>1. thread[h].payload \in PayLoad
    BY DEF Inv, TypeOK, CallbackInv, Callback, OnComplete
  <2>2. Resting \in Callback
    BY TimeAssumption DEF Resting, Callback, Time
  <2>3. QED
    BY <2>1, <2>2 DEF Inv, TypeOK, OnComplete
<1>2. MainInv'
  BY TopicAssumption, TimeAssumption
     DEF Inv, OnComplete, TypeOK, Task, Callback, Excel, MainInv, Keys,
         CallbackInv, Idle, NoTask, Resting
<1>3. CallbackInv'
  BY TopicAssumption, TimeAssumption
     DEF Inv, OnComplete, TypeOK, Task, Callback, Excel, MainInv, CallbackInv,
         Idle, NoTask, Resting
<1>4. NoOrphans'
  BY TopicAssumption, TimeAssumption
     DEF Inv, OnComplete, TypeOK, Task, Callback, Excel, MainInv, CallbackInv,
         NoOrphans, Range, Idle, NoTask, Resting
<1>5. SessionInv'
  BY TopicAssumption, TimeAssumption
     DEF Inv, OnComplete, TypeOK, Time, Task, Callback, Excel, MainInv,
         CallbackInv, NoOrphans, SessionInv, Live, Keys, Idle, NoTask, Resting
<1>6. NewcomerInv'
  BY TopicAssumption, TimeAssumption
     DEF Inv, OnComplete, TypeOK, Task, Callback, Excel, MainInv, CallbackInv,
         NewcomerInv, Announced, Keys, Idle, NoTask, Resting
<1>7. Announced'
  BY TopicAssumption, TimeAssumption
     DEF Inv, OnComplete, TypeOK, Task, Callback, Excel, MainInv, CallbackInv,
         NewcomerInv, Announced, Keys, Idle, NoTask, Resting
<1>8. ThisSession'
  BY TopicAssumption, TimeAssumption
     DEF Inv, OnComplete, TypeOK, Time, Task, Callback, Excel, MainInv,
         SessionInv, ThisSession, Idle, NoTask, Resting
<1>9. QED
  BY <1>1, <1>2, <1>3, <1>4, <1>5, <1>6, <1>7, <1>8 DEF Inv

LEMMA TickInv ==
  ASSUME Inv, Tick
  PROVE  Inv'
<1>1. TypeOK'
  BY TopicAssumption, TimeAssumption
     DEF Inv, Tick, TypeOK, Time, Task, Callback, Excel, Idle, NoTask, Resting
<1>2. MainInv'
  BY TopicAssumption, TimeAssumption
     DEF Inv, Tick, TypeOK, Task, Callback, Excel, MainInv, Keys, CallbackInv,
         Idle, NoTask, Resting
<1>3. CallbackInv'
  BY TopicAssumption, TimeAssumption
     DEF Inv, Tick, TypeOK, Task, Callback, Excel, MainInv, CallbackInv, Idle,
         NoTask, Resting
<1>4. NoOrphans'
  BY TopicAssumption, TimeAssumption
     DEF Inv, Tick, TypeOK, Task, Callback, Excel, MainInv, CallbackInv,
         NoOrphans, Range, Idle, NoTask, Resting
<1>5. SessionInv'
  BY TopicAssumption, TimeAssumption
     DEF Inv, Tick, TypeOK, Time, Task, Callback, Excel, MainInv, CallbackInv,
         NoOrphans, SessionInv, Live, Keys, Idle, NoTask, Resting
<1>6. NewcomerInv'
  BY TopicAssumption, TimeAssumption
     DEF Inv, Tick, TypeOK, Task, Callback, Excel, MainInv, CallbackInv,
         NewcomerInv, Announced, Keys, Idle, NoTask, Resting
<1>7. Announced'
  BY TopicAssumption, TimeAssumption
     DEF Inv, Tick, TypeOK, Task, Callback, Excel, MainInv, CallbackInv,
         NewcomerInv, Announced, Keys, Idle, NoTask, Resting
<1>8. ThisSession'
  BY TopicAssumption, TimeAssumption
     DEF Inv, Tick, TypeOK, Time, Task, Callback, Excel, MainInv, SessionInv,
         ThisSession, Idle, NoTask, Resting
<1>9. QED
  BY <1>1, <1>2, <1>3, <1>4, <1>5, <1>6, <1>7, <1>8 DEF Inv

(***************************************************************************)
(* The inductive invariant holds of every session, whatever callbacks of   *)
(* earlier ones are still under way.                                       *)
(***************************************************************************)
THEOREM InvHolds == Spec => []Inv
<1>1. Inv /\ [Next]_vars => Inv'
  <2> SUFFICES ASSUME Inv, [Next]_vars PROVE Inv'
    OBVIOUS
  <2>1. CASE ServerStart \/ ServerTerminate \/ RefreshData
    BY <2>1, ServerStartInv, ServerTerminateInv, RefreshDataInv
  <2>2. CASE Subscribe \/ AddTask \/ Collect \/ EndRefresh
    BY <2>2, SubscribeInv, AddTaskInv, CollectInv, EndRefreshInv
  <2>3. CASE \E t \in Topic : ConnectData(t) \/ DisconnectData(t) \/ Visit(t)
    BY <2>3, ConnectDataInv, DisconnectDataInv, VisitInv
  <2>4. CASE \E p \in PayLoad : \E h \in Thread : Elapsed(p, h)
    BY <2>4, ElapsedInv
  <2>5. CASE \E h \in Thread : StoreResult(h) \/ RaiseFlag(h) \/ OnComplete(h)
    BY <2>5, StoreResultInv, RaiseFlagInv, OnCompleteInv
  <2>6. CASE Tick
    BY <2>6, TickInv
  <2>7. CASE UNCHANGED vars
    BY <2>7 DEF vars, Inv, TypeOK, MainInv, CallbackInv, NoOrphans, SessionInv,
                NewcomerInv, Announced, ThisSession, Live, Keys
  <2>8. QED
    BY <2>1, <2>2, <2>3, <2>4, <2>5, <2>6, <2>7 DEF Next
<1>2. QED
  BY <1>1, InitInv, PTL DEF Spec

\* The dictionary, the payloads and both kinds of threads keep their types.
THEOREM TypeCorrect == Spec => []TypeOK
BY InvHolds, PTL DEF Inv

\* ServerTerminate stops every timer: none ticks for a topic that has another.
THEOREM NoTimerLeft == Spec => []NoOrphans
BY InvHolds, PTL DEF Inv

\* No update waits to be collected without Excel knowing or coming to know.
THEOREM UpdatesAnnounced == Spec => []Announced
BY InvHolds, PTL DEF Inv

\* No cell shows a time from an earlier session.
THEOREM CellsOfThisSession == Spec => []ThisSession
BY InvHolds, PTL DEF Inv

=============================================================================

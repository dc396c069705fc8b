----------------------------- MODULE TasksPage -----------------------------
(***************************************************************************)
(* The Tasks page of a volume (TasksController.js) and one task.  The      *)
(* server saves the task's record and sends notifications of its progress, *)
(* the browser mirrors the record from the answers to its GETs, from the   *)
(* notifications and from timers, none of which are ordered among each     *)
(* other: the broker sends through a pool of threads.                      *)
(***************************************************************************)
EXTENDS Naturals, Sequences, Bags

CONSTANTS
  Kinds,        \* the kinds of tasks considered
  MaxPages,     \* bound on how often the page is opened, for each kind
  MaxExtras     \* bound on clicks, rejections, failed requests and lost connections, together

ASSUME KindAssumption == Kinds \subseteq {"backup", "restore", "delete"}
ASSUME PageAssumption == MaxPages \in [Kinds -> Nat]

VARIABLES
  todo,       \* what the executor has still to save and to tell
  executor,   \* the kind of its task, the status of its copy of the entry, whether the task is
              \* in canceledTasks, and whether the executor "runs", or "cleans" once it has
              \* failed or noticed a cancel
  record,     \* the status in the Tasks table, "absent" when there is no record
  wire,       \* notifications on their way to the browser, a bag
  connected,  \* the subscription of app.js: "no", "yes" or "lost"
  page,       \* how often the page was opened; it is open unless it is 0
  tasks,      \* $scope.tasks: the statuses of the rows for the task
  timeouts,   \* $timeout updates for rows that are still shown
  requests,   \* requests on their way to the server, of this page and of earlier ones, a bag
  answers,    \* answers on their way back, in the order in which the server gave them
  isLoading,  \* $rootScope.isLoading
  told,       \* history: the browser was told since the record last changed
  mishaps,    \* history: what went wrong since the page was opened
  extras      \* history: clicks, rejections, failed requests, lost connections

server  == <<todo, executor, record>>
browser == <<page, tasks, timeouts, mishaps>>
http    == <<requests, answers>>
vars    == <<server, wire, connected, browser, http, isLoading, told, extras>>

Statuses == {"queued", "waiting", "running", "complete", "canceled", "error"}

-----------------------------------------------------------------------------
(* What executors save (a status), delete and tell, in their order.  The    *)
(* notifications between the first and the last are represented by one.     *)

Save(status) == [op |-> "save", status |-> status]
Delete       == [op |-> "delete"]
Tell(status, progress) == [op |-> "tell", status |-> status, progress |-> progress]

Script(kind) ==
  CASE kind = "backup" ->
         <<Save("waiting"), Tell("running", 50), Save("running"), Save("complete"),
           Tell("running", 100), Save("complete")>>
    [] kind = "restore" ->
         <<Save("waiting"), Save("running"), Tell("running", 50), Tell("running", 100),
           Save("complete")>>
    [] kind = "delete" ->
         <<Tell("running", 50), Save("running"), Save("complete"), Tell("running", 100),
           Save("complete")>>

CleaningAfterCancel(kind) ==
  IF kind = "backup" THEN <<Save(executor.status), Delete, Tell("canceled", 100)>>
                     ELSE <<Save(executor.status), Delete>>

CleaningAfterFailure(kind) ==
  CASE kind = "backup"  -> <<Save(executor.status), Save("error"), Tell("error", 100)>>
    [] kind = "restore" -> <<Save(executor.status), Save("error")>>
    [] kind = "delete"  -> <<Save("error")>>

-----------------------------------------------------------------------------
Init ==
  /\ \E kind \in Kinds :
       /\ todo = Script(kind)
       /\ executor = [kind |-> kind, status |-> "queued", canceled |-> FALSE, pc |-> "runs"]
  /\ record = "queued"
  /\ wire = EmptyBag /\ connected = "no"
  /\ page = 0 /\ tasks = <<>> /\ timeouts = <<>>
  /\ requests = EmptyBag /\ answers = <<>> /\ isLoading = FALSE
  /\ told = TRUE /\ mishaps = {} /\ extras = 0

Extra == extras < MaxExtras /\ extras' = extras + 1

\* The record changes; what the browser was told before is out of date.
SetRecord(status) ==
  /\ record' = status
  /\ told' = (told /\ status = record)

\* A notification reaches the browsers that are connected.
Notify(status, progress) ==
  wire' = IF connected = "yes" THEN wire (+) SetToBag({[status |-> status, progress |-> progress]})
                               ELSE wire

NotStarted == executor.pc = "runs" /\ todo = Script(executor.kind)

\* The executor goes on.  A task that was removed before it starts is passed over.
execute ==
  /\ todo # <<>>
  /\ NotStarted => record = "queued"
  /\ todo' = Tail(todo)
  /\ LET step == Head(todo) IN
     \/ /\ step.op = "save"
        /\ SetRecord(step.status)
        /\ executor' = [executor EXCEPT !.status = step.status]
        /\ UNCHANGED wire
     \/ /\ step.op = "delete"
        /\ SetRecord("absent")
        /\ UNCHANGED <<executor, wire>>
     \/ /\ step.op = "tell"
        /\ Notify(step.status, step.progress)
        /\ told' = (told \/ (step.progress = 100 /\ connected = "yes"))
        /\ UNCHANGED <<executor, record>>
  /\ UNCHANGED <<connected, browser, http, isLoading, extras>>

\* An executor fails, or notices between two steps that its task is canceled.
clean ==
  /\ executor.pc = "runs" /\ ~NotStarted /\ todo # <<>>
  /\ \/ todo' = CleaningAfterFailure(executor.kind)
     \/ /\ executor.kind \in {"backup", "restore"} /\ executor.canceled
        /\ todo' = CleaningAfterCancel(executor.kind)
  /\ executor' = [executor EXCEPT !.pc = "cleans"]
  /\ UNCHANGED <<record, wire, connected, browser, http, isLoading, told, extras>>

-----------------------------------------------------------------------------
(* The connection (app.js)                                                 *)

\* subscribeWS connects once, after the login or when the application is loaded.
subscribeWS ==
  /\ connected = "no"
  /\ connected' = "yes"
  /\ UNCHANGED <<server, wire, browser, http, isLoading, told, extras>>

\* A lost connection is not set up again.
disconnect ==
  /\ connected = "yes" /\ Extra
  /\ connected' = "lost" /\ wire' = EmptyBag
  /\ told' = FALSE
  /\ UNCHANGED <<server, browser, http, isLoading>>

-----------------------------------------------------------------------------
(* The page                                                                *)

\* The page that was opened as the p-th sends a request.
Send(what, p) == requests' = requests (+) SetToBag({[what |-> what, page |-> p]})

\* $scope.refresh
Refresh(p) == Send("get", p) /\ isLoading' = TRUE

openPage ==
  /\ page < MaxPages[executor.kind]
  /\ page' = page + 1
  /\ tasks' = <<>> /\ timeouts' = <<>>
  /\ Refresh(page + 1)
  /\ told' = TRUE /\ mishaps' = {}
  /\ UNCHANGED <<server, wire, connected, answers, extras>>

clickRefresh ==
  /\ page > 0 /\ Extra
  /\ Refresh(page)
  /\ UNCHANGED <<server, wire, connected, browser, answers, told>>

reject ==
  /\ tasks # <<>> /\ Extra
  /\ Send("delete", page)
  /\ UNCHANGED <<server, wire, connected, browser, answers, isLoading, told>>

\* The timer of a row fires; the row may be on its way out.
applyTimeout ==
  /\ timeouts # <<>>
  /\ tasks' = <<Head(timeouts)>>
  /\ timeouts' = Tail(timeouts)
  /\ UNCHANGED <<server, wire, connected, page, http, isLoading, told, mishaps, extras>>

\* Statuses of a row for which a notification makes the page ask the server.
Stale == {"complete", "queued", "waiting"}

\* Deviation: notifications are applied to rows that are complete.
updateTaskStatusOfAny(m) ==
  IF tasks[1] \in {"queued", "waiting"}
    THEN Refresh(page) /\ UNCHANGED timeouts
    ELSE /\ timeouts' = Append(timeouts, m.status)
         /\ IF m.progress = 100 THEN Refresh(page) ELSE UNCHANGED <<requests, isLoading>>

\* Deviation: the page relies on the last notification.
updateTaskStatusOnly(m) ==
  IF tasks[1] \in Stale
    THEN Refresh(page) /\ UNCHANGED timeouts
    ELSE /\ timeouts' = Append(timeouts, m.status)
         /\ UNCHANGED <<requests, isLoading>>

updateTaskStatus(m) ==
  IF tasks[1] \in Stale
    THEN Refresh(page) /\ UNCHANGED timeouts
    ELSE /\ timeouts' = Append(timeouts, m.status)
         /\ IF m.progress = 100 THEN Refresh(page) ELSE UNCHANGED <<requests, isLoading>>

\* A notification arrives; without a row for its task it does nothing to the page.
receive(m) ==
  /\ wire' = wire (-) SetToBag({m})
  /\ IF tasks = <<>>
       THEN UNCHANGED <<timeouts, requests, isLoading>>
       ELSE updateTaskStatus(m)
  /\ mishaps' = IF tasks = <<>> /\ m.progress = 100 THEN mishaps \union {"ignored"} ELSE mishaps
  /\ UNCHANGED <<server, connected, page, tasks, answers, told, extras>>

-----------------------------------------------------------------------------
(* Requests (TaskServiceImpl) and their answers                            *)

\* The rows for the task that a list of the volume's tasks has.
Shown == IF record = "absent" THEN <<>> ELSE <<record>>

\* The server answers the request r; no later answer has come in yet.
Answer(r, rows) ==
  /\ requests' = requests (-) SetToBag({r})
  /\ answers' = Append(answers, [what |-> r.what, page |-> r.page, rows |-> rows, old |-> FALSE])

\* findByRegularAndVolume
getAllTasks(r) ==
  /\ r.what = "get"
  /\ Answer(r, Shown)
  /\ UNCHANGED <<server, wire, connected, browser, isLoading, told, extras>>

\* removeTask cancels what is running and deletes the rest.
removeTask(r) ==
  /\ r.what = "delete"
  /\ Answer(r, <<>>)
  /\ \/ /\ record = "running"
        /\ SetRecord("canceled")
        /\ executor' = [executor EXCEPT !.canceled = TRUE]
        /\ Notify("canceled", 50)
     \/ /\ record # "running"
        /\ SetRecord("absent")
        /\ UNCHANGED <<executor, wire>>
  /\ UNCHANGED <<todo, connected, browser, isLoading, extras>>

\* The i-th answer is taken; those before it that have not come in yet are old from now on.
Take(i) == answers' = [j \in 1..(Len(answers) - 1) |->
                        IF j < i THEN [answers[j] EXCEPT !.old = TRUE] ELSE answers[j + 1]]

\* Deviation: timers find their row by its place.
answerGetKeepsTimeouts(i) ==
  LET a == answers[i] IN
  /\ a.what = "get"
  /\ Take(i)
  /\ isLoading' = FALSE
  /\ IF a.page = page
       THEN /\ tasks' = a.rows
            /\ mishaps' = IF a.old THEN mishaps \union {"overtaken"} ELSE mishaps
       ELSE UNCHANGED <<tasks, mishaps>>
  /\ UNCHANGED <<server, wire, connected, page, timeouts, requests, told, extras>>

\* The answer to a GET replaces the rows of the page that asked.
answerGet(i) ==
  LET a == answers[i] IN
  /\ a.what = "get"
  /\ Take(i)
  /\ isLoading' = FALSE
  /\ IF a.page = page
       THEN /\ tasks' = a.rows /\ timeouts' = <<>>
            /\ mishaps' = IF a.old THEN mishaps \union {"overtaken"} ELSE mishaps
       ELSE UNCHANGED <<tasks, timeouts, mishaps>>
  /\ UNCHANGED <<server, wire, connected, page, requests, told, extras>>

\* A rejection that was served makes the page that asked refresh itself.
answerDelete(i) ==
  /\ answers[i].what = "delete"
  /\ Take(i)
  /\ Refresh(answers[i].page)
  /\ told' = (told \/ answers[i].page = page)
  /\ UNCHANGED <<server, wire, connected, browser, extras>>

\* Deviation: only answers end the loading.
failGetLoading(r) ==
  /\ r.what = "get" /\ Extra
  /\ requests' = requests (-) SetToBag({r})
  /\ mishaps' = IF r.page = page THEN mishaps \union {"failed"} ELSE mishaps
  /\ UNCHANGED <<server, wire, connected, page, tasks, timeouts, answers, isLoading, told>>

\* A GET fails: either the promise is rejected, or a failed query is answered
\* with 204 and no list.
failGet(r) ==
  /\ r.what = "get" /\ Extra
  /\ requests' = requests (-) SetToBag({r})
  /\ isLoading' = FALSE
  /\ IF r.page = page
       THEN /\ \/ UNCHANGED <<tasks, timeouts>>
               \/ tasks' = <<>> /\ timeouts' = <<>>
            /\ mishaps' = mishaps \union {"failed"}
       ELSE UNCHANGED <<tasks, timeouts, mishaps>>
  /\ UNCHANGED <<server, wire, connected, page, answers, told>>

-----------------------------------------------------------------------------
Serve(r)  == getAllTasks(r) \/ removeTask(r)
Return(i) == answerGet(i) \/ answerDelete(i)

Next ==
  \/ execute \/ clean
  \/ subscribeWS \/ disconnect
  \/ openPage \/ clickRefresh \/ reject \/ applyTimeout
  \/ \E m \in BagToSet(wire) : receive(m)
  \/ \E r \in BagToSet(requests) : Serve(r) \/ failGet(r)
  \/ \E i \in 1..Len(answers) : Return(i)

Spec == Init /\ [][Next]_vars

\* Requests are served and answered.
Fairness ==
  /\ WF_vars(\E r \in BagToSet(requests) : Serve(r))
  /\ WF_vars(\E i \in 1..Len(answers) : Return(i))

FairSpec == Spec /\ Fairness

-----------------------------------------------------------------------------
(* Properties                                                              *)

\* The type invariant; the timers that are kept belong to the row that is shown.
TypeOK ==
  /\ record \in Statuses \union {"absent"}
  /\ executor \in [kind : Kinds, status : Statuses, canceled : BOOLEAN, pc : {"runs", "cleans"}]
  /\ connected \in {"no", "yes", "lost"}
  /\ BagToSet(wire) \subseteq [status : {"running", "canceled", "error"}, progress : {50, 100}]
  /\ tasks \in {<<>>} \union {<<status>> : status \in Statuses}
  /\ timeouts # <<>> => tasks # <<>>
  /\ mishaps \subseteq {"ignored", "overtaken", "failed"}
  /\ BagToSet(requests) \subseteq [what : {"get", "delete"}, page : 1..page]
  /\ \A i \in 1..Len(answers) : answers[i].page <= page
  /\ {told, isLoading} \subseteq BOOLEAN

Quiet ==
  /\ page > 0
  /\ todo = <<>> \/ (NotStarted /\ record = "absent")
  /\ wire = EmptyBag /\ requests = EmptyBag /\ answers = <<>> /\ timeouts = <<>>

\* Messages, answers and timers in any order: once all is quiet the page shows the record, if a
\* last notification followed the last change of it and nothing of the following happened: an
\* older answer overtook a newer one, a request failed, or the last notification came before the
\* page had its first rows.  Failed tasks are left out: a late notification revives their row.
ViewCatchesUp ==
  Quiet /\ told /\ mishaps = {} /\ record # "error" => tasks = Shown

\* A page that shows a task as complete, and rightly so, does not go back to show it as running,
\* however late the notifications of its progress are, unless an answer that was read earlier
\* comes later.
CompleteStays ==
  [][record = "complete" /\ tasks = <<"complete">> /\ tasks' = <<"running">>
       => "overtaken" \in mishaps']_vars

\* The page does not load for ever.
LoadingEnds == isLoading ~> ~isLoading
=============================================================================

--------------------------- MODULE TasksPageProofs ---------------------------
(***************************************************************************)
(* What the Tasks page guarantees however often it is opened and however   *)
(* many clicks, failed requests and lost connections there are.            *)
(*                                                                         *)
(* Both properties are about what is still under way.  That a complete row *)
(* does not go back needs that an executor which has completed its task    *)
(* never saves it as running again, so that the answers are in the right   *)
(* order (NoReturn, AnswersOrdered, RowIsCurrent).  That the page catches  *)
(* up needs a pledge: as long as the browser was told of the last change,  *)
(* a request, an answer or a notification that brings it is under way, or  *)
(* it has arrived (Pledged).                                               *)
(***************************************************************************)
EXTENDS TasksPage, SequenceTheorems, TLAPS

-----------------------------------------------------------------------------
(* The invariant                                                           *)

ToldStatuses == {"running", "canceled", "error"}
Rows    == {<<>>} \union {<<status>> : status \in Statuses}
Answers == [what : {"get", "delete"}, page : Nat \ {0}, rows : Rows, old : BOOLEAN]
Steps   == {Save(status) : status \in Statuses} \union {Delete}
           \union {Tell(status, progress) : status \in ToldStatuses, progress \in {50, 100}}

\* What TypeOK leaves open: the queues, the bags and the script.
Typed ==
  /\ TypeOK
  /\ todo \in Seq(Steps)
  /\ timeouts \in Seq(ToldStatuses)
  /\ answers \in Seq(Answers)
  /\ IsABag(wire) /\ IsABag(requests)
  /\ page \in Nat
  /\ page = 0 => tasks = <<>>

Saves(step, statuses) == step.op = "save" /\ step.status \in statuses
Finishes(step) == step.op = "delete" \/ Saves(step, {"complete", "error"})

\* An executor that has not come to the end of its task has still to save it
\* as complete or in error, or to delete it: some step of the script does so,
\* and one follows every save of another status.
HasEnd(script) == \E j \in DOMAIN script : Finishes(script[j])
EndsWell(script) ==
  \A i \in DOMAIN script :
    Saves(script[i], Statuses \ {"complete", "error"}) =>
      \E j \in DOMAIN script : i < j /\ Finishes(script[j])

EndsFinished ==
  /\ record \notin {"complete", "error", "absent"} => HasEnd(todo)
  /\ EndsWell(todo)

\* The task was saved as running for the last time.
NeverSavesRunning(script) == \A i \in DOMAIN script : ~Saves(script[i], {"running"})
Done == executor.status # "running" /\ record # "running" /\ NeverSavesRunning(todo)

\* An executor that is to save its task as complete does not save it as
\* running after that, ...
Ordered(script) ==
  \A i, j \in DOMAIN script :
    i < j /\ Saves(script[i], {"complete"}) => ~Saves(script[j], {"running"})

\* ... so whoever has seen it complete will not see it run again, ...
NoReturn ==
  /\ record = "complete" => Done
  /\ tasks = <<"complete">> => Done
  /\ \A i \in DOMAIN answers : answers[i].rows = <<"complete">> => Done

\* ... the answers come in that order, ...
AnswersOrdered ==
  \A i, j \in DOMAIN answers :
    i < j /\ answers[i].rows = <<"complete">> => answers[j].rows # <<"running">>

\* ... and no timer and no newer answer takes a complete row back.
RowIsCurrent ==
  tasks = <<"complete">> =>
    /\ timeouts = <<>>
    /\ \A j \in DOMAIN answers :
         answers[j].page = page /\ ~answers[j].old => answers[j].rows # <<"running">>

\* An answer to a GET of this page.
ForPage(j) == answers[j].what = "get" /\ answers[j].page = page

\* The browser has still to ask, will be asked to, is being answered or knows.
Asking     == [what |-> "get", page |-> page] \in BagToSet(requests)
Announced  == \E m \in BagToSet(wire) : m.progress = 100
Answering  ==
  \E j \in DOMAIN answers :
    ForPage(j) /\ \A k \in DOMAIN answers : j <= k /\ ForPage(k) => answers[k].rows = Shown
UpToDate   ==
  /\ tasks = Shown /\ timeouts = <<>>
  /\ \A k \in DOMAIN answers : ForPage(k) /\ ~answers[k].old => answers[k].rows = Shown

\* What was told is on its way to the page or shown.
Pledged ==
  page > 0 /\ told /\ mishaps = {} /\ record \in {"complete", "absent"} =>
    Asking \/ Announced \/ Answering \/ UpToDate

IInv ==
  /\ Typed
  /\ EndsFinished /\ Ordered(todo)
  /\ NoReturn /\ AnswersOrdered /\ RowIsCurrent
  /\ Pledged

-----------------------------------------------------------------------------
(* Sequences and bags                                                      *)

\* What is left of a queue keeps its order.
LEMMA TailShifts ==
  ASSUME NEW S, NEW s \in Seq(S), s # <<>>
  PROVE  /\ Tail(s) \in Seq(S)
         /\ 1 \in DOMAIN s /\ Head(s) = s[1] /\ Head(s) \in S
         /\ \A i \in DOMAIN Tail(s) : i \in Nat /\ i + 1 \in DOMAIN s /\ Tail(s)[i] = s[i + 1]
         /\ \A j \in DOMAIN s : j \in Nat /\ (j # 1 => 1 < j /\ j - 1 \in DOMAIN Tail(s))
OBVIOUS

\* What is appended comes last.
LEMMA AppendExtends ==
  ASSUME NEW S, NEW s \in Seq(S), NEW e \in S
  PROVE  /\ Append(s, e) \in Seq(S)
         /\ DOMAIN Append(s, e) = 1..(Len(s) + 1) /\ DOMAIN s = 1..Len(s) /\ Len(s) \in Nat
         /\ \A i \in DOMAIN s : Append(s, e)[i] = s[i]
         /\ Append(s, e)[Len(s) + 1] = e
OBVIOUS

\* A message that is sent joins those under way; ...
LEMMA BagAdds ==
  ASSUME NEW B, IsABag(B), NEW x
  PROVE  /\ IsABag(B (+) SetToBag({x}))
         /\ BagToSet(B (+) SetToBag({x})) = BagToSet(B) \union {x}
BY DEF IsABag, BagToSet, SetToBag, (+)

\* ... one that is received takes no other with it.
LEMMA BagTakes ==
  ASSUME NEW B, IsABag(B), NEW x
  PROVE  /\ IsABag(B (-) SetToBag({x}))
         /\ BagToSet(B (-) SetToBag({x})) \subseteq BagToSet(B)
         /\ BagToSet(B) \ {x} \subseteq BagToSet(B (-) SetToBag({x}))
BY DEF IsABag, BagToSet, SetToBag, (-)

\* Nothing is under way in the empty bag.
LEMMA NoneInEmptyBag == IsABag(EmptyBag) /\ BagToSet(EmptyBag) = {}
BY DEF EmptyBag, IsABag, BagToSet, SetToBag

\* An answer that is taken leaves the others, and makes the earlier ones old.
LEMMA TakeLeaves ==
  ASSUME answers \in Seq(Answers), NEW i \in 1..Len(answers), Take(i)
  PROVE  /\ answers' \in Seq(Answers)
         /\ \A j \in DOMAIN answers' :
              /\ j \in Nat
              /\ j < i  => /\ j \in DOMAIN answers
                           /\ answers'[j] = [answers[j] EXCEPT !.old = TRUE]
              /\ j >= i => j + 1 \in DOMAIN answers /\ answers'[j] = answers[j + 1]
         /\ \A k \in DOMAIN answers :
              /\ k \in Nat
              /\ k < i => k \in DOMAIN answers'
              /\ k > i => k - 1 \in DOMAIN answers'
<1> DEFINE n == Len(answers)
           f == [j \in 1..(n - 1) |->
                   IF j < i THEN [answers[j] EXCEPT !.old = TRUE] ELSE answers[j + 1]]
<1>1. n \in Nat /\ n - 1 \in Nat /\ DOMAIN answers = 1..n /\ \A k \in 1..n : answers[k] \in Answers
  OBVIOUS
<1>2. ASSUME NEW j \in 1..(n - 1)
      PROVE  f[j] \in Answers
  <2>1. answers[j] \in Answers /\ answers[j + 1] \in Answers
    BY <1>1
  <2>2. [answers[j] EXCEPT !.old = TRUE] \in Answers
    BY <2>1 DEF Answers
  <2>3. QED
    BY <2>1, <2>2
<1>3. f \in [1..(n - 1) -> Answers]
  BY <1>2
<1>4. f \in Seq(Answers)
  BY <1>1, <1>3, SeqDef
<1>5. answers' = f
  BY DEF Take
<1>6. QED
  BY <1>1, <1>4, <1>5

-----------------------------------------------------------------------------
(* The scripts                                                             *)

\* What a step of a script is.
LEMMA StepShapes ==
  ASSUME NEW step \in Steps
  PROVE  /\ step.op \in {"save", "delete", "tell"}
         /\ step.op = "save" => step.status \in Statuses
         /\ step.op = "tell" => step.status \in ToldStatuses /\ step.progress \in {50, 100}
BY DEF Steps, Save, Delete, Tell, Statuses, ToldStatuses

\* The steps that the scripts are made of.
LEMMA StepsAre ==
  /\ \A status \in Statuses : Save(status) \in Steps
  /\ Delete \in Steps
  /\ \A status \in ToldStatuses, progress \in {50, 100} : Tell(status, progress) \in Steps
BY DEF Steps

\* Every script is made of steps.
LEMMA ScriptsAreSteps ==
  ASSUME NEW kind \in Kinds, executor.status \in Statuses
  PROVE  /\ Script(kind) \in Seq(Steps)
         /\ CleaningAfterCancel(kind) \in Seq(Steps)
         /\ CleaningAfterFailure(kind) \in Seq(Steps)
<1>1. kind \in {"backup", "restore", "delete"}
  BY KindAssumption DEF KindAssumption
<1>2. /\ \A status \in {"waiting", "running", "complete", "error", executor.status} :
           Save(status) \in Steps
      /\ Delete \in Steps
      /\ \A status \in ToldStatuses, progress \in {50, 100} : Tell(status, progress) \in Steps
  BY StepsAre DEF Statuses
<1>3. Script(kind) \in Seq(Steps)
  BY <1>1, <1>2 DEF Script, ToldStatuses
<1>4. CleaningAfterCancel(kind) \in Seq(Steps)
  BY <1>1, <1>2 DEF CleaningAfterCancel, ToldStatuses
<1>5. CleaningAfterFailure(kind) \in Seq(Steps)
  BY <1>1, <1>2 DEF CleaningAfterFailure, ToldStatuses
<1>6. QED
  BY <1>3, <1>4, <1>5

-----------------------------------------------------------------------------
(* Type correctness                                                        *)

\* The initial state is of its type.
LEMMA InitTyped == Init => Typed
<1> SUFFICES ASSUME Init
             PROVE  Typed
  OBVIOUS
<1>1. PICK kind \in Kinds :
        /\ todo = Script(kind)
        /\ executor = [kind |-> kind, status |-> "queued", canceled |-> FALSE, pc |-> "runs"]
  BY DEF Init
<1>2. todo \in Seq(Steps)
  BY <1>1, ScriptsAreSteps DEF Statuses
<1>3. timeouts \in Seq(ToldStatuses) /\ answers \in Seq(Answers) /\ Len(answers) = 0
  BY DEF Init
<1>4. IsABag(wire) /\ IsABag(requests) /\ BagToSet(wire) = {} /\ BagToSet(requests) = {}
  BY NoneInEmptyBag DEF Init
<1>5. executor \in [kind : Kinds, status : Statuses, canceled : BOOLEAN, pc : {"runs", "cleans"}]
  BY <1>1 DEF Statuses
<1>6. /\ record \in Statuses \union {"absent"} /\ connected \in {"no", "yes", "lost"}
      /\ tasks \in {<<>>} \union {<<status>> : status \in Statuses} /\ timeouts = <<>>
      /\ mishaps \subseteq {"ignored", "overtaken", "failed"} /\ {told, isLoading} \subseteq BOOLEAN
  BY DEF Init, Statuses
<1>7. TypeOK
  BY <1>3, <1>4, <1>5, <1>6 DEF TypeOK
<1>8. QED
  BY <1>2, <1>3, <1>4, <1>7 DEF Init, Typed

\* A notification is kept in the bag, whoever sends it.
LEMMA NotifyTyped ==
  ASSUME Typed, NEW status \in ToldStatuses, NEW progress \in {50, 100}, Notify(status, progress)
  PROVE  /\ IsABag(wire')
         /\ BagToSet(wire') \subseteq [status : ToldStatuses, progress : {50, 100}]
<1> DEFINE m == [status |-> status, progress |-> progress]
<1>1. m \in [status : ToldStatuses, progress : {50, 100}]
  OBVIOUS
<1>2. IsABag(wire) /\ BagToSet(wire) \subseteq [status : ToldStatuses, progress : {50, 100}]
  BY DEF Typed, TypeOK, ToldStatuses
<1>3. wire' = wire \/ wire' = wire (+) SetToBag({m})
  BY DEF Notify
<1> HIDE DEF m
<1>4. /\ IsABag(wire (+) SetToBag({m}))
      /\ BagToSet(wire (+) SetToBag({m})) = BagToSet(wire) \union {m}
  BY <1>2, BagAdds
<1>5. CASE wire' = wire
  BY <1>2, <1>5
<1>6. CASE wire' = wire (+) SetToBag({m})
  BY <1>1, <1>2, <1>4, <1>6
<1>7. QED
  BY <1>3, <1>5, <1>6

\* A request is kept in the bag.
LEMMA SendTyped ==
  ASSUME Typed, NEW what \in {"get", "delete"}, NEW p \in Nat, p # 0, Send(what, p)
  PROVE  /\ IsABag(requests')
         /\ BagToSet(requests') = BagToSet(requests) \union {[what |-> what, page |-> p]}
BY BagAdds DEF Typed, Send

\* Executors and the connection keep the types.
LEMMA ServerTyped ==
  ASSUME Typed, execute \/ clean \/ subscribeWS \/ disconnect
  PROVE  Typed'
<1> USE DEF Typed, TypeOK
<1>1. CASE execute
  <2> DEFINE step == Head(todo)
  <2>1. step \in Steps /\ Tail(todo) \in Seq(Steps)
    BY <1>1, TailShifts DEF execute
  <2>2. todo' \in Seq(Steps) /\ UNCHANGED <<connected, browser, http, isLoading, extras>>
    BY <1>1, <2>1 DEF execute
  <2>3. CASE step.op = "save"
    <3>1. SetRecord(step.status) /\ executor' = [executor EXCEPT !.status = step.status] /\ UNCHANGED wire
      BY <1>1, <2>3 DEF execute
    <3>2. step.status \in Statuses
      BY <2>1, <2>3, StepShapes
    <3>3. QED
      BY <2>2, <3>1, <3>2 DEF SetRecord, browser, http
  <2>4. CASE step.op = "delete"
    <3>1. SetRecord("absent") /\ UNCHANGED <<executor, wire>>
      BY <1>1, <2>4 DEF execute
    <3>2. QED
      BY <2>2, <3>1 DEF SetRecord, browser, http
  <2>5. CASE step.op = "tell"
    <3>1. /\ Notify(step.status, step.progress) /\ UNCHANGED <<executor, record>>
          /\ told' = (told \/ (step.progress = 100 /\ connected = "yes"))
      BY <1>1, <2>5 DEF execute
    <3>2. step.status \in ToldStatuses /\ step.progress \in {50, 100}
      BY <2>1, <2>5, StepShapes
    <3>3. IsABag(wire') /\ BagToSet(wire') \subseteq [status : ToldStatuses, progress : {50, 100}]
      BY <3>1, <3>2, NotifyTyped
    <3>4. told' \in BOOLEAN
      BY <3>1
    <3>5. QED
      BY <2>2, <3>1, <3>3, <3>4 DEF ToldStatuses, browser, http
  <2>6. QED
    BY <2>1, <2>3, <2>4, <2>5, StepShapes
<1>2. CASE clean
  <2>1. executor.kind \in Kinds /\ executor.status \in Statuses
    OBVIOUS
  <2>2. todo' \in Seq(Steps)
    BY <1>2, <2>1, ScriptsAreSteps DEF clean
  <2>3. executor' = [executor EXCEPT !.pc = "cleans"]
        /\ UNCHANGED <<record, wire, connected, browser, http, isLoading, told, extras>>
    BY <1>2 DEF clean
  <2>4. QED
    BY <2>2, <2>3 DEF browser, http
<1>3. CASE subscribeWS
  BY <1>3 DEF subscribeWS, server, browser, http
<1>4. CASE disconnect
  BY <1>4, NoneInEmptyBag DEF disconnect, server, browser, http
<1>5. QED
  BY <1>1, <1>2, <1>3, <1>4

\* Answers that are given keep the types.
LEMMA AnswerTyped ==
  ASSUME Typed, NEW r \in BagToSet(requests), NEW rows \in Rows, Answer(r, rows)
  PROVE  /\ IsABag(requests') /\ BagToSet(requests') \subseteq BagToSet(requests)
         /\ BagToSet(requests) \ {r} \subseteq BagToSet(requests')
         /\ answers' \in Seq(Answers)
         /\ DOMAIN answers' = 1..(Len(answers) + 1) /\ DOMAIN answers = 1..Len(answers)
         /\ Len(answers) \in Nat
         /\ \A j \in DOMAIN answers : answers'[j] = answers[j]
         /\ answers'[Len(answers) + 1] = [what |-> r.what, page |-> r.page, rows |-> rows, old |-> FALSE]
         /\ r.page \in 1..page
<1> DEFINE a == [what |-> r.what, page |-> r.page, rows |-> rows, old |-> FALSE]
<1>1. r \in [what : {"get", "delete"}, page : 1..page] /\ page \in Nat
  BY DEF Typed, TypeOK
<1>2. a \in Answers /\ r.page \in 1..page
  BY <1>1 DEF Answers
<1>3. answers \in Seq(Answers) /\ answers' = Append(answers, a)
  BY DEF Typed, Answer
<1>4. requests' = requests (-) SetToBag({r}) /\ IsABag(requests)
  BY DEF Typed, Answer
<1>5. /\ IsABag(requests') /\ BagToSet(requests') \subseteq BagToSet(requests)
      /\ BagToSet(requests) \ {r} \subseteq BagToSet(requests')
  BY <1>4, BagTakes
<1> HIDE DEF a
<1>6. /\ answers' \in Seq(Answers)
      /\ DOMAIN answers' = 1..(Len(answers) + 1) /\ DOMAIN answers = 1..Len(answers)
      /\ Len(answers) \in Nat
      /\ \A j \in DOMAIN answers : answers'[j] = answers[j]
      /\ answers'[Len(answers) + 1] = a
  BY <1>2, <1>3, AppendExtends
<1>7. QED
  BY <1>2, <1>5, <1>6 DEF a

\* The pages that earlier answers and requests are for were opened.
LEMMA AnswersTyped ==
  ASSUME Typed, NEW r \in BagToSet(requests), NEW rows \in Rows, Answer(r, rows)
  PROVE  \A i \in 1..Len(answers') : answers'[i].page <= page
<1>1. \A i \in 1..Len(answers) : answers[i].page <= page
  BY DEF Typed, TypeOK
<1>2. r.page \in 1..page /\ page \in Nat
  BY DEF Typed, TypeOK
<1> DEFINE n == Len(answers)
<1>3. /\ answers' \in Seq(Answers) /\ n \in Nat
      /\ DOMAIN answers' = 1..(n + 1) /\ DOMAIN answers = 1..n
      /\ \A j \in DOMAIN answers : answers'[j] = answers[j]
      /\ answers'[n + 1] = [what |-> r.what, page |-> r.page, rows |-> rows, old |-> FALSE]
  BY AnswerTyped
<1>4. DOMAIN answers' = 1..Len(answers')
  BY <1>3
<1>5. \A i \in 1..(n + 1) : i \in 1..n \/ i = n + 1
  BY <1>3
<1>6. QED
  BY <1>1, <1>2, <1>3, <1>4, <1>5

\* A row is shown or none.
LEMMA ShownIsRows == Typed => Shown \in Rows
BY DEF Typed, TypeOK, Shown, Rows

\* The server keeps the types.
LEMMA ServeTyped ==
  ASSUME Typed, NEW r \in BagToSet(requests), Serve(r)
  PROVE  Typed'
<1> USE DEF Typed, TypeOK
<1>1. CASE getAllTasks(r)
  <2>1. Answer(r, Shown) /\ UNCHANGED <<server, wire, connected, browser, isLoading, told, extras>>
    BY <1>1 DEF getAllTasks
  <2>2. /\ IsABag(requests') /\ BagToSet(requests') \subseteq BagToSet(requests)
        /\ answers' \in Seq(Answers)
        /\ \A i \in 1..Len(answers') : answers'[i].page <= page
    BY <2>1, AnswerTyped, AnswersTyped, ShownIsRows
  <2>3. QED
    BY <2>1, <2>2 DEF server, browser
<1>2. CASE removeTask(r)
  <2>1. Answer(r, <<>>) /\ UNCHANGED <<todo, connected, browser, isLoading, extras>>
    BY <1>2 DEF removeTask
  <2>2. /\ IsABag(requests') /\ BagToSet(requests') \subseteq BagToSet(requests)
        /\ answers' \in Seq(Answers)
        /\ \A i \in 1..Len(answers') : answers'[i].page <= page
    BY <2>1, AnswerTyped, AnswersTyped DEF Rows
  <2>3. CASE /\ SetRecord("canceled") /\ executor' = [executor EXCEPT !.canceled = TRUE]
             /\ Notify("canceled", 50)
    <3>1. IsABag(wire') /\ BagToSet(wire') \subseteq [status : ToldStatuses, progress : {50, 100}]
      BY <2>3, NotifyTyped DEF ToldStatuses
    <3>2. record' \in Statuses /\ told' \in BOOLEAN
      BY <2>3 DEF SetRecord, Statuses
    <3>3. QED
      BY <2>1, <2>2, <2>3, <3>1, <3>2 DEF browser, ToldStatuses
  <2>4. CASE SetRecord("absent") /\ UNCHANGED <<executor, wire>>
    BY <2>1, <2>2, <2>4 DEF browser, SetRecord
  <2>5. QED
    BY <1>2, <2>3, <2>4 DEF removeTask
<1>3. QED
  BY <1>1, <1>2 DEF Serve

\* A refresh of a page that was opened keeps the types of the requests.
LEMMA RefreshTyped ==
  ASSUME Typed, NEW p \in 1..page, Refresh(p) \/ Send("delete", p)
  PROVE  /\ IsABag(requests')
         /\ BagToSet(requests') \subseteq [what : {"get", "delete"}, page : 1..page]
<1>1. page \in Nat /\ p \in Nat /\ p # 0
  BY DEF Typed
<1>2. PICK what \in {"get", "delete"} : Send(what, p)
  BY DEF Refresh
<1>3. BagToSet(requests') = BagToSet(requests) \union {[what |-> what, page |-> p]} /\ IsABag(requests')
  BY <1>1, <1>2, SendTyped
<1>4. QED
  BY <1>3 DEF Typed, TypeOK

\* Clicks keep the types.
LEMMA ClicksTyped ==
  ASSUME Typed, openPage \/ clickRefresh \/ reject \/ applyTimeout
  PROVE  Typed'
<1> USE DEF Typed, TypeOK
<1>1. CASE openPage
  <2>1. /\ page' = page + 1 /\ tasks' = <<>> /\ timeouts' = <<>> /\ mishaps' = {} /\ told' = TRUE
        /\ isLoading' = TRUE /\ Send("get", page + 1)
        /\ UNCHANGED <<server, wire, connected, answers, extras>>
    BY <1>1 DEF openPage, Refresh
  <2>2. page + 1 \in Nat /\ page + 1 # 0
    OBVIOUS
  <2>3. /\ IsABag(requests')
        /\ BagToSet(requests') = BagToSet(requests) \union {[what |-> "get", page |-> page + 1]}
    BY <2>1, <2>2, SendTyped
  <2>4. BagToSet(requests') \subseteq [what : {"get", "delete"}, page : 1..page']
    BY <2>1, <2>3
  <2>5. ASSUME NEW i \in 1..Len(answers)
        PROVE  answers[i].page <= page + 1
    <3>1. answers[i] \in Answers /\ answers[i].page <= page
      OBVIOUS
    <3>2. answers[i].page \in Nat
      BY <3>1 DEF Answers
    <3>3. QED
      BY <3>1, <3>2
  <2>6. \A i \in 1..Len(answers') : answers'[i].page <= page'
    BY <2>1, <2>5
  <2>7. TypeOK'
    BY <2>1, <2>4, <2>6 DEF server
  <2>8. QED
    BY <2>1, <2>2, <2>3, <2>7 DEF server
<1>2. CASE clickRefresh
  <2>1. /\ page \in 1..page /\ Refresh(page) /\ isLoading' = TRUE
        /\ UNCHANGED <<server, wire, connected, browser, answers, told>>
    BY <1>2 DEF clickRefresh, Refresh
  <2>2. IsABag(requests') /\ BagToSet(requests') \subseteq [what : {"get", "delete"}, page : 1..page]
    BY <2>1, RefreshTyped
  <2>3. QED
    BY <2>1, <2>2 DEF server, browser
<1>3. CASE reject
  <2>1. Send("delete", page) /\ UNCHANGED <<server, wire, connected, browser, answers, isLoading, told>>
    BY <1>3 DEF reject
  <2>2. CASE page = 0
    <3>1. tasks # <<>>
      BY <1>3 DEF reject
    <3>2. QED
      BY <2>2, <3>1
  <2>3. CASE page # 0
    <3>1. IsABag(requests') /\ BagToSet(requests') \subseteq [what : {"get", "delete"}, page : 1..page]
      BY <2>1, <2>3, RefreshTyped
    <3>2. QED
      BY <2>1, <3>1 DEF server, browser
  <2>4. QED
    BY <2>2, <2>3
<1>4. CASE applyTimeout
  <2>1. /\ timeouts # <<>> /\ tasks' = <<Head(timeouts)>> /\ timeouts' = Tail(timeouts)
        /\ UNCHANGED <<server, wire, connected, page, http, isLoading, told, mishaps, extras>>
    BY <1>4 DEF applyTimeout
  <2>2. Head(timeouts) \in ToldStatuses /\ Tail(timeouts) \in Seq(ToldStatuses)
    BY <2>1, TailShifts
  <2>3. tasks' \in {<<status>> : status \in Statuses} /\ tasks' # <<>>
    BY <2>1, <2>2 DEF Statuses, ToldStatuses
  <2>4. QED
    BY <2>1, <2>2, <2>3 DEF server, http
<1>5. QED
  BY <1>1, <1>2, <1>3, <1>4

\* A notification that arrives keeps the types.
LEMMA ReceiveTyped ==
  ASSUME Typed, NEW m \in BagToSet(wire), receive(m)
  PROVE  Typed'
<1> USE DEF Typed, TypeOK
<1>1. /\ wire' = wire (-) SetToBag({m})
      /\ mishaps' = IF tasks = <<>> /\ m.progress = 100 THEN mishaps \union {"ignored"} ELSE mishaps
      /\ UNCHANGED <<server, connected, page, tasks, answers, told, extras>>
  BY DEF receive
<1>2. IsABag(wire') /\ BagToSet(wire') \subseteq BagToSet(wire)
  BY <1>1, BagTakes
<1>3. \/ UNCHANGED timeouts /\ UNCHANGED requests /\ UNCHANGED isLoading
      \/ tasks # <<>> /\ Refresh(page) /\ UNCHANGED timeouts
      \/ /\ tasks # <<>> /\ timeouts' = Append(timeouts, m.status)
         /\ Refresh(page) \/ (UNCHANGED requests /\ UNCHANGED isLoading)
  BY DEF receive, updateTaskStatus
<1>4. m.status \in ToldStatuses
  BY DEF ToldStatuses
<1>5. timeouts' \in Seq(ToldStatuses) /\ (timeouts' # <<>> => tasks # <<>>)
  <2>1. Append(timeouts, m.status) \in Seq(ToldStatuses)
    BY <1>4
  <2>2. timeouts' = timeouts \/ (tasks # <<>> /\ timeouts' = Append(timeouts, m.status))
    BY <1>3
  <2>3. QED
    BY <2>1, <2>2
<1>6. IsABag(requests') /\ BagToSet(requests') \subseteq [what : {"get", "delete"}, page : 1..page]
  <2>1. CASE requests' = requests
    BY <2>1
  <2>2. CASE tasks # <<>> /\ Refresh(page)
    BY <2>2, RefreshTyped
  <2>3. QED
    BY <1>3, <2>1, <2>2
<1>7. isLoading' \in BOOLEAN
  BY <1>3 DEF Refresh
<1>8. mishaps' \subseteq {"ignored", "overtaken", "failed"}
  BY <1>1
<1>9. TypeOK'
  BY <1>1, <1>2, <1>5, <1>6, <1>7, <1>8 DEF server
<1>10. QED
  BY <1>1, <1>2, <1>5, <1>6, <1>9 DEF server

\* A request that fails keeps the types.
LEMMA FailTyped ==
  ASSUME Typed, NEW r \in BagToSet(requests), failGet(r)
  PROVE  Typed'
<1> USE DEF Typed, TypeOK
<1>1. /\ requests' = requests (-) SetToBag({r}) /\ isLoading' = FALSE
      /\ UNCHANGED <<server, wire, connected, page, answers, told>>
  BY DEF failGet
<1>2. IsABag(requests') /\ BagToSet(requests') \subseteq BagToSet(requests)
  BY <1>1, BagTakes
<1>3. /\ UNCHANGED <<tasks, timeouts>> \/ (tasks' = <<>> /\ timeouts' = <<>>)
      /\ mishaps' \subseteq {"ignored", "overtaken", "failed"}
  BY DEF failGet
<1>4. <<>> \in Seq(ToldStatuses)
  OBVIOUS
<1>5. /\ timeouts' \in Seq(ToldStatuses) /\ (timeouts' # <<>> => tasks' # <<>>)
      /\ tasks' \in {<<>>} \union {<<status>> : status \in Statuses} /\ (page = 0 => tasks' = <<>>)
  BY <1>3, <1>4
<1>6. QED
  BY <1>1, <1>2, <1>3, <1>5 DEF server

\* An answer that arrives keeps the types.
LEMMA ReturnTyped ==
  ASSUME Typed, NEW i \in 1..Len(answers), Return(i)
  PROVE  Typed'
<1> USE DEF Typed, TypeOK
<1>1. Take(i)
  BY DEF Return, answerGet, answerDelete
<1>2. answers' \in Seq(Answers)
  BY <1>1, TakeLeaves
<1>3. \A j \in 1..Len(answers') : answers'[j].page <= page
  <2> SUFFICES ASSUME NEW j \in 1..Len(answers')
               PROVE  answers'[j].page <= page
    OBVIOUS
  <2>1. /\ j \in DOMAIN answers'
        /\ \A k \in DOMAIN answers : answers[k] \in Answers /\ answers[k].page <= page
    BY <1>2
  <2>2. CASE j < i
    <3>1. j \in DOMAIN answers /\ answers'[j] = [answers[j] EXCEPT !.old = TRUE]
      BY <1>1, <2>1, <2>2, TakeLeaves
    <3>2. QED
      BY <2>1, <3>1 DEF Answers
  <2>3. CASE j >= i
    <3>1. j + 1 \in DOMAIN answers /\ answers'[j] = answers[j + 1]
      BY <1>1, <2>1, <2>3, TakeLeaves
    <3>2. QED
      BY <2>1, <3>1
  <2>4. QED
    BY <2>2, <2>3
<1>4. answers[i] \in Answers /\ answers[i].page \in 1..page
  <2>1. answers[i] \in Answers /\ answers[i].page <= page
    OBVIOUS
  <2>2. QED
    BY <2>1 DEF Answers
<1>5. CASE answerGet(i)
  <2>1. isLoading' = FALSE /\ UNCHANGED <<server, wire, connected, page, requests, told, extras>>
    BY <1>5 DEF answerGet
  <2>2. /\ \/ UNCHANGED <<tasks, timeouts>>
           \/ answers[i].page = page /\ tasks' = answers[i].rows /\ timeouts' = <<>>
        /\ mishaps' \subseteq {"ignored", "overtaken", "failed"}
    BY <1>5 DEF answerGet
  <2>3. answers[i].rows \in Rows
    BY <1>4 DEF Answers
  <2>4. <<>> \in Seq(ToldStatuses) /\ page # 0
    BY <1>4
  <2>5. /\ tasks' \in Rows /\ timeouts' \in Seq(ToldStatuses)
        /\ timeouts' # <<>> => tasks' # <<>>
    BY <2>2, <2>3, <2>4 DEF Rows
  <2>6. QED
    BY <1>2, <1>3, <2>1, <2>2, <2>4, <2>5 DEF Rows, server
<1>6. CASE answerDelete(i)
  <2>1. /\ Refresh(answers[i].page) /\ told' = (told \/ answers[i].page = page)
        /\ UNCHANGED <<server, wire, connected, browser, extras>>
    BY <1>6 DEF answerDelete
  <2>2. IsABag(requests') /\ BagToSet(requests') \subseteq [what : {"get", "delete"}, page : 1..page]
    BY <1>4, <2>1, RefreshTyped
  <2>3. isLoading' = TRUE
    BY <2>1 DEF Refresh
  <2>4. told' \in BOOLEAN
    BY <2>1
  <2>5. QED
    BY <1>2, <1>3, <2>1, <2>2, <2>3, <2>4 DEF server, browser
<1>7. QED
  BY <1>5, <1>6 DEF Return

\* Every step keeps the types.
LEMMA NextTyped == Typed /\ [Next]_vars => Typed'
<1> SUFFICES ASSUME Typed, [Next]_vars
             PROVE  Typed'
  OBVIOUS
<1>1. CASE UNCHANGED vars
  BY <1>1 DEF vars, server, browser, http, Typed, TypeOK
<1>2. CASE Next
  BY <1>2, ServerTyped, ClicksTyped, ReceiveTyped, ServeTyped, FailTyped, ReturnTyped DEF Next
<1>3. QED
  BY <1>1, <1>2

-----------------------------------------------------------------------------
(* How the scripts go on and end                                           *)

\* Every script ends well, and saves nothing as running after it saved it as
\* complete.
LEMMA ScriptsEnd ==
  ASSUME NEW kind \in Kinds, executor.status \in Statuses,
         NEW script \in {Script(kind), CleaningAfterCancel(kind), CleaningAfterFailure(kind)}
  PROVE  HasEnd(script) /\ EndsWell(script) /\ Ordered(script)
<1> USE DEF HasEnd, EndsWell, Ordered, Finishes, Saves, Save, Delete, Tell
<1>1. kind \in {"backup", "restore", "delete"}
  BY KindAssumption DEF KindAssumption
<1>2. CASE script = Script(kind) /\ kind = "backup"
  <2>1. script = <<Save("waiting"), Tell("running", 50), Save("running"), Save("complete"),
                   Tell("running", 100), Save("complete")>>
    BY <1>2 DEF Script
  <2>2. DOMAIN script = 1..6 /\ Finishes(script[6])
    BY <2>1
  <2>3. QED
    BY <2>1, <2>2
<1>3. CASE script = Script(kind) /\ kind = "restore"
  <2>1. script = <<Save("waiting"), Save("running"), Tell("running", 50), Tell("running", 100),
                   Save("complete")>>
    BY <1>3 DEF Script
  <2>2. DOMAIN script = 1..5 /\ Finishes(script[5])
    BY <2>1
  <2>3. QED
    BY <2>1, <2>2
<1>4. CASE script = Script(kind) /\ kind = "delete"
  <2>1. script = <<Tell("running", 50), Save("running"), Save("complete"), Tell("running", 100),
                   Save("complete")>>
    BY <1>4 DEF Script
  <2>2. DOMAIN script = 1..5 /\ Finishes(script[5])
    BY <2>1
  <2>3. QED
    BY <2>1, <2>2
<1>5. CASE script = CleaningAfterCancel(kind)
  <2>1. \/ script = <<Save(executor.status), Delete, Tell("canceled", 100)>>
        \/ script = <<Save(executor.status), Delete>>
    BY <1>5 DEF CleaningAfterCancel
  <2>2. DOMAIN script \in {1..2, 1..3} /\ Finishes(script[2])
    BY <2>1
  <2>3. QED
    BY <2>1, <2>2
<1>6. CASE script = CleaningAfterFailure(kind)
  <2>1. \/ script = <<Save(executor.status), Save("error"), Tell("error", 100)>>
        \/ script = <<Save(executor.status), Save("error")>>
        \/ script = <<Save("error")>>
    BY <1>1, <1>6 DEF CleaningAfterFailure
  <2>2. QED
    BY <2>1
<1>7. QED
  BY <1>1, <1>2, <1>3, <1>4, <1>5, <1>6

\* Cleaning up saves the task as running only if that is how it is known.
LEMMA CleaningSavesKnown ==
  ASSUME NEW kind \in Kinds, executor.status \in Statuses \ {"running"},
         NEW script \in {CleaningAfterCancel(kind), CleaningAfterFailure(kind)}
  PROVE  NeverSavesRunning(script)
<1> USE DEF NeverSavesRunning, Saves, Save, Delete, Tell
<1>1. kind \in {"backup", "restore", "delete"}
  BY KindAssumption DEF KindAssumption
<1>2. \/ script = <<Save(executor.status), Delete, Tell("canceled", 100)>>
      \/ script = <<Save(executor.status), Delete>>
      \/ script = <<Save(executor.status), Save("error"), Tell("error", 100)>>
      \/ script = <<Save(executor.status), Save("error")>>
      \/ script = <<Save("error")>>
  BY <1>1 DEF CleaningAfterCancel, CleaningAfterFailure
<1>3. QED
  BY <1>2

\* What is left of a script keeps its order and its end.
LEMMA TailsEnd ==
  ASSUME NEW script \in Seq(Steps), script # <<>>
  PROVE  /\ EndsWell(script) => EndsWell(Tail(script))
         /\ Ordered(script) => Ordered(Tail(script))
         /\ NeverSavesRunning(script) => NeverSavesRunning(Tail(script))
         /\ Ordered(script) /\ Saves(Head(script), {"complete"}) => NeverSavesRunning(Tail(script))
         /\ HasEnd(script) => Finishes(Head(script)) \/ HasEnd(Tail(script))
         /\ EndsWell(script) /\ Saves(Head(script), Statuses \ {"complete", "error"}) =>
              HasEnd(Tail(script))
<1> DEFINE t == Tail(script)
<1>1. /\ 1 \in DOMAIN script /\ Head(script) = script[1]
      /\ \A i \in DOMAIN t : i \in Nat /\ 1 < i + 1 /\ i + 1 \in DOMAIN script /\ t[i] = script[i + 1]
      /\ \A j \in DOMAIN script :
           j \in Nat /\ (j # 1 => 1 < j /\ j - 1 \in DOMAIN t /\ t[j - 1] = script[j])
  BY TailShifts
<1> HIDE DEF t
<1>2. EndsWell(script) => EndsWell(t)
  <2> SUFFICES ASSUME EndsWell(script), NEW i \in DOMAIN t,
                      Saves(t[i], Statuses \ {"complete", "error"})
               PROVE  \E j \in DOMAIN t : i < j /\ Finishes(t[j])
    BY DEF EndsWell
  <2>1. PICK j \in DOMAIN script : i + 1 < j /\ Finishes(script[j])
    BY <1>1 DEF EndsWell
  <2>2. j - 1 \in DOMAIN t /\ i < j - 1 /\ t[j - 1] = script[j]
    BY <1>1, <2>1
  <2>3. QED
    BY <2>1, <2>2
<1>3. Ordered(script) => Ordered(t)
  BY <1>1 DEF Ordered
<1>4. NeverSavesRunning(script) => NeverSavesRunning(t)
  BY <1>1 DEF NeverSavesRunning
<1>5. Ordered(script) /\ Saves(Head(script), {"complete"}) => NeverSavesRunning(t)
  BY <1>1 DEF Ordered, NeverSavesRunning
<1>6. HasEnd(script) => Finishes(Head(script)) \/ HasEnd(t)
  BY <1>1 DEF HasEnd
<1>7. EndsWell(script) /\ Saves(Head(script), Statuses \ {"complete", "error"}) => HasEnd(t)
  <2> SUFFICES ASSUME EndsWell(script), Saves(script[1], Statuses \ {"complete", "error"})
               PROVE  HasEnd(t)
    BY <1>1
  <2>1. PICK j \in DOMAIN script : 1 < j /\ Finishes(script[j])
    BY <1>1 DEF EndsWell
  <2>2. j # 1 /\ j - 1 \in DOMAIN t /\ t[j - 1] = script[j]
    BY <1>1, <2>1
  <2>3. Finishes(t[j - 1])
    BY <2>1, <2>2
  <2>4. QED
    BY <2>2, <2>3 DEF HasEnd
<1>8. QED
  BY <1>2, <1>3, <1>4, <1>5, <1>6, <1>7 DEF t

\* What a step of the executor does to its script and to the record.
LEMMA ExecuteShape ==
  ASSUME Typed, execute
  PROVE  /\ todo # <<>> /\ todo' = Tail(todo) /\ Head(todo) \in Steps
         /\ \/ /\ Head(todo).op = "save" /\ Head(todo).status \in Statuses
               /\ SetRecord(Head(todo).status)
               /\ executor' = [executor EXCEPT !.status = Head(todo).status]
               /\ UNCHANGED wire
            \/ /\ Head(todo).op = "delete"
               /\ SetRecord("absent")
               /\ UNCHANGED <<executor, wire>>
            \/ /\ Head(todo).op = "tell"
               /\ Notify(Head(todo).status, Head(todo).progress)
               /\ told' = (told \/ (Head(todo).progress = 100 /\ connected = "yes"))
               /\ UNCHANGED <<executor, record>>
<1>1. todo # <<>> /\ todo \in Seq(Steps) /\ todo' = Tail(todo)
  BY DEF Typed, execute
<1>2. Head(todo) \in Steps
  BY <1>1, TailShifts
<1>3. QED
  BY <1>1, <1>2, StepShapes DEF execute

\* An executor comes to an end of its task, whatever users do.
LEMMA NextEnds ==
  ASSUME Typed, EndsFinished, Ordered(todo), [Next]_vars
  PROVE  EndsFinished' /\ Ordered(todo)'
<1>1. CASE execute
  <2>1. todo \in Seq(Steps) /\ todo # <<>> /\ todo' = Tail(todo)
    BY <1>1, ExecuteShape DEF Typed
  <2>2. EndsWell(todo') /\ Ordered(todo')
    BY <2>1, TailsEnd DEF EndsFinished
  <2>3. ASSUME record' \notin {"complete", "error", "absent"}
        PROVE  HasEnd(todo')
    <3>1. CASE Head(todo).op = "save"
      <4>1. record' = Head(todo).status /\ record' \in Statuses
        BY <1>1, <3>1, ExecuteShape DEF SetRecord
      <4>2. Saves(Head(todo), Statuses \ {"complete", "error"})
        BY <2>3, <3>1, <4>1 DEF Saves
      <4>3. QED
        BY <2>1, <4>2, TailsEnd DEF EndsFinished
    <3>2. CASE Head(todo).op = "delete"
      BY <1>1, <2>3, <3>2, ExecuteShape DEF SetRecord
    <3>3. CASE Head(todo).op = "tell"
      <4>1. record' = record
        BY <1>1, <3>3, ExecuteShape
      <4>2. HasEnd(todo) /\ ~Finishes(Head(todo))
        BY <2>3, <3>3, <4>1 DEF EndsFinished, Finishes, Saves
      <4>3. QED
        BY <2>1, <4>2, TailsEnd
    <3>4. QED
      BY <1>1, <3>1, <3>2, <3>3, ExecuteShape
  <2>4. QED
    BY <2>2, <2>3 DEF EndsFinished
<1>2. CASE clean
  <2>1. executor.kind \in Kinds /\ executor.status \in Statuses
    BY DEF Typed, TypeOK
  <2>2. todo' \in {CleaningAfterCancel(executor.kind), CleaningAfterFailure(executor.kind)}
    BY <1>2 DEF clean
  <2>3. HasEnd(todo') /\ EndsWell(todo') /\ Ordered(todo')
    BY <2>1, <2>2, ScriptsEnd
  <2>4. QED
    BY <2>3 DEF EndsFinished
<1>3. CASE todo' = todo /\ (record' = record \/ record' = "absent" \/ record = "running")
  BY <1>3 DEF EndsFinished
<1>4. QED
  <2>1. CASE \E r \in BagToSet(requests) : Serve(r) \/ failGet(r)
    BY <1>3, <2>1 DEF Serve, getAllTasks, removeTask, failGet, SetRecord, server
  <2>2. CASE \/ subscribeWS \/ disconnect \/ openPage \/ clickRefresh \/ reject \/ applyTimeout
             \/ UNCHANGED vars
    BY <1>3, <2>2 DEF subscribeWS, disconnect, openPage, clickRefresh, reject, applyTimeout,
       server, vars
  <2>3. CASE (\E m \in BagToSet(wire) : receive(m)) \/ (\E i \in 1..Len(answers) : Return(i))
    BY <1>3, <2>3 DEF receive, Return, answerGet, answerDelete, server
  <2>4. QED
    BY <1>1, <1>2, <2>1, <2>2, <2>3 DEF Next

-----------------------------------------------------------------------------
(* A task that was seen complete does not run again                        *)

\* Once the task was saved as running for the last time it stays so.
LEMMA DoneStays ==
  ASSUME Typed, Done, [Next]_vars
  PROVE  Done'
<1>1. CASE execute
  <2>1. todo \in Seq(Steps) /\ todo # <<>> /\ todo' = Tail(todo)
    BY <1>1, ExecuteShape DEF Typed
  <2>2. NeverSavesRunning(todo')
    BY <2>1, TailsEnd DEF Done
  <2>3. ~Saves(Head(todo), {"running"})
    BY <2>1, TailShifts DEF Done, NeverSavesRunning
  <2>4. /\ executor.status # "running" /\ record # "running"
        /\ executor \in [kind : Kinds, status : Statuses, canceled : BOOLEAN, pc : {"runs", "cleans"}]
    BY DEF Done, Typed, TypeOK
  <2>5. executor'.status # "running" /\ record' # "running"
    BY <1>1, <2>3, <2>4, ExecuteShape DEF Saves, SetRecord
  <2>6. QED
    BY <2>2, <2>5 DEF Done
<1>2. CASE clean
  <2>1. executor.kind \in Kinds /\ executor.status \in Statuses \ {"running"}
    BY DEF Typed, TypeOK, Done
  <2>2. todo' \in {CleaningAfterCancel(executor.kind), CleaningAfterFailure(executor.kind)}
    BY <1>2 DEF clean
  <2>3. NeverSavesRunning(todo')
    BY <2>1, <2>2, CleaningSavesKnown
  <2>4. executor'.status = executor.status /\ record' = record
    BY <1>2 DEF clean, Typed, TypeOK
  <2>5. QED
    BY <2>3, <2>4 DEF Done
<1>3. CASE UNCHANGED server
  BY <1>3 DEF Done, server
<1>4. CASE \E r \in BagToSet(requests) : removeTask(r)
  <2>1. todo' = todo /\ record' \in {"canceled", "absent"} /\ executor'.status = executor.status
    BY <1>4 DEF removeTask, SetRecord, Typed, TypeOK
  <2>2. QED
    BY <2>1 DEF Done
<1>5. QED
  <2>1. CASE \E r \in BagToSet(requests) : Serve(r) \/ failGet(r)
    BY <1>3, <1>4, <2>1 DEF Serve, getAllTasks, failGet
  <2>2. CASE \/ subscribeWS \/ disconnect \/ openPage \/ clickRefresh \/ reject \/ applyTimeout
             \/ UNCHANGED vars
    BY <1>3, <2>2 DEF subscribeWS, disconnect, openPage, clickRefresh, reject, applyTimeout, vars
  <2>3. CASE (\E m \in BagToSet(wire) : receive(m)) \/ (\E i \in 1..Len(answers) : Return(i))
    BY <1>3, <2>3 DEF receive, Return, answerGet, answerDelete
  <2>4. QED
    BY <1>1, <1>2, <2>1, <2>2, <2>3 DEF Next

\* A record becomes complete by the executor, which saves nothing as running
\* any more.
LEMMA CompleteIsDone ==
  ASSUME Typed, Ordered(todo), NoReturn, [Next]_vars, record' = "complete"
  PROVE  Done'
<1>1. CASE record = "complete"
  BY <1>1, DoneStays DEF NoReturn
<1>2. CASE record # "complete"
  <2>1. CASE execute
    <3>1. todo \in Seq(Steps) /\ todo # <<>> /\ todo' = Tail(todo)
      BY <2>1, ExecuteShape DEF Typed
    <3>2. /\ Head(todo).op = "save" /\ Head(todo).status = "complete"
          /\ executor' = [executor EXCEPT !.status = Head(todo).status]
      BY <1>2, <2>1, ExecuteShape DEF SetRecord
    <3>3. NeverSavesRunning(todo')
      BY <3>1, <3>2, TailsEnd DEF Saves
    <3>4. executor'.status = "complete"
      BY <3>2 DEF Typed, TypeOK
    <3>5. QED
      BY <3>3, <3>4 DEF Done
  <2>2. CASE \E r \in BagToSet(requests) : Serve(r) \/ failGet(r)
    BY <1>2, <2>2 DEF Serve, getAllTasks, removeTask, failGet, SetRecord, server
  <2>3. CASE \/ clean \/ subscribeWS \/ disconnect \/ openPage \/ clickRefresh \/ reject
             \/ applyTimeout
             \/ UNCHANGED vars
    BY <1>2, <2>3 DEF clean, subscribeWS, disconnect, openPage, clickRefresh, reject, applyTimeout,
       server, vars
  <2>4. CASE (\E m \in BagToSet(wire) : receive(m)) \/ (\E i \in 1..Len(answers) : Return(i))
    BY <1>2, <2>4 DEF receive, Return, answerGet, answerDelete, server
  <2>5. QED
    BY <2>1, <2>2, <2>3, <2>4 DEF Next
<1>3. QED
  BY <1>1, <1>2

\* How the answers change: one is given, one is taken, or they stay.
LEMMA AnswersShape ==
  ASSUME Typed, [Next]_vars
  PROVE  \/ \E r \in BagToSet(requests) :
              (Answer(r, Shown) /\ getAllTasks(r)) \/ (Answer(r, <<>>) /\ removeTask(r))
         \/ \E i \in 1..Len(answers) : Take(i) /\ Return(i)
         \/ UNCHANGED answers
<1>1. CASE \E r \in BagToSet(requests) : Serve(r) \/ failGet(r)
  BY <1>1 DEF Serve, getAllTasks, removeTask, failGet
<1>2. CASE \E i \in 1..Len(answers) : Return(i)
  BY <1>2 DEF Return, answerGet, answerDelete
<1>3. CASE \/ execute \/ clean \/ subscribeWS \/ disconnect \/ openPage \/ clickRefresh \/ reject
           \/ applyTimeout \/ UNCHANGED vars \/ \E m \in BagToSet(wire) : receive(m)
  BY <1>3 DEF execute, clean, subscribeWS, disconnect, openPage, clickRefresh, reject,
     applyTimeout, receive, http, vars
<1>4. QED
  BY <1>1, <1>2, <1>3 DEF Next

\* Every answer was there before, with the same rows, or shows the record.
LEMMA AnswersOrigin ==
  ASSUME Typed, [Next]_vars, NEW j \in DOMAIN answers'
  PROVE  \/ \E k \in DOMAIN answers :
              /\ answers'[j].rows = answers[k].rows /\ answers'[j].page = answers[k].page
              /\ answers'[j].what = answers[k].what /\ (answers[k].old => answers'[j].old)
         \/ answers'[j].rows \in {<<>>, Shown}
<1>1. CASE \E r \in BagToSet(requests) : Answer(r, Shown) \/ Answer(r, <<>>)
  <2> PICK r \in BagToSet(requests), rows \in {<<>>, Shown} : Answer(r, rows)
    BY <1>1
  <2>1. rows \in Rows
    BY ShownIsRows DEF Rows
  <2>2. /\ DOMAIN answers' = 1..(Len(answers) + 1) /\ DOMAIN answers = 1..Len(answers)
        /\ Len(answers) \in Nat
        /\ \A k \in DOMAIN answers : answers'[k] = answers[k]
        /\ answers'[Len(answers) + 1] = [what |-> r.what, page |-> r.page, rows |-> rows, old |-> FALSE]
    BY <2>1, AnswerTyped
  <2>3. CASE j = Len(answers) + 1
    BY <2>2, <2>3
  <2>4. CASE j # Len(answers) + 1
    BY <2>2, <2>4
  <2>5. QED
    BY <2>3, <2>4
<1>2. CASE \E i \in 1..Len(answers) : Take(i)
  <2> PICK i \in 1..Len(answers) : Take(i)
    BY <1>2
  <2>1. answers \in Seq(Answers) /\ j \in Nat /\ i \in Nat
    BY TakeLeaves DEF Typed
  <2>2. CASE j < i
    <3>1. j \in DOMAIN answers /\ answers'[j] = [answers[j] EXCEPT !.old = TRUE] /\ answers[j] \in Answers
      BY <2>1, <2>2, TakeLeaves
    <3>2. QED
      BY <3>1 DEF Answers
  <2>3. CASE j >= i
    <3>1. j + 1 \in DOMAIN answers /\ answers'[j] = answers[j + 1]
      BY <2>1, <2>3, TakeLeaves
    <3>2. QED
      BY <3>1
  <2>4. QED
    BY <2>1, <2>2, <2>3
<1>3. CASE UNCHANGED answers
  BY <1>3
<1>4. QED
  BY <1>1, <1>2, <1>3, AnswersShape

\* How the rows that are shown change.
LEMMA TasksShape ==
  ASSUME Typed, [Next]_vars
  PROVE  \/ tasks' = <<>> /\ timeouts' = <<>>
         \/ \E status \in ToldStatuses : tasks' = <<status>> /\ timeouts # <<>>
         \/ \E i \in 1..Len(answers) :
              /\ answerGet(i) /\ answers[i].page = page
              /\ tasks' = answers[i].rows /\ timeouts' = <<>>
         \/ UNCHANGED tasks
<1>1. CASE applyTimeout
  <2>1. timeouts # <<>> /\ timeouts \in Seq(ToldStatuses) /\ tasks' = <<Head(timeouts)>>
    BY <1>1 DEF applyTimeout, Typed
  <2>2. Head(timeouts) \in ToldStatuses
    BY <2>1, TailShifts
  <2>3. QED
    BY <2>1, <2>2
<1>2. CASE openPage
  BY <1>2 DEF openPage
<1>3. CASE \E r \in BagToSet(requests) : Serve(r) \/ failGet(r)
  BY <1>3 DEF Serve, getAllTasks, removeTask, failGet, browser
<1>4. CASE \E i \in 1..Len(answers) : Return(i)
  BY <1>4 DEF Return, answerGet, answerDelete, browser
<1>5. CASE \/ execute \/ clean \/ subscribeWS \/ disconnect \/ clickRefresh \/ reject
           \/ UNCHANGED vars \/ \E m \in BagToSet(wire) : receive(m)
  BY <1>5 DEF execute, clean, subscribeWS, disconnect, clickRefresh, reject, receive, browser, vars
<1>6. QED
  BY <1>1, <1>2, <1>3, <1>4, <1>5 DEF Next

\* Whoever has seen the task complete will not see it run again.
LEMMA NextNoReturn ==
  ASSUME Typed, Ordered(todo), NoReturn, [Next]_vars
  PROVE  NoReturn'
<1>1. tasks' = <<"complete">> => Done'
  <2> SUFFICES ASSUME tasks' = <<"complete">>
               PROVE  Done'
    OBVIOUS
  <2>1. \/ UNCHANGED tasks
        \/ \E i \in 1..Len(answers) : tasks' = answers[i].rows
    BY TasksShape DEF ToldStatuses
  <2>2. Done
    BY <2>1 DEF NoReturn, Typed
  <2>3. QED
    BY <2>2, DoneStays
<1>2. ASSUME NEW j \in DOMAIN answers', answers'[j].rows = <<"complete">>
      PROVE  Done'
  <2>1. CASE \E k \in DOMAIN answers : answers'[j].rows = answers[k].rows
    BY <1>2, <2>1, DoneStays DEF NoReturn
  <2>2. CASE answers'[j].rows \in {<<>>, Shown}
    <3>1. record = "complete"
      BY <1>2, <2>2 DEF Shown
    <3>2. QED
      BY <3>1, DoneStays DEF NoReturn
  <2>3. QED
    BY <2>1, <2>2, AnswersOrigin
<1>3. QED
  BY <1>1, <1>2, CompleteIsDone DEF NoReturn

\* The answers stay in the order in which the record was read.
LEMMA NextAnswersOrdered ==
  ASSUME Typed, Ordered(todo), NoReturn, AnswersOrdered, [Next]_vars
  PROVE  AnswersOrdered'
<1> SUFFICES ASSUME NEW j \in DOMAIN answers', NEW l \in DOMAIN answers', j < l,
                    answers'[j].rows = <<"complete">>
             PROVE  answers'[l].rows # <<"running">>
  BY DEF AnswersOrdered
<1>1. CASE \E r \in BagToSet(requests) : Answer(r, Shown) \/ Answer(r, <<>>)
  <2> PICK r \in BagToSet(requests), rows \in {<<>>, Shown} : Answer(r, rows)
    BY <1>1
  <2>1. rows \in Rows
    BY ShownIsRows DEF Rows
  <2> DEFINE n == Len(answers)
  <2>2. /\ DOMAIN answers' = 1..(n + 1) /\ DOMAIN answers = 1..n /\ n \in Nat
        /\ \A k \in DOMAIN answers : answers'[k] = answers[k]
        /\ answers'[n + 1] = [what |-> r.what, page |-> r.page, rows |-> rows, old |-> FALSE]
    BY <2>1, AnswerTyped
  <2> HIDE DEF n
  <2>3. j \in DOMAIN answers /\ answers'[j] = answers[j]
    BY <2>2
  <2>4. CASE l \in DOMAIN answers
    BY <2>2, <2>3, <2>4 DEF AnswersOrdered
  <2>5. CASE l = n + 1
    <3>1. record # "running"
      BY <2>3 DEF NoReturn, Done
    <3>2. answers'[l].rows \in {<<>>, Shown}
      BY <2>2, <2>5
    <3>3. QED
      BY <3>1, <3>2 DEF Shown
  <2>6. QED
    BY <2>2, <2>4, <2>5
<1>2. CASE \E i \in 1..Len(answers) : Take(i)
  <2> PICK i \in 1..Len(answers) : Take(i)
    BY <1>2
  <2>1. answers \in Seq(Answers) /\ i \in Nat /\ j \in Nat /\ l \in Nat
    BY TakeLeaves DEF Typed
  <2>2. ASSUME NEW k \in DOMAIN answers'
        PROVE  LET o == IF k < i THEN k ELSE k + 1 IN
               o \in DOMAIN answers /\ answers'[k].rows = answers[o].rows
    <3>1. CASE k < i
      <4>1. k \in DOMAIN answers /\ answers'[k] = [answers[k] EXCEPT !.old = TRUE] /\ answers[k] \in Answers
        BY <2>1, <3>1, TakeLeaves
      <4>2. QED
        BY <3>1, <4>1 DEF Answers
    <3>2. CASE ~(k < i)
      <4>1. k \in Nat /\ k >= i
        BY <2>1, <3>2, TakeLeaves
      <4>2. QED
        BY <2>1, <3>2, <4>1, TakeLeaves
    <3>3. QED
      BY <3>1, <3>2
  <2>3. (IF j < i THEN j ELSE j + 1) < (IF l < i THEN l ELSE l + 1)
    BY <2>1
  <2>4. QED
    BY <2>2, <2>3 DEF AnswersOrdered
<1>3. CASE UNCHANGED answers
  BY <1>3 DEF AnswersOrdered
<1>4. QED
  BY <1>1, <1>2, <1>3, AnswersShape

\* Where the timers come from.
LEMMA TimeoutsShape ==
  ASSUME Typed, [Next]_vars
  PROVE  \/ timeouts' = timeouts \/ timeouts' = <<>> \/ timeouts # <<>>
         \/ tasks # <<>> /\ tasks[1] \notin Stale
<1>1. CASE \E m \in BagToSet(wire) : receive(m)
  BY <1>1 DEF receive, updateTaskStatus
<1>2. CASE \E r \in BagToSet(requests) : Serve(r) \/ failGet(r)
  BY <1>2 DEF Serve, getAllTasks, removeTask, failGet, browser
<1>3. CASE \E i \in 1..Len(answers) : Return(i)
  BY <1>3 DEF Return, answerGet, answerDelete, browser
<1>4. CASE \/ execute \/ clean \/ subscribeWS \/ disconnect \/ openPage \/ clickRefresh \/ reject
           \/ applyTimeout \/ UNCHANGED vars
  BY <1>4 DEF execute, clean, subscribeWS, disconnect, openPage, clickRefresh, reject,
     applyTimeout, browser, vars
<1>5. QED
  BY <1>1, <1>2, <1>3, <1>4 DEF Next

\* The page is another one only when it is opened.
LEMMA PageShape == [Next]_vars => page' = page \/ openPage
<1> SUFFICES ASSUME [Next]_vars
             PROVE  page' = page \/ openPage
  OBVIOUS
<1>1. CASE \E m \in BagToSet(wire) : receive(m)
  BY <1>1 DEF receive
<1>2. CASE \E r \in BagToSet(requests) : Serve(r) \/ failGet(r)
  BY <1>2 DEF Serve, getAllTasks, removeTask, failGet, browser
<1>3. CASE \E i \in 1..Len(answers) : Return(i)
  BY <1>3 DEF Return, answerGet, answerDelete, browser
<1>4. CASE \/ execute \/ clean \/ subscribeWS \/ disconnect \/ openPage \/ clickRefresh \/ reject
           \/ applyTimeout \/ UNCHANGED vars
  BY <1>4 DEF execute, clean, subscribeWS, disconnect, clickRefresh, reject, applyTimeout,
     browser, vars
<1>5. QED
  BY <1>1, <1>2, <1>3, <1>4 DEF Next

\* Nothing that is under way takes a complete row back.
LEMMA NextRowIsCurrent ==
  ASSUME Typed, Ordered(todo), NoReturn, AnswersOrdered, RowIsCurrent, [Next]_vars
  PROVE  RowIsCurrent'
<1> SUFFICES ASSUME tasks' = <<"complete">>
             PROVE  /\ timeouts' = <<>>
                    /\ \A j \in DOMAIN answers' :
                         answers'[j].page = page' /\ ~answers'[j].old =>
                           answers'[j].rows # <<"running">>
  BY DEF RowIsCurrent
<1>1. page' = page
  BY PageShape DEF openPage
<1>2. CASE UNCHANGED tasks
  <2>1. timeouts' = <<>>
    <3>1. timeouts = <<>> /\ tasks[1] = "complete"
      BY <1>2 DEF RowIsCurrent
    <3>2. QED
      BY <3>1, TimeoutsShape DEF Stale
  <2>2. Done
    BY <1>2 DEF NoReturn
  <2>3. ASSUME NEW j \in DOMAIN answers', answers'[j].page = page, ~answers'[j].old
        PROVE  answers'[j].rows # <<"running">>
    <3>1. CASE answers'[j].rows \in {<<>>, Shown}
      BY <2>2, <3>1 DEF Done, Shown
    <3>2. CASE \E k \in DOMAIN answers :
                 /\ answers'[j].rows = answers[k].rows /\ answers'[j].page = answers[k].page
                 /\ answers'[j].what = answers[k].what /\ (answers[k].old => answers'[j].old)
      BY <1>2, <2>3, <3>2 DEF RowIsCurrent
    <3>3. QED
      BY <3>1, <3>2, AnswersOrigin
  <2>4. QED
    BY <1>1, <2>1, <2>3
<1>3. CASE \E i \in 1..Len(answers) :
             /\ answerGet(i) /\ answers[i].page = page
             /\ tasks' = answers[i].rows /\ timeouts' = <<>>
  <2> PICK i \in 1..Len(answers) :
             /\ answerGet(i) /\ answers[i].page = page
             /\ tasks' = answers[i].rows /\ timeouts' = <<>>
    BY <1>3
  <2>1. Take(i) /\ answers \in Seq(Answers) /\ i \in DOMAIN answers /\ i \in Nat
    BY DEF answerGet, Typed
  <2>2. ASSUME NEW j \in DOMAIN answers', ~answers'[j].old
        PROVE  answers'[j].rows # <<"running">>
    <3>1. j \in Nat
      BY <2>1, TakeLeaves
    <3>2. CASE j < i
      <4>1. j \in DOMAIN answers /\ answers'[j] = [answers[j] EXCEPT !.old = TRUE] /\ answers[j] \in Answers
        BY <2>1, <3>2, TakeLeaves
      <4>2. QED
        BY <2>2, <4>1 DEF Answers
    <3>3. CASE j >= i
      <4>1. j + 1 \in DOMAIN answers /\ answers'[j] = answers[j + 1] /\ i < j + 1
        BY <2>1, <3>1, <3>3, TakeLeaves
      <4>2. QED
        BY <2>1, <4>1 DEF AnswersOrdered
    <3>4. QED
      BY <2>1, <3>1, <3>2, <3>3
  <2>3. QED
    BY <2>2
<1>4. QED
  BY <1>2, <1>3, TasksShape DEF ToldStatuses

-----------------------------------------------------------------------------
(* The page catches up                                                     *)

\* Where an answer was before another one was taken.
LEMMA TakeOrigin ==
  ASSUME Typed, NEW i \in 1..Len(answers), Take(i), NEW k \in DOMAIN answers'
  PROVE  LET o == IF k < i THEN k ELSE k + 1 IN
         /\ k \in Nat /\ i \in Nat /\ o \in DOMAIN answers
         /\ answers'[k].what = answers[o].what /\ answers'[k].page = answers[o].page
         /\ answers'[k].rows = answers[o].rows
         /\ k < i \/ answers[o].old => answers'[k].old
<1>1. answers \in Seq(Answers) /\ i \in Nat /\ k \in Nat
  BY TakeLeaves DEF Typed
<1>2. CASE k < i
  <2>1. k \in DOMAIN answers /\ answers'[k] = [answers[k] EXCEPT !.old = TRUE] /\ answers[k] \in Answers
    BY <1>1, <1>2, TakeLeaves
  <2>2. QED
    BY <1>1, <1>2, <2>1 DEF Answers
<1>3. CASE k >= i
  <2>1. k + 1 \in DOMAIN answers /\ answers'[k] = answers[k + 1]
    BY <1>1, <1>3, TakeLeaves
  <2>2. QED
    BY <1>1, <1>3, <2>1
<1>4. QED
  BY <1>1, <1>2, <1>3

\* The answer that brings the record stays under way when another is taken.
LEMMA AnsweringStays ==
  ASSUME Typed, NEW i \in 1..Len(answers), Take(i), UNCHANGED <<page, record>>,
         NEW j \in DOMAIN answers, j # i, ForPage(j),
         \A k \in DOMAIN answers : j <= k /\ ForPage(k) => answers[k].rows = Shown
  PROVE  Answering'
<1> DEFINE l == IF j < i THEN j ELSE j - 1
<1>1. l \in DOMAIN answers' /\ j \in Nat /\ i \in Nat
  BY TakeLeaves DEF Typed
<1>2. l \in Nat /\ j = IF l < i THEN l ELSE l + 1
  BY <1>1
<1> HIDE DEF l
<1>3. answers'[l].what = "get" /\ answers'[l].page = page
  BY <1>1, <1>2, TakeOrigin DEF ForPage
<1>4. ASSUME NEW k \in DOMAIN answers', l <= k, answers'[k].what = "get", answers'[k].page = page
      PROVE  answers'[k].rows = Shown
  <2> DEFINE o == IF k < i THEN k ELSE k + 1
  <2>1. /\ k \in Nat /\ o \in DOMAIN answers /\ answers'[k].rows = answers[o].rows
        /\ answers'[k].what = answers[o].what /\ answers'[k].page = answers[o].page
    BY TakeOrigin
  <2>2. j <= o
    BY <1>1, <1>2, <1>4, <2>1
  <2>3. QED
    BY <1>4, <2>1, <2>2 DEF ForPage
<1>5. QED
  BY <1>1, <1>3, <1>4 DEF Answering, ForPage, Shown

\* Once an answer is taken, only those after it are not old.
LEMMA TakenIsLast ==
  ASSUME Typed, NEW i \in 1..Len(answers), Take(i), UNCHANGED <<page, record>>,
         \A k \in DOMAIN answers : i < k /\ ForPage(k) /\ ~answers[k].old => answers[k].rows = Shown
  PROVE  \A k \in DOMAIN answers' : ForPage(k)' /\ ~answers'[k].old => answers'[k].rows = Shown'
<1> SUFFICES ASSUME NEW k \in DOMAIN answers', answers'[k].what = "get", answers'[k].page = page,
                    ~answers'[k].old
             PROVE  answers'[k].rows = Shown
  BY DEF ForPage, Shown
<1> DEFINE o == IF k < i THEN k ELSE k + 1
<1>1. /\ k \in Nat /\ i \in Nat /\ o \in DOMAIN answers
      /\ answers'[k].what = answers[o].what /\ answers'[k].page = answers[o].page
      /\ answers'[k].rows = answers[o].rows
      /\ k < i \/ answers[o].old => answers'[k].old
  BY TakeOrigin
<1>2. i < o /\ ~answers[o].old
  BY <1>1
<1>3. QED
  BY <1>1, <1>2 DEF ForPage

\* What a step does not touch stays pledged.
LEMMA PledgeStays ==
  ASSUME UNCHANGED <<page, record, tasks, timeouts, answers>>,
         BagToSet(requests) \subseteq BagToSet(requests'), BagToSet(wire) \subseteq BagToSet(wire'),
         Asking \/ Announced \/ Answering \/ UpToDate
  PROVE  (Asking \/ Announced \/ Answering \/ UpToDate)'
<1>1. Shown' = Shown /\ \A k : ForPage(k)' <=> ForPage(k)
  BY DEF Shown, ForPage
<1>2. Asking => Asking'
  BY DEF Asking
<1>3. Announced => Announced'
  BY DEF Announced
<1>4. Answering => Answering'
  BY <1>1 DEF Answering
<1>5. UpToDate => UpToDate'
  BY <1>1 DEF UpToDate
<1>6. QED
  BY <1>2, <1>3, <1>4, <1>5

\* A refresh of the page asks.
LEMMA RefreshAsks ==
  ASSUME Typed, page > 0, page' = page, Refresh(page)
  PROVE  Asking'
<1>1. page \in Nat /\ page # 0 /\ Send("get", page)
  BY DEF Typed, Refresh
<1>2. BagToSet(requests') = BagToSet(requests) \union {[what |-> "get", page |-> page]}
  BY <1>1, SendTyped
<1>3. QED
  BY <1>2 DEF Asking

\* A refresh of any page, and a rejection, leaves what was asked.
LEMMA SendKeeps ==
  ASSUME Typed, NEW what, NEW p, Send(what, p)
  PROVE  BagToSet(requests) \subseteq BagToSet(requests')
BY BagAdds DEF Typed, Send

\* The steps after which there is something to tell.
PledgeDue == page > 0 /\ told /\ mishaps = {} /\ record \in {"complete", "absent"}
Pledge    == Asking \/ Announced \/ Answering \/ UpToDate

\* Executors and the connection keep the pledge, ...
LEMMA ServerPledged ==
  ASSUME Typed, Pledged, execute \/ clean \/ subscribeWS \/ disconnect, PledgeDue'
  PROVE  Pledge'
<1> USE DEF PledgeDue, Pledge
<1>1. UNCHANGED <<page, tasks, timeouts, mishaps, requests, answers>>
  BY DEF execute, clean, subscribeWS, disconnect, browser, http
<1>2. CASE told /\ record' = record /\ BagToSet(wire) \subseteq BagToSet(wire')
  <2>1. Asking \/ Announced \/ Answering \/ UpToDate
    BY <1>1, <1>2 DEF Pledged
  <2>2. QED
    BY <1>1, <1>2, <2>1, PledgeStays
<1>3. CASE execute
  <2>1. CASE Head(todo).op = "tell"
    <3> DEFINE m == [status |-> Head(todo).status, progress |-> Head(todo).progress]
    <3>1. /\ wire' = IF connected = "yes" THEN wire (+) SetToBag({m}) ELSE wire
          /\ told' = (told \/ (m.progress = 100 /\ connected = "yes")) /\ UNCHANGED record
      BY <1>3, <2>1, ExecuteShape DEF Notify
    <3> HIDE DEF m
    <3>2. BagToSet(wire (+) SetToBag({m})) = BagToSet(wire) \union {m}
      BY BagAdds DEF Typed
    <3>3. CASE m.progress = 100 /\ connected = "yes"
      <4>1. m \in BagToSet(wire')
        BY <3>1, <3>2, <3>3
      <4>2. QED
        BY <3>3, <4>1 DEF Announced
    <3>4. CASE ~(m.progress = 100 /\ connected = "yes")
      <4>1. BagToSet(wire) \subseteq BagToSet(wire')
        BY <3>1, <3>2
      <4>2. QED
        BY <1>2, <3>1, <3>4, <4>1
    <3>5. QED
      BY <3>3, <3>4
  <2>2. CASE Head(todo).op # "tell"
    <3>1. told /\ record' = record /\ UNCHANGED wire
      BY <1>3, <2>2, ExecuteShape DEF SetRecord
    <3>2. QED
      BY <1>2, <3>1
  <2>3. QED
    BY <2>1, <2>2
<1>4. CASE clean \/ subscribeWS
  <2>1. told /\ record' = record /\ UNCHANGED wire
    BY <1>4 DEF clean, subscribeWS, server
  <2>2. QED
    BY <1>2, <2>1
<1>5. CASE disconnect
  BY <1>5 DEF disconnect
<1>6. QED
  BY <1>3, <1>4, <1>5

\* ... as do clicks and timers, ...
LEMMA ClicksPledged ==
  ASSUME Typed, Pledged, openPage \/ clickRefresh \/ reject \/ applyTimeout, PledgeDue'
  PROVE  Pledge'
<1> USE DEF PledgeDue, Pledge
<1>1. CASE openPage
  <2>1. page' = page + 1 /\ Send("get", page + 1) /\ page + 1 \in Nat /\ page + 1 # 0
    BY <1>1 DEF openPage, Refresh, Typed
  <2>2. BagToSet(requests') = BagToSet(requests) \union {[what |-> "get", page |-> page + 1]}
    BY <2>1, SendTyped
  <2>3. QED
    BY <2>1, <2>2 DEF Asking
<1>2. CASE clickRefresh \/ reject
  <2>1. UNCHANGED <<page, tasks, timeouts, mishaps, record, told, wire, answers>>
    BY <1>2 DEF clickRefresh, reject, server, browser
  <2>2. BagToSet(requests) \subseteq BagToSet(requests')
    BY <1>2, SendKeeps DEF clickRefresh, reject, Refresh
  <2>3. Asking \/ Announced \/ Answering \/ UpToDate
    BY <2>1 DEF Pledged
  <2>4. QED
    BY <2>1, <2>2, <2>3, PledgeStays
<1>3. CASE applyTimeout
  <2>1. UNCHANGED <<page, mishaps, record, told, wire, requests, answers>> /\ timeouts # <<>>
    BY <1>3 DEF applyTimeout, server, http
  <2>2. Asking \/ Announced \/ Answering
    BY <2>1 DEF Pledged, UpToDate
  <2>3. Shown' = Shown /\ \A k : ForPage(k)' <=> ForPage(k)
    BY <2>1 DEF Shown, ForPage
  <2>4. QED
    BY <2>1, <2>2, <2>3 DEF Asking, Announced, Answering
<1>4. QED
  BY <1>1, <1>2, <1>3

\* ... notifications, ...
LEMMA ReceivePledged ==
  ASSUME Typed, Pledged, NEW m \in BagToSet(wire), receive(m), PledgeDue'
  PROVE  Pledge'
<1> USE DEF PledgeDue, Pledge
<1>1. /\ wire' = wire (-) SetToBag({m})
      /\ UNCHANGED <<record, page, tasks, answers, told>>
      /\ mishaps = {} /\ (m.progress = 100 => tasks # <<>>)
  BY DEF receive, server
<1>2. BagToSet(wire) \ {m} \subseteq BagToSet(wire')
  BY <1>1, BagTakes DEF Typed
<1>3. CASE Refresh(page)
  BY <1>1, <1>3, RefreshAsks
<1>4. CASE ~Refresh(page)
  <2>1. /\ UNCHANGED requests /\ m.progress # 100
        /\ timeouts' = timeouts \/ (tasks # <<>> /\ tasks[1] \notin Stale)
    BY <1>1, <1>4 DEF receive, updateTaskStatus
  <2>2. Asking \/ Announced \/ Answering \/ UpToDate
    BY <1>1 DEF Pledged
  <2>3. Shown' = Shown /\ \A k : ForPage(k)' <=> ForPage(k)
    BY <1>1 DEF Shown, ForPage
  <2>4. Asking => Asking'
    BY <1>1, <2>1 DEF Asking
  <2>5. Announced => Announced'
    BY <1>2, <2>1 DEF Announced
  <2>6. Answering => Answering'
    BY <1>1, <2>3 DEF Answering
  <2>7. ASSUME UpToDate
        PROVE  UpToDate'
    <3>1. tasks = <<>> \/ tasks = <<"complete">>
      BY <1>1, <2>7 DEF UpToDate, Shown
    <3>2. timeouts' = timeouts
      BY <2>1, <3>1 DEF Stale
    <3>3. QED
      BY <1>1, <2>3, <2>7, <3>2 DEF UpToDate
  <2>8. QED
    BY <2>2, <2>4, <2>5, <2>6, <2>7
<1>5. QED
  BY <1>3, <1>4

\* ... the server's answers, ...
LEMMA ServePledged ==
  ASSUME Typed, Pledged, NEW r \in BagToSet(requests), Serve(r), PledgeDue'
  PROVE  Pledge'
<1> USE DEF PledgeDue, Pledge
<1>0. PICK n \in Nat : n = Len(answers)
  BY DEF Typed
<1>1. /\ UNCHANGED <<page, tasks, timeouts, mishaps, record, wire>> /\ told
      /\ \/ r.what = "get" /\ Answer(r, Shown)
         \/ r.what = "delete" /\ Answer(r, <<>>)
  BY DEF Serve, getAllTasks, removeTask, SetRecord, browser, server
<1>2. PICK rows \in Rows : Answer(r, rows) /\ (r.what = "get" => rows = Shown)
  BY <1>1, ShownIsRows DEF Rows
<1>3. /\ BagToSet(requests) \ {r} \subseteq BagToSet(requests')
      /\ DOMAIN answers' = 1..(n + 1) /\ DOMAIN answers = 1..n /\ n \in Nat
      /\ \A j \in DOMAIN answers : answers'[j] = answers[j]
      /\ answers'[n + 1] = [what |-> r.what, page |-> r.page, rows |-> rows, old |-> FALSE]
  BY <1>0, <1>2, AnswerTyped
<1>4. Shown' = Shown /\ \A k \in DOMAIN answers : ForPage(k)' <=> ForPage(k)
  BY <1>1, <1>3 DEF Shown, ForPage
<1>5. ForPage(n + 1)' => answers'[n + 1].rows = Shown
  BY <1>2, <1>3 DEF ForPage
<1>6. Asking \/ Announced \/ Answering \/ UpToDate
  BY <1>1 DEF Pledged
<1>7. Announced => Announced'
  BY <1>1 DEF Announced
<1>8. ASSUME Asking
      PROVE  Asking' \/ Answering'
  <2>1. CASE r = [what |-> "get", page |-> page]
    <3>1. n + 1 \in DOMAIN answers' /\ ForPage(n + 1)'
      BY <1>1, <1>3, <2>1 DEF ForPage
    <3>2. \A k \in DOMAIN answers' : n + 1 <= k => k = n + 1
      BY <1>3
    <3>3. QED
      BY <1>4, <1>5, <3>1, <3>2 DEF Answering
  <2>2. CASE r # [what |-> "get", page |-> page]
    BY <1>1, <1>3, <1>8, <2>2 DEF Asking
  <2>3. QED
    BY <2>1, <2>2
<1>9. ASSUME Answering
      PROVE  Answering'
  <2>1. PICK j \in DOMAIN answers :
          ForPage(j) /\ \A k \in DOMAIN answers : j <= k /\ ForPage(k) => answers[k].rows = Shown
    BY <1>9 DEF Answering
  <2>2. j \in DOMAIN answers' /\ ForPage(j)'
    BY <1>3, <1>4, <2>1
  <2>3. ASSUME NEW k \in DOMAIN answers', j <= k, ForPage(k)'
        PROVE  answers'[k].rows = Shown
    BY <1>3, <1>4, <1>5, <2>1, <2>3
  <2>4. QED
    BY <1>4, <2>2, <2>3 DEF Answering
<1>10. ASSUME UpToDate
       PROVE  UpToDate'
  <2>1. ASSUME NEW k \in DOMAIN answers', ForPage(k)', ~answers'[k].old
        PROVE  answers'[k].rows = Shown
    BY <1>3, <1>4, <1>5, <1>10, <2>1 DEF UpToDate
  <2>2. QED
    BY <1>1, <1>4, <1>10, <2>1 DEF UpToDate
<1>11. QED
  BY <1>6, <1>7, <1>8, <1>9, <1>10

\* ... requests that fail, ...
LEMMA FailPledged ==
  ASSUME Typed, Pledged, NEW r \in BagToSet(requests), failGet(r), PledgeDue'
  PROVE  Pledge'
<1> USE DEF PledgeDue, Pledge
<1>1. /\ requests' = requests (-) SetToBag({r}) /\ r.page # page
      /\ UNCHANGED <<record, wire, page, answers, told, tasks, timeouts, mishaps>>
  BY DEF failGet, server
<1>2. BagToSet(requests) \ {r} \subseteq BagToSet(requests')
  BY <1>1, BagTakes DEF Typed
<1>3. Asking \/ Announced \/ Answering \/ UpToDate
  BY <1>1 DEF Pledged
<1>4. Asking => Asking'
  BY <1>1, <1>2 DEF Asking
<1>5. Shown' = Shown /\ \A k : ForPage(k)' <=> ForPage(k)
  BY <1>1 DEF Shown, ForPage
<1>6. QED
  BY <1>1, <1>3, <1>4, <1>5 DEF Announced, Answering, UpToDate

\* ... and the answers that arrive.
LEMMA ReturnPledged ==
  ASSUME Typed, Pledged, NEW i \in 1..Len(answers), Return(i), PledgeDue'
  PROVE  Pledge'
<1> USE DEF PledgeDue, Pledge
<1>0. requests' = requests \/ Send("get", answers[i].page)
  BY DEF Return, answerGet, answerDelete, Refresh
<1>1. /\ Take(i) /\ UNCHANGED <<page, record, wire>> /\ i \in Nat /\ i \in DOMAIN answers
      /\ BagToSet(requests) \subseteq BagToSet(requests')
  <2>1. PICK p : p = answers[i].page
    OBVIOUS
  <2>2. BagToSet(requests) \subseteq BagToSet(requests')
    BY <1>0, <2>1, SendKeeps
  <2>3. Take(i) /\ page' = page /\ record' = record /\ wire' = wire
    BY DEF Return, answerGet, answerDelete, server, browser
  <2>4. i \in Nat /\ i \in DOMAIN answers
    BY DEF Typed
  <2>5. QED
    BY <2>2, <2>3, <2>4
<1>2. ASSUME Asking \/ Announced
      PROVE  Asking' \/ Announced'
  BY <1>1, <1>2 DEF Asking, Announced
<1>3. CASE answerDelete(i) /\ answers[i].page = page
  BY <1>1, <1>3, RefreshAsks DEF answerDelete
<1>4. CASE (answerDelete(i) \/ answerGet(i)) /\ ~(ForPage(i) \/ answers[i].page = page)
  <2>1. told /\ UNCHANGED <<tasks, timeouts, mishaps>>
    BY <1>4 DEF answerDelete, answerGet, browser
  <2>2. Asking \/ Announced \/ Answering \/ UpToDate
    BY <1>1, <2>1 DEF Pledged
  <2>3. ASSUME Answering
        PROVE  Answering'
    <3>1. PICK j \in DOMAIN answers :
            ForPage(j) /\ \A k \in DOMAIN answers : j <= k /\ ForPage(k) => answers[k].rows = Shown
      BY <2>3 DEF Answering
    <3>2. j # i
      BY <1>4, <3>1
    <3>3. QED
      BY <1>1, <3>1, <3>2, AnsweringStays
  <2>4. ASSUME UpToDate
        PROVE  UpToDate'
    <3>1. Shown' = Shown
      BY <1>1 DEF Shown
    <3>2. QED
      BY <1>1, <2>1, <2>4, <3>1, TakenIsLast DEF UpToDate
  <2>5. QED
    BY <1>2, <2>2, <2>3, <2>4
<1>5. CASE answerGet(i) /\ answers[i].page = page
  <2>1. /\ ForPage(i) /\ told /\ ~answers[i].old /\ mishaps = {}
        /\ tasks' = answers[i].rows /\ timeouts' = <<>>
    BY <1>1, <1>5 DEF answerGet, ForPage
  <2>2. Asking \/ Announced \/ Answering \/ UpToDate
    BY <1>1, <2>1 DEF Pledged
  <2>3. Shown' = Shown
    BY <1>1 DEF Shown
  <2>4. ASSUME Answering
        PROVE  Answering' \/ UpToDate'
    <3>1. PICK j \in DOMAIN answers :
            ForPage(j) /\ \A k \in DOMAIN answers : j <= k /\ ForPage(k) => answers[k].rows = Shown
      BY <2>4 DEF Answering
    <3>2. j \in Nat
      BY <1>1, TakeLeaves DEF Typed
    <3>3. CASE i < j
      BY <1>1, <3>1, <3>2, <3>3, AnsweringStays
    <3>4. CASE j <= i
      <4>1. tasks' = Shown
        BY <1>1, <2>1, <3>1, <3>4
      <4>2. \A k \in DOMAIN answers : i < k /\ ForPage(k) /\ ~answers[k].old => answers[k].rows = Shown
        <5>1. \A k \in DOMAIN answers : k \in Nat
          BY <1>1, TakeLeaves DEF Typed
        <5>2. QED
          BY <1>1, <3>1, <3>2, <3>4, <5>1
      <4>3. QED
        BY <1>1, <2>1, <2>3, <4>1, <4>2, TakenIsLast DEF UpToDate
    <3>5. QED
      BY <1>1, <3>2, <3>3, <3>4
  <2>5. ASSUME UpToDate
        PROVE  UpToDate'
    BY <1>1, <2>1, <2>3, <2>5, TakenIsLast DEF UpToDate
  <2>6. QED
    BY <1>2, <2>2, <2>4, <2>5
<1>6. QED
  BY <1>3, <1>4, <1>5 DEF Return, ForPage

\* What was told is on its way to the page or shown, after every step.
LEMMA NextPledged == Typed /\ Pledged /\ [Next]_vars => Pledged'
<1> SUFFICES ASSUME Typed, Pledged, [Next]_vars, PledgeDue'
             PROVE  Pledge'
  BY DEF Pledged, PledgeDue, Pledge
<1>1. CASE UNCHANGED vars
  <2>1. UNCHANGED <<page, record, tasks, timeouts, answers, told, mishaps, requests, wire>>
    BY <1>1 DEF vars, server, browser, http
  <2>2. Asking \/ Announced \/ Answering \/ UpToDate
    BY <2>1 DEF Pledged, PledgeDue
  <2>3. QED
    BY <2>1, <2>2, PledgeStays DEF Pledge
<1>2. CASE Next
  BY <1>2, ServerPledged, ClicksPledged, ReceivePledged, ServePledged, FailPledged, ReturnPledged
     DEF Next
<1>3. QED
  BY <1>1, <1>2

-----------------------------------------------------------------------------
(* The theorems                                                            *)

\* The inductive invariant holds at first, ...
LEMMA InitIInv == Init => IInv
<1> SUFFICES ASSUME Init
             PROVE  IInv
  OBVIOUS
<1>1. PICK kind \in Kinds :
        /\ todo = Script(kind)
        /\ executor = [kind |-> kind, status |-> "queued", canceled |-> FALSE, pc |-> "runs"]
  BY DEF Init
<1>2. HasEnd(todo) /\ EndsWell(todo) /\ Ordered(todo)
  BY <1>1, ScriptsEnd DEF Statuses
<1>3. record = "queued" /\ tasks = <<>> /\ answers = <<>> /\ page = 0
  BY DEF Init
<1>4. NoReturn /\ AnswersOrdered /\ RowIsCurrent /\ Pledged
  BY <1>3 DEF NoReturn, AnswersOrdered, RowIsCurrent, Pledged
<1>5. QED
  BY <1>2, <1>4, InitTyped DEF IInv, EndsFinished

\* ... is kept by every step, ...
LEMMA NextIInv == IInv /\ [Next]_vars => IInv'
BY NextTyped, NextEnds, NextNoReturn, NextAnswersOrdered, NextRowIsCurrent, NextPledged DEF IInv

\* ... so it always holds.
THEOREM Invariance == Spec => []IInv
BY InitIInv, NextIInv, PTL DEF Spec

\* The type invariant, for any number of pages and of things that go wrong.
THEOREM TypeCorrectness == Spec => []TypeOK
BY Invariance, PTL DEF IInv, Typed

\* A complete row is not shown as running again, however late notifications,
\* timers and answers come, unless an answer that was read earlier comes later.
THEOREM CompleteRowsStay == Spec => CompleteStays
<1>1. ASSUME IInv, [Next]_vars, tasks = <<"complete">>, tasks' = <<"running">>
      PROVE  "overtaken" \in mishaps'
  <2>1. timeouts = <<>>
    BY <1>1 DEF IInv, RowIsCurrent
  <2>2. PICK i \in 1..Len(answers) :
          answerGet(i) /\ answers[i].page = page /\ tasks' = answers[i].rows
    BY <1>1, <2>1, TasksShape DEF IInv
  <2>3. answers[i].old
    BY <1>1, <2>2 DEF IInv, RowIsCurrent, Typed
  <2>4. QED
    BY <2>2, <2>3 DEF answerGet
<1>2. QED
  BY <1>1, Invariance, PTL DEF Spec, CompleteStays

\* Once all is quiet the page shows the record, if it was told of its last
\* change and nothing went wrong since it was opened.
THEOREM PageCatchesUp == Spec => []ViewCatchesUp
<1>1. IInv => ViewCatchesUp
  <2> SUFFICES ASSUME IInv, Quiet, told, mishaps = {}, record # "error"
               PROVE  tasks = Shown
    BY DEF ViewCatchesUp
  <2>1. record \in {"complete", "absent"}
    <3>1. CASE todo = <<>>
      BY <3>1 DEF IInv, EndsFinished, HasEnd
    <3>2. QED
      BY <3>1 DEF Quiet
  <2>2. ~Asking /\ ~Announced
    BY NoneInEmptyBag DEF Quiet, Asking, Announced
  <2>3. ~Answering
    BY DEF Quiet, Answering
  <2>4. UpToDate
    BY <2>1, <2>2, <2>3 DEF IInv, Pledged, Quiet
  <2>5. QED
    BY <2>4 DEF UpToDate
<1>2. QED
  BY <1>1, Invariance, PTL
==============================================================================

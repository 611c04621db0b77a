------------------------------ MODULE GrpcProc ------------------------------
(***************************************************************************)
(* GrpcProc of sra: a request queue, one grpc_proc thread that executes    *)
(* the requests, and a response store.  Callers submit a request and later *)
(* wait or poll for its response by id; controllers start and stop the     *)
(* thread.                                                                 *)
(*                                                                         *)
(* requestMutex_ matters at one place only: between the moment the thread  *)
(* finds its wait predicate false and the moment it sleeps it holds the    *)
(* mutex (wpc = "checked"), so nobody can push then; but stop() changes    *)
(* running_ and notifies without taking the mutex.                         *)
(***************************************************************************)
EXTENDS Naturals, Sequences

CONSTANTS
  Callers,      \* threads that submit requests and fetch responses
  Controllers,  \* threads that call start() and stop()
  MaxRequests   \* bound on the ids handed out by nextId_

ASSUME GrpcProcAssumption == MaxRequests \in Nat

Ids == 1 .. MaxRequests

VARIABLES
  running,      \* running_
  thread,       \* thread_ is joinable
  wpc,          \* where the grpc_proc thread is
  current,      \* the request it executes, as a set of at most one id
  queue,        \* requestQueue_: ids, oldest first
  responses,    \* responses_: ids with a stored response
  nextId,       \* nextId_
  cpc,          \* where each caller is
  mine,         \* the id of a caller's last request
  answers,      \* ids whose response a caller was given (history)
  kpc,          \* where each controller is
  terminated    \* std::terminate was called

workerVars == <<wpc, current>>
callerVars == <<nextId, cpc, mine, answers>>
controlVars == <<running, thread, kpc, terminated>>
vars == <<workerVars, callerVars, controlVars, queue, responses>>

Queued == {queue[k] : k \in 1 .. Len(queue)}
Answered == UNION {answers[c] : c \in Callers}

TypeOK ==
  /\ running \in BOOLEAN /\ thread \in BOOLEAN /\ terminated \in BOOLEAN
  /\ wpc \in {"none", "ready", "checked", "blocked", "rpc", "exited"}
  /\ current \in SUBSET Ids /\ (current # {} <=> wpc = "rpc")
  /\ queue \in Seq(Ids)
  /\ responses \in SUBSET Ids
  /\ nextId \in 1 .. MaxRequests + 1
  /\ cpc \in [Callers -> {"idle", "push", "notify", "wait"}]
  /\ mine \in [Callers -> Ids \cup {0}]
  /\ answers \in [Callers -> SUBSET Ids]
  /\ kpc \in [Controllers -> {"idle", "spawn", "notify", "join"}]

Init ==
  /\ running = FALSE /\ thread = FALSE /\ terminated = FALSE
  /\ wpc = "none" /\ current = {}
  /\ queue = <<>> /\ responses = {} /\ nextId = 1
  /\ cpc = [c \in Callers |-> "idle"]
  /\ mine = [c \in Callers |-> 0]
  /\ answers = [c \in Callers |-> {}]
  /\ kpc = [k \in Controllers |-> "idle"]

-----------------------------------------------------------------------------
(* The controllers: start() and stop().  start() on a running GrpcProc      *)
(* throws and stop() on a stopped one returns; neither changes anything.    *)

ControlStep(k, from, to) == kpc[k] = from /\ kpc' = [kpc EXCEPT ![k] = to]

\* running_.exchange(true) in start().
StartFlag(k) ==
  /\ ControlStep(k, "idle", "spawn")
  /\ ~running /\ running' = TRUE
  /\ UNCHANGED <<thread, terminated, workerVars, callerVars, queue, responses>>

\* thread_ = std::thread(...): assigning to a joinable thread terminates.
StartThread(k) ==
  /\ ControlStep(k, "spawn", "idle")
  /\ thread' = TRUE
  /\ terminated' = thread
  /\ wpc' = IF thread THEN wpc ELSE "ready"
  /\ UNCHANGED <<running, current, callerVars, queue, responses>>

\* running_.exchange(false) in stop(), with no lock held.
StopFlag(k) ==
  /\ ControlStep(k, "idle", "notify")
  /\ running /\ running' = FALSE
  /\ UNCHANGED <<thread, terminated, workerVars, callerVars, queue, responses>>

Woken == IF wpc = "blocked" THEN "ready" ELSE wpc

\* requestCv_.notify_all(): wakes the thread only if it already sleeps.
StopNotify(k) ==
  /\ ControlStep(k, "notify", "join")
  /\ wpc' = Woken
  /\ UNCHANGED <<running, thread, terminated, current, callerVars, queue,
                 responses>>

\* thread_.join(), or nothing when thread_ is not joinable.
StopJoin(k) ==
  /\ ControlStep(k, "join", "idle")
  /\ thread => wpc = "exited"
  /\ thread' = FALSE
  /\ wpc' = IF thread THEN "none" ELSE wpc
  /\ UNCHANGED <<running, terminated, current, callerVars, queue, responses>>

-----------------------------------------------------------------------------
(* The grpc_proc thread.                                                    *)

\* The wait predicate is false: the thread holds requestMutex_ and will sleep.
NothingToDo_NoStopTest == queue = <<>>
NothingToDo == queue = <<>> /\ running

CheckPredicate ==
  /\ wpc = "ready" /\ NothingToDo
  /\ wpc' = "checked"
  /\ UNCHANGED <<current, callerVars, controlVars, queue, responses>>

\* wait() releases the mutex and sleeps.
Sleep ==
  /\ wpc = "checked"
  /\ wpc' = "blocked"
  /\ UNCHANGED <<current, callerVars, controlVars, queue, responses>>

\* A condition variable may wake up for no reason.
SpuriousWake ==
  /\ wpc = "blocked"
  /\ wpc' = "ready"
  /\ UNCHANGED <<current, callerVars, controlVars, queue, responses>>

\* running_ is false and nothing is queued: the thread function returns.
MayExit_NoDrain == ~running
MayExit == ~running /\ queue = <<>>

Exit ==
  /\ wpc = "ready" /\ MayExit
  /\ wpc' = "exited"
  /\ UNCHANGED <<current, callerVars, controlVars, queue, responses>>

\* The oldest request leaves the queue, even when stop() was called.
Remaining_NotPopped == queue
Remaining == Tail(queue)

\* The request the thread moves out of the front of the queue.
Taken == {Head(queue)}

Dequeue ==
  /\ wpc = "ready" /\ queue # <<>>
  /\ current' = Taken
  /\ queue' = Remaining
  /\ wpc' = "rpc"
  /\ UNCHANGED <<callerVars, controlVars, responses>>

\* dispatch() returns, with a result or an error such as a deadline, and the
\* response is stored under responseMutex_.
StoreResponse ==
  /\ wpc = "rpc"
  /\ responses' = responses \cup current
  /\ current' = {}
  /\ wpc' = "ready"
  /\ UNCHANGED <<callerVars, controlVars, queue>>

-----------------------------------------------------------------------------
(* The callers: submit(), waitForResponse() and tryGetResponse().           *)

\* nextId_.fetch_add(1), before the lock is taken.
AllocateId(c) ==
  /\ cpc[c] = "idle" /\ nextId <= MaxRequests
  /\ cpc' = [cpc EXCEPT ![c] = "push"]
  /\ mine' = [mine EXCEPT ![c] = nextId]
  /\ nextId' = nextId + 1
  /\ UNCHANGED <<answers, workerVars, controlVars, queue, responses>>

\* Whoever pushes holds requestMutex_, which the checking thread holds too.
MutexFree_Ignored == TRUE
MutexFree == wpc # "checked"

Push(c) ==
  /\ cpc[c] = "push" /\ MutexFree
  /\ queue' = Append(queue, mine[c])
  /\ cpc' = [cpc EXCEPT ![c] = "notify"]
  /\ UNCHANGED <<nextId, mine, answers, workerVars, controlVars, responses>>

NotifyOne(c) ==
  /\ cpc[c] = "notify"
  /\ wpc' = Woken
  /\ cpc' = [cpc EXCEPT ![c] = "wait"]
  /\ UNCHANGED <<nextId, mine, answers, current, controlVars, queue, responses>>

\* responses_.erase(id).
Fetched_Kept(i) == responses
Fetched(i) == responses \ {i}

\* waitForResponse(i) or tryGetResponse(i) finds the response and moves it out;
\* any thread may ask for any id.
Fetch(c, i) ==
  /\ cpc[c] = "wait" /\ i \in responses
  /\ responses' = Fetched(i)
  /\ answers' = [answers EXCEPT ![c] = @ \cup {i}]
  /\ cpc' = [cpc EXCEPT ![c] = IF i = mine[c] THEN "idle" ELSE "wait"]
  /\ UNCHANGED <<nextId, mine, workerVars, controlVars, queue>>

\* waitForResponse times out: the caller gives up on its request.
GiveUp(c) ==
  /\ cpc[c] = "wait" /\ mine[c] \notin responses
  /\ cpc' = [cpc EXCEPT ![c] = "idle"]
  /\ UNCHANGED <<nextId, mine, answers, workerVars, controlVars, queue,
                 responses>>

-----------------------------------------------------------------------------

Worker == CheckPredicate \/ Sleep \/ Exit \/ Dequeue \/ StoreResponse

Control(k) == StartThread(k) \/ StopNotify(k) \/ StopJoin(k)

Next ==
  /\ ~terminated
  /\ \/ Worker \/ SpuriousWake
     \/ \E k \in Controllers : Control(k) \/ StartFlag(k) \/ StopFlag(k)
     \/ \E c \in Callers :
          \/ AllocateId(c) \/ Push(c) \/ NotifyOne(c) \/ GiveUp(c)
          \/ \E i \in Ids : Fetch(c, i)

\* Threads run; nobody has to submit, fetch, start or stop.  A thread that
\* tries to lock requestMutex_ again and again gets it.
Fairness ==
  /\ WF_vars(~terminated /\ Worker)
  /\ \A k \in Controllers : WF_vars(~terminated /\ Control(k))
  /\ \A c \in Callers : /\ SF_vars(~terminated /\ Push(c))
                        /\ WF_vars(~terminated /\ NotifyOne(c))

Spec == Init /\ [][Next]_vars /\ Fairness

-----------------------------------------------------------------------------
(* Properties.                                                              *)

\* submit() cannot lose its wake-up: a request waits for a sleeping thread
\* only while the caller that pushed it is about to notify.
NoStrandedRequest ==
  wpc = "blocked" /\ queue # <<>> => \E c \in Callers : cpc[c] = "notify"

\* The same, with every variable of its type.
QueueSound == TypeOK /\ NoStrandedRequest

\* A response is handed out at most once, whoever asks for it, and is gone
\* from the store afterwards.
ResponseOnce ==
  /\ \A c, d \in Callers : c # d => answers[c] \cap answers[d] = {}
  /\ Answered \cap responses = {}
  /\ (Answered \cup responses) \cap (Queued \cup current) = {}

\* Requests are processed one at a time, in queue order, at most once.
WQ == INSTANCE WorkQueue WITH Requests <- Ids, active <- current,
                              finished <- responses \cup Answered
WorkQueueSpec == WQ!Spec

\* A request queued while the thread lives is executed, even if stop() is
\* called: the thread drains the queue before it returns.  This is what
\* threadFunc() does.  grpc_proc.hpp says the opposite: stop() abandons the
\* requests that have not been dispatched.
QueuedIsExecuted ==
  \A i \in Ids :
    (i \in Queued /\ wpc \notin {"none", "exited"})
      ~> (i \in responses \cup Answered \/ terminated)

\* stop() returns unless it notified between the thread's last look at its
\* predicate and its sleep: that lost wake-up is the only way to hang in join().
StopReturnsIfAwake ==
  \A k \in Controllers :
    (kpc[k] = "join" /\ wpc \notin {"checked", "blocked"}) ~> (kpc[k] # "join" \/ terminated)
=============================================================================

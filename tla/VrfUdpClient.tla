---------------------------- MODULE VrfUdpClient ----------------------------
(***************************************************************************)
(* VrfUdpClient of sra: a queue of VRF route-add requests and one thread   *)
(* that delivers them to ud_server, each over an AF_UNIX connection of its *)
(* own.  A request that fails on the way is logged and forgotten.          *)
(*                                                                         *)
(* ud_server is external: it may apply a frame it received at any time,    *)
(* early, late or never, and then answers on the same connection.  It may  *)
(* also send bytes there that complete no frame; nb_recv_frame() reads     *)
(* them and polls again with the whole time-out.  The socket of a request  *)
(* is closed when its exchange is over.                                    *)
(***************************************************************************)
EXTENDS Naturals, Sequences

CONSTANTS
  Requests,    \* VrfsRouteRequest values, each submitted at most once
  Submitters   \* threads that call submit(); the owner is not one of them

VARIABLES
  stopRequested,  \* stopRequested_
  running,        \* running_
  thread,         \* thread_ is joinable
  opc,            \* where the owner is, who calls start() and stop()
  wpc,            \* where the thread is
  current,        \* the request in processRequest, as a set of at most one
  queue,          \* queue_
  spc,            \* where each submitter is
  inbox,          \* frames that reached ud_server and wait there
  applied,        \* requests ud_server has applied
  replies,        \* connections with an unread reply
  pieces,         \* connections with unread bytes that complete no frame
  outcome         \* how each request ended: none, dropped, unknown or acked

ownerVars == <<stopRequested, running, thread, opc>>
workerVars == <<wpc, current>>
serverVars == <<inbox, applied, replies, pieces>>
vars == <<ownerVars, workerVars, serverVars, queue, spc, outcome>>

Queued == {queue[k] : k \in 1 .. Len(queue)}
Over == {r \in Requests : outcome[r] # "none"}

TypeOK ==
  /\ stopRequested \in BOOLEAN /\ running \in BOOLEAN /\ thread \in BOOLEAN
  /\ opc \in {"idle", "notify", "join"}
  /\ wpc \in {"none", "head", "ready", "checked", "blocked", "encode",
              "connect", "send", "recv", "end", "exited"}
  /\ current \in SUBSET Requests
  /\ current # {} <=> wpc \in {"encode", "connect", "send", "recv"}
  /\ queue \in Seq(Requests)
  /\ spc \in [Submitters -> {"idle", "notify"}]
  /\ inbox \in SUBSET Requests
  /\ applied \in SUBSET Requests
  /\ replies \in SUBSET Requests
  /\ pieces \in SUBSET current
  /\ outcome \in [Requests -> {"none", "dropped", "unknown", "acked"}]

Init ==
  /\ stopRequested = FALSE /\ running = FALSE /\ thread = FALSE
  /\ opc = "idle" /\ wpc = "none" /\ current = {}
  /\ queue = <<>>
  /\ spc = [s \in Submitters |-> "idle"]
  /\ inbox = {} /\ applied = {} /\ replies = {} /\ pieces = {}
  /\ outcome = [r \in Requests |-> "none"]

-----------------------------------------------------------------------------
(* The owner: start() and stop().                                           *)

Start ==
  /\ opc = "idle" /\ ~running
  /\ stopRequested' = FALSE /\ running' = TRUE /\ thread' = TRUE
  /\ wpc' = "head"
  /\ UNCHANGED <<opc, current, serverVars, queue, spc, outcome>>

\* stop() stores the flag with no lock held; it may be called at any time.
StopFlag ==
  /\ opc = "idle"
  /\ stopRequested' = TRUE
  /\ opc' = "notify"
  /\ UNCHANGED <<running, thread, workerVars, serverVars, queue, spc, outcome>>

\* What a notify does: it wakes the thread only if it already sleeps.
Woken_NoNotify == wpc
Woken == IF wpc = "blocked" THEN "ready" ELSE wpc

StopNotify ==
  /\ opc = "notify"
  /\ opc' = "join"
  /\ wpc' = Woken
  /\ UNCHANGED <<stopRequested, running, thread, current, serverVars, queue,
                 spc, outcome>>

StopJoin ==
  /\ opc = "join" /\ (thread => wpc = "exited")
  /\ opc' = "idle" /\ thread' = FALSE
  /\ wpc' = "none"
  /\ UNCHANGED <<stopRequested, running, current, serverVars, queue, spc,
                 outcome>>

-----------------------------------------------------------------------------
(* submit().                                                                *)

\* Whoever pushes holds queueMutex_, which the checking thread holds too.
MutexFree_Ignored == TRUE
MutexFree == wpc # "checked"

\* A request that was neither queued nor processed before.
Fresh(r) == r \notin Queued \cup current \cup Over

Push(s, r) ==
  /\ spc[s] = "idle" /\ MutexFree /\ Fresh(r)
  /\ queue' = Append(queue, r)
  /\ spc' = [spc EXCEPT ![s] = "notify"]
  /\ UNCHANGED <<ownerVars, workerVars, serverVars, outcome>>

NotifyOne(s) ==
  /\ spc[s] = "notify"
  /\ spc' = [spc EXCEPT ![s] = "idle"]
  /\ wpc' = Woken
  /\ UNCHANGED <<ownerVars, current, serverVars, queue, outcome>>

-----------------------------------------------------------------------------
(* threadFunc().                                                            *)

Goto(from, to) == wpc = from /\ wpc' = to

\* while (!stopRequested_): queued requests are left behind once it is set.
LoopHead ==
  /\ Goto("head", IF stopRequested THEN "end" ELSE "ready")
  /\ UNCHANGED <<ownerVars, current, serverVars, queue, spc, outcome>>

\* The wait predicate is false: the thread holds queueMutex_ and will sleep.
NothingToDo == queue = <<>> /\ ~stopRequested

CheckPredicate ==
  /\ NothingToDo
  /\ Goto("ready", "checked")
  /\ UNCHANGED <<ownerVars, current, serverVars, queue, spc, outcome>>

Sleep ==
  /\ Goto("checked", "blocked")
  /\ UNCHANGED <<ownerVars, current, serverVars, queue, spc, outcome>>

SpuriousWake ==
  /\ Goto("blocked", "ready")
  /\ UNCHANGED <<ownerVars, current, serverVars, queue, spc, outcome>>

WakeToStop ==
  /\ stopRequested /\ queue = <<>>
  /\ Goto("ready", "end")
  /\ UNCHANGED <<ownerVars, current, serverVars, queue, spc, outcome>>

Remaining_NotPopped == queue
Remaining == Tail(queue)

\* The request the thread moves out of the front of the queue.
Taken == {Head(queue)}

Dequeue ==
  /\ queue # <<>>
  /\ Goto("ready", "encode")
  /\ current' = Taken
  /\ queue' = Remaining
  /\ UNCHANGED <<ownerVars, serverVars, spc, outcome>>

Exit ==
  /\ Goto("end", "exited")
  /\ running' = FALSE
  /\ UNCHANGED <<stopRequested, thread, opc, current, serverVars, queue, spc,
                 outcome>>

-----------------------------------------------------------------------------
(* processRequest().  Every early return closes the socket of the request.  *)

\* The exchange of request r is over: its connection is gone with its socket.
EndExchange(r, how) ==
  /\ wpc' = "head"
  /\ current' = {}
  /\ outcome' = [outcome EXCEPT ![r] = how]
  /\ replies' = replies \ {r}
  /\ pieces' = pieces \ {r}

\* Encoding, socket(), connect() or send() fails before the frame is out.
FailBeforeSend(r) ==
  /\ wpc \in {"encode", "connect", "send"} /\ r \in current
  /\ EndExchange(r, "dropped")
  /\ UNCHANGED <<ownerVars, inbox, applied, queue, spc>>

Encode(r) ==
  /\ r \in current /\ Goto("encode", "connect")
  /\ UNCHANGED <<ownerVars, current, serverVars, queue, spc, outcome>>

Connect(r) ==
  /\ r \in current /\ Goto("connect", "send")
  /\ UNCHANGED <<ownerVars, current, serverVars, queue, spc, outcome>>

SendFrame(r) ==
  /\ r \in current /\ Goto("send", "recv")
  /\ inbox' = inbox \cup {r}
  /\ UNCHANGED <<ownerVars, current, applied, replies, pieces, queue, spc,
                 outcome>>

\* The reply a recv() on the socket of r can return.  Its msg_id is not
\* compared with the request's: the connection alone tells them apart.
ReplyFor_AnyConnection(r) == applied # {}
ReplyFor(r) == r \in replies

ReceiveReply(r) ==
  /\ wpc = "recv" /\ r \in current /\ ReplyFor(r)
  /\ EndExchange(r, "acked")
  /\ UNCHANGED <<ownerVars, inbox, applied, queue, spc>>

\* All that arrived are bytes that complete no frame: they go into the buffer,
\* and the loop polls again with a new time-out.
ReceivePiece(r) ==
  /\ wpc = "recv" /\ r \in pieces \ replies
  /\ pieces' = pieces \ {r}
  /\ UNCHANGED <<ownerVars, workerVars, inbox, applied, replies, queue, spc,
                 outcome>>

\* The poll() times out, the peer closes, or a frame comes that does not decode:
\* none of it while nothing but bytes of an unfinished frame is there to read.
ReceiveFails(r) ==
  /\ wpc = "recv" /\ r \in current /\ r \notin pieces \ replies
  /\ EndExchange(r, "unknown")
  /\ UNCHANGED <<ownerVars, inbox, applied, queue, spc>>

-----------------------------------------------------------------------------
(* ud_server (external).                                                    *)

\* It applies a frame and answers, if the connection is still there.
ServerApply(r) ==
  /\ r \in inbox
  /\ inbox' = inbox \ {r}
  /\ applied' = applied \cup {r}
  /\ replies' = IF r \in current THEN replies \cup {r} ELSE replies
  /\ UNCHANGED <<ownerVars, workerVars, pieces, queue, spc, outcome>>

\* It sends bytes on an open connection, but no delimiter that ends a frame.
SendPiece(r) ==
  /\ wpc \in {"send", "recv"} /\ r \in current
  /\ pieces' = pieces \cup {r}
  /\ UNCHANGED <<ownerVars, workerVars, inbox, applied, replies, queue, spc,
                 outcome>>

-----------------------------------------------------------------------------

Exchange(r) ==
  \/ FailBeforeSend(r) \/ Encode(r) \/ Connect(r) \/ SendFrame(r)
  \/ ReceiveReply(r) \/ ReceivePiece(r) \/ ReceiveFails(r)

Worker ==
  \/ LoopHead \/ CheckPredicate \/ Sleep \/ WakeToStop \/ Dequeue \/ Exit
  \/ \E r \in Requests : Exchange(r)

Owner == StopNotify \/ StopJoin

Next ==
  \/ Worker \/ SpuriousWake
  \/ Start \/ StopFlag \/ Owner
  \/ \E s \in Submitters : NotifyOne(s) \/ \E r \in Requests : Push(s, r)
  \/ \E r \in Requests : ServerApply(r) \/ SendPiece(r)

\* The threads run, and a poll() returns when something came or its time is
\* over.  Nobody has to submit or to stop, and ud_server may never answer.
Fairness ==
  /\ WF_vars(Worker)
  /\ WF_vars(Owner)
  /\ \A s \in Submitters : WF_vars(NotifyOne(s))

Spec == Init /\ [][Next]_vars /\ Fairness

-----------------------------------------------------------------------------
(* Properties.                                                              *)

\* submit() cannot lose its wake-up.
NoStrandedRequest ==
  wpc = "blocked" /\ queue # <<>> => \E s \in Submitters : spc[s] = "notify"

\* PASS is reported only for a request ud_server applied, although replies
\* carry no checked identity, may be late and follow timed-out requests.
AckMeansApplied == \A r \in Requests : outcome[r] = "acked" => r \in applied

\* The exchange and the queue together: no wake-up of submit() is lost, an
\* acknowledged request was applied, and every variable has its type.
ExchangeSound == TypeOK /\ NoStrandedRequest /\ AckMeansApplied

\* Requests are processed one at a time, in queue order, at most once.
WQ == INSTANCE WorkQueue WITH active <- current, finished <- Over
WorkQueueSpec == WQ!Spec

\* ud_server does not go on for ever sending pieces of a frame that it never
\* finishes: the one thing a peer can do to keep the thread, since the time-out
\* of nb_recv_frame() begins again with each of them.
DribblesEnd == <>[](pieces = {})

\* Silent, closed and failing peers never wedge the thread: a queued request is
\* attempted unless stop() is called first.
QueuedIsAttempted ==
  DribblesEnd =>
    \A r \in Requests :
      (r \in Queued /\ wpc \notin {"none", "end", "exited"})
        ~> (r \in Over \/ stopRequested)
=============================================================================

------------------------- MODULE VrfUdpClientProofs -------------------------
(***************************************************************************)
(* Proofs about VrfUdpClient, for any number of submitters and requests:   *)
(* no request is stranded, PASS is reported only for what ud_server        *)
(* applied, and the queue implements WorkQueue.                            *)
(***************************************************************************)
EXTENDS VrfUdpClient, SequenceTheorems, TLAPS

\* Why ExchangeSound is kept: a reply is unread only on the connection of a
\* request that was applied; the thread sleeps only on a queue it saw empty;
\* it runs between its start and its exit, exists between its start and its
\* join, and leaves its loop only once a stop was requested.
ExchangeInv ==
  /\ ExchangeSound
  /\ replies \subseteq applied
  /\ wpc = "checked" => queue = <<>>
  /\ running <=> wpc \notin {"none", "exited"}
  /\ thread <=> wpc # "none"
  /\ wpc \in {"end", "exited"} => stopRequested
  /\ opc = "idle" /\ stopRequested => ~thread
  /\ \A q, r \in current : q = r

LEMMA ExchangeInit == Init => ExchangeInv
<1> SUFFICES ASSUME Init PROVE ExchangeInv
  OBVIOUS
<1>1. TypeOK
  <2>1. stopRequested \in BOOLEAN /\ running \in BOOLEAN /\ thread \in BOOLEAN
    BY Zenon DEF Init
  <2>2. wpc = "none" /\ current = {} /\ queue \in Seq(Requests)
    BY DEF Init
  <2> QED BY <2>1, <2>2 DEF Init, TypeOK
<1>2. ~running /\ ~thread /\ ~stopRequested
  BY Zenon DEF Init
<1> QED
  BY <1>1, <1>2 DEF Init, ExchangeInv, ExchangeSound, NoStrandedRequest,
                    AckMeansApplied

LEMMA ExchangeOwner ==
  ASSUME ExchangeInv, Start \/ StopFlag \/ Owner
  PROVE  ExchangeInv'
<1> USE DEF ExchangeInv, ExchangeSound, TypeOK, NoStrandedRequest,
            AckMeansApplied, ownerVars, workerVars, serverVars
<1>1. CASE Start
  BY <1>1 DEF Start
<1>2. CASE StopFlag
  BY <1>2 DEF StopFlag
<1>3. CASE StopNotify
  BY <1>3 DEF StopNotify, Woken
<1>4. CASE StopJoin
  BY <1>4 DEF StopJoin
<1> QED BY <1>1, <1>2, <1>3, <1>4 DEF Owner

LEMMA ExchangeSubmit ==
  ASSUME ExchangeInv, NEW s \in Submitters,
         NotifyOne(s) \/ \E r \in Requests : Push(s, r)
  PROVE  ExchangeInv'
<1> USE DEF ExchangeInv, ExchangeSound, TypeOK, NoStrandedRequest,
            AckMeansApplied, ownerVars, workerVars, serverVars
<1>1. CASE NotifyOne(s)
  BY <1>1 DEF NotifyOne, Woken
<1>2. ASSUME NEW r \in Requests, Push(s, r) PROVE ExchangeInv'
  BY <1>2, AppendProperties DEF Push, MutexFree
<1> QED BY <1>1, <1>2

LEMMA ExchangeLoop ==
  ASSUME ExchangeInv,
         \/ LoopHead \/ CheckPredicate \/ Sleep \/ SpuriousWake \/ WakeToStop
         \/ Dequeue \/ Exit
  PROVE  ExchangeInv'
<1> USE DEF ExchangeInv, ExchangeSound, TypeOK, NoStrandedRequest,
            AckMeansApplied, ownerVars, workerVars, serverVars, Goto
<1>1. CASE LoopHead
  BY <1>1 DEF LoopHead
<1>2. CASE CheckPredicate
  BY <1>2 DEF CheckPredicate, NothingToDo
<1>3. CASE Sleep \/ SpuriousWake
  BY <1>3 DEF Sleep, SpuriousWake
<1>4. CASE WakeToStop
  BY <1>4 DEF WakeToStop
<1>5. CASE Dequeue
  BY <1>5, HeadTailProperties DEF Dequeue, Taken, Remaining
<1>6. CASE Exit
  BY <1>6 DEF Exit
<1> QED BY <1>1, <1>2, <1>3, <1>4, <1>5, <1>6

LEMMA ExchangeRequest ==
  ASSUME ExchangeInv, NEW r \in Requests, Exchange(r) \/ ServerApply(r) \/ SendPiece(r)
  PROVE  ExchangeInv'
<1> USE DEF ExchangeInv, ExchangeSound, TypeOK, NoStrandedRequest,
            AckMeansApplied, ownerVars, workerVars, serverVars, Goto
<1>1. CASE FailBeforeSend(r)
  BY <1>1 DEF FailBeforeSend, EndExchange
<1>2. CASE Encode(r) \/ Connect(r)
  BY <1>2 DEF Encode, Connect
<1>3. CASE SendFrame(r)
  BY <1>3 DEF SendFrame
<1>4. CASE ReceiveReply(r)
  BY <1>4 DEF ReceiveReply, ReplyFor, EndExchange
<1>5. CASE ReceiveFails(r)
  BY <1>5 DEF ReceiveFails, EndExchange
<1>6. CASE ReceivePiece(r)
  BY <1>6 DEF ReceivePiece
<1>7. CASE ServerApply(r)
  BY <1>7 DEF ServerApply
<1>8. CASE SendPiece(r)
  BY <1>8 DEF SendPiece
<1> QED BY <1>1, <1>2, <1>3, <1>4, <1>5, <1>6, <1>7, <1>8 DEF Exchange

LEMMA ExchangeNext == ExchangeInv /\ [Next]_vars => ExchangeInv'
<1> SUFFICES ASSUME ExchangeInv, [Next]_vars PROVE ExchangeInv'
  OBVIOUS
<1>1. CASE UNCHANGED vars
  BY <1>1 DEF vars, ownerVars, workerVars, serverVars, ExchangeInv,
              ExchangeSound, TypeOK, NoStrandedRequest, AckMeansApplied
<1> QED
  BY <1>1, ExchangeOwner, ExchangeSubmit, ExchangeLoop, ExchangeRequest
     DEF Next, Worker

\* No wake-up of submit() is lost and PASS means applied, although ud_server
\* may apply a frame after its connection timed out, and although the client
\* does not compare the msg_id of a reply: the connection per request does it.
THEOREM ExchangeIsSound == Spec => []ExchangeSound
<1>1. ExchangeInv => ExchangeSound
  BY DEF ExchangeInv
<1> QED BY <1>1, ExchangeInit, ExchangeNext, PTL DEF Spec

-----------------------------------------------------------------------------
(* The queue implements WorkQueue.                                          *)

LEMMA WorkQueueInit == Init => WQ!Init
BY DEF Init, WQ!Init, Over

\* The end of the exchange of a request is what WorkQueue calls Finish.
LEMMA EndIsFinish ==
  ASSUME ExchangeInv, NEW r \in current, UNCHANGED queue,
         NEW how \in {"dropped", "unknown", "acked"}, EndExchange(r, how)
  PROVE  WQ!Finish
<1>1. current = {r} /\ r \in Requests
  BY DEF ExchangeInv, ExchangeSound, TypeOK
<1>2. Over' = Over \cup {r}
  BY <1>1 DEF EndExchange, Over, ExchangeInv, ExchangeSound, TypeOK
<1> QED BY <1>1, <1>2 DEF EndExchange, WQ!Finish

LEMMA WorkQueueNext == ExchangeInv /\ [Next]_vars => [WQ!Next]_WQ!vars
<1> SUFFICES ASSUME ExchangeInv, [Next]_vars PROVE [WQ!Next]_WQ!vars
  OBVIOUS
<1>1. ASSUME UNCHANGED <<queue, current, outcome>> PROVE UNCHANGED WQ!vars
  BY <1>1 DEF WQ!vars, Over
<1>2. CASE Dequeue
  <2>1. queue # <<>> /\ current = {} /\ UNCHANGED outcome
    BY <1>2 DEF Dequeue, Goto, ExchangeInv, ExchangeSound, TypeOK
  <2>2. WQ!Begin
    BY <1>2, <2>1 DEF Dequeue, Taken, Remaining, WQ!Begin, Over
  <2> QED BY <2>2 DEF WQ!Next
<1>3. ASSUME NEW s \in Submitters, NEW r \in Requests, Push(s, r)
      PROVE  WQ!Next
  <2>1. /\ r \notin WQ!Waiting \cup current \cup Over
        /\ queue' = Append(queue, r) /\ UNCHANGED <<current, outcome>>
    BY <1>3 DEF Push, Fresh, Queued, WQ!Waiting, workerVars
  <2>2. WQ!Submit(r)
    BY <2>1 DEF WQ!Submit, Over
  <2> QED BY <2>2 DEF WQ!Next
<1>4. ASSUME NEW r \in Requests,
             FailBeforeSend(r) \/ ReceiveReply(r) \/ ReceiveFails(r)
      PROVE  WQ!Next
  BY <1>4, EndIsFinish DEF FailBeforeSend, ReceiveReply, ReceiveFails, WQ!Next
<1>5. ASSUME NEW r \in Requests,
             \/ Encode(r) \/ Connect(r) \/ SendFrame(r) \/ ReceivePiece(r)
             \/ ServerApply(r) \/ SendPiece(r)
      PROVE  UNCHANGED WQ!vars
  BY <1>1, <1>5 DEF Encode, Connect, SendFrame, ReceivePiece, ServerApply,
                    SendPiece, workerVars
<1>6. CASE \/ LoopHead \/ CheckPredicate \/ Sleep \/ SpuriousWake \/ WakeToStop
           \/ Exit \/ UNCHANGED vars
  BY <1>1, <1>6 DEF LoopHead, CheckPredicate, Sleep, SpuriousWake, WakeToStop,
                    Exit, vars, workerVars
<1>7. CASE Start \/ StopFlag \/ Owner \/ \E s \in Submitters : NotifyOne(s)
  BY <1>1, <1>7 DEF Start, StopFlag, Owner, StopNotify, StopJoin, NotifyOne,
                    workerVars
<1> QED
  BY <1>2, <1>3, <1>4, <1>5, <1>6, <1>7 DEF Next, Worker, Exchange

\* Requests are attempted one at a time, in queue order and at most once, and
\* one leaves the queue only to be attempted; every attempt ends as dropped,
\* unknown or acknowledged.
THEOREM ImplementsWorkQueue == Spec => WorkQueueSpec
<1> QED
  BY ExchangeInit, ExchangeNext, WorkQueueInit, WorkQueueNext, PTL
     DEF Spec, WorkQueueSpec, WQ!Spec
=============================================================================

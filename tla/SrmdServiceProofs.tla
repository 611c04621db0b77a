-------------------------- MODULE SrmdServiceProofs --------------------------
(***************************************************************************)
(* Proofs about SrmdService, for any number of starts of srmd, commands    *)
(* and files: the PID file names the daemon that lives.                    *)
(***************************************************************************)
EXTENDS SrmdService, FiniteSetTheorems, TLAPS

-----------------------------------------------------------------------------
(* Types.                                                                   *)

\* What a start of srmd consists of; its SOT, configuration and routes are the files'.
Fields == {"at", "foreground", "sot", "conf", "handlers", "stop", "reload", "fd",
           "written", "alone", "routes", "added", "loopback"}
States == {"unborn", "ended", "killed", "writing", "written", "starting",
           "serving", "stopping"}
ProcType ==
  /\ DOMAIN srmd = Pids
  /\ \A p \in Pids :
       /\ DOMAIN srmd[p] = Fields /\ srmd[p].at \in States
       /\ srmd[p].foreground \in BOOLEAN /\ srmd[p].written \in BOOLEAN
       /\ srmd[p].alone \in BOOLEAN
  /\ DOMAIN pidfile = {"ino", "text"}
  /\ faults \in Nat


LEMMA PidFacts == 0 \notin Pids /\ \A p \in Pids : p \in Nat
<1>1. Cardinality(Pids) \in Nat
  BY ServiceAssumption, FS_CardinalityType
<1>2. \A p \in 1 .. Cardinality(Pids) : p \in Nat /\ p # 0
  BY <1>1
<1> QED BY <1>2, ServiceAssumption

-----------------------------------------------------------------------------
(* The PID file.                                                            *)

Daemon(p) == Live(p) /\ ~srmd[p].foreground

\* The starts of srmd are born in order; a process that has opened the PID file
\* is a daemon, one that lives beside another is not alone, and one that is
\* alone writes the file that is there.
BornInOrder == \E n \in Nat : {p \in Pids : srmd[p].at # "unborn"} = 1 .. n
WriterInv ==
  \A p \in Pids :
    /\ Live(p) /\ srmd[p].written => Daemon(p)
    /\ srmd[p].at = "writing" => Daemon(p) /\ srmd[p].written /\ srmd[p].fd # 0
    /\ srmd[p].at = "writing" /\ srmd[p].alone
         => pidfile.ino = srmd[p].fd /\ pidfile.text = 0
AloneInv == \A p, q \in Pids : Daemon(p) /\ Daemon(q) /\ p # q => ~srmd[p].alone

PidInv == PidFileSound /\ BornInOrder /\ WriterInv /\ AloneInv

LEMMA UnbornFacts ==
  /\ DOMAIN Unborn = Fields /\ Unborn.at = "unborn"
  /\ Unborn.foreground = FALSE /\ Unborn.written = FALSE /\ Unborn.alone = TRUE
BY DEF Unborn, Fields

\* What the PID file depends on, the stage of its life left aside.
SameBut(p, r) ==
  /\ DOMAIN r = Fields
  /\ r.foreground = srmd[p].foreground /\ r.written = srmd[p].written
  /\ r.alone = srmd[p].alone /\ r.fd = srmd[p].fd

\* A step of p that neither opens nor writes the file and does not end p.
LEMMA PidKept ==
  ASSUME ProcType, PidInv, NEW p \in Pids, NEW r, srmd' = [srmd EXCEPT ![p] = r],
         SameBut(p, r),
         \/ r.at = srmd[p].at
         \/ {r.at, srmd[p].at} \subseteq {"written", "starting", "serving", "stopping"},
         pidfile' = pidfile, faults' \in Nat, faults' >= faults
  PROVE  ProcType' /\ PidInv'
<1>1. /\ srmd'[p] = r /\ \A q \in Pids \ {p} : srmd'[q] = srmd[q]
      /\ DOMAIN srmd' = Pids
  BY DEF ProcType
<1>2. ProcType'
  BY <1>1 DEF ProcType, SameBut, States
<1>3. /\ \A q \in Pids :
           /\ srmd'[q].foreground = srmd[q].foreground
           /\ srmd'[q].written = srmd[q].written
           /\ srmd'[q].alone = srmd[q].alone /\ srmd'[q].fd = srmd[q].fd
           /\ \/ srmd'[q].at = srmd[q].at
              \/ /\ srmd'[q].at \in {"written", "starting", "serving", "stopping"}
                 /\ srmd[q].at \in {"written", "starting", "serving", "stopping"}
  BY <1>1 DEF SameBut
<1>4. \A q \in Pids :
        /\ Live(q)' <=> Live(q)
        /\ Daemon(q)' <=> Daemon(q)
        /\ srmd'[q].at = "writing" <=> srmd[q].at = "writing"
        /\ srmd'[q].at = "killed" <=> srmd[q].at = "killed"
        /\ srmd'[q].at = "unborn" <=> srmd[q].at = "unborn"
  BY <1>3 DEF Live, Daemon
<1>5. faults > 0 => faults' > 0
  BY DEF ProcType
<1>6. PidFileSound'
  BY <1>3, <1>4, <1>5 DEF PidInv, PidFileSound
<1>7. BornInOrder'
  BY <1>4 DEF PidInv, BornInOrder
<1>8. WriterInv' /\ AloneInv'
  BY <1>3, <1>4 DEF PidInv, WriterInv, AloneInv
<1> QED BY <1>2, <1>6, <1>7, <1>8 DEF PidInv

\* p is gone: killed, or back from main.
LEMMA GoneFields ==
  ASSUME ProcType, NEW p \in Pids, NEW at \in {"killed", "ended"}, Gone(p, at)
  PROVE  /\ srmd'[p].at = at /\ srmd'[p].fd = srmd[p].fd
         /\ \A q \in Pids \ {p} : srmd'[q] = srmd[q]
         /\ DOMAIN srmd' = Pids /\ DOMAIN srmd'[p] = Fields
         /\ srmd'[p].foreground = FALSE /\ srmd'[p].written = FALSE
         /\ srmd'[p].alone = TRUE
<1>1. /\ srmd'[p] = [Unborn EXCEPT !.at = at, !.sot = srmd[p].sot, !.fd = srmd[p].fd]
      /\ \A q \in Pids \ {p} : srmd'[q] = srmd[q]
      /\ DOMAIN srmd' = Pids
  BY DEF Gone, ProcType
<1> QED BY <1>1 DEF Unborn, Fields

\* The others when p is gone.
LEMMA GoneKeeps ==
  ASSUME ProcType, PidInv, NEW p \in Pids, NEW at \in {"killed", "ended"}, Gone(p, at),
         Live(p), faults' \in Nat
  PROVE  /\ DOMAIN pidfile' = {"ino", "text"} => ProcType'
         /\ BornInOrder' /\ AloneInv'
         /\ \A q \in Pids \ {p} : /\ Live(q)' <=> Live(q)
                                  /\ Daemon(q)' <=> Daemon(q)
         /\ ~Live(p)' /\ ~Daemon(p)'
<1>1. /\ srmd'[p].at = at /\ \A q \in Pids \ {p} : srmd'[q] = srmd[q]
      /\ DOMAIN srmd' = Pids /\ DOMAIN srmd'[p] = Fields
      /\ srmd'[p].foreground = FALSE /\ srmd'[p].written = FALSE
      /\ srmd'[p].alone = TRUE
  BY GoneFields
<1>2. /\ \A q \in Pids \ {p} : /\ Live(q)' <=> Live(q)
                               /\ Daemon(q)' <=> Daemon(q)
      /\ ~Live(p)' /\ ~Daemon(p)'
  BY <1>1 DEF Live, Daemon
<1>3. DOMAIN pidfile' = {"ino", "text"} => ProcType'
  BY <1>1 DEF ProcType, States
<1>4. BornInOrder'
  <2>1. \A q \in Pids : srmd'[q].at # "unborn" <=> srmd[q].at # "unborn"
    BY <1>1 DEF Live
  <2> QED BY <2>1 DEF PidInv, BornInOrder
<1>5. AloneInv'
  BY <1>1, <1>2 DEF PidInv, AloneInv
<1> QED BY <1>2, <1>3, <1>4, <1>5

\* A killed process leaves the file behind.
LEMMA PidKilled ==
  ASSUME ProcType, PidInv, NEW p \in Pids, Gone(p, "killed"), Live(p),
         pidfile' = pidfile, faults' \in Nat, faults' >= faults
  PROVE  ProcType' /\ PidInv'
<1>1. /\ srmd'[p].at = "killed" /\ srmd'[p].fd = srmd[p].fd
      /\ \A q \in Pids \ {p} : srmd'[q] = srmd[q]
  BY GoneFields
<1>2. /\ ProcType' /\ BornInOrder' /\ AloneInv'
      /\ \A q \in Pids \ {p} : /\ Live(q)' <=> Live(q)
                               /\ Daemon(q)' <=> Daemon(q)
      /\ ~Live(p)' /\ ~Daemon(p)'
  BY GoneKeeps DEF ProcType
<1>3. faults > 0 => faults' > 0
  BY DEF ProcType
<1>4. WriterInv'
  BY <1>1, <1>2 DEF PidInv, WriterInv
<1>5. PidFileSound'
  BY <1>1, <1>2, <1>3 DEF PidInv, PidFileSound
<1> QED BY <1>2, <1>4, <1>5 DEF PidInv

\* Main returns: a daemon removes the file whose name it wrote, and none but it
\* can have one that is alone.
LEMMA PidReturns ==
  ASSUME ProcType, PidInv, NEW p \in Pids, Returns(p),
         srmd[p].at \in {"starting", "stopping"}, faults' = faults
  PROVE  ProcType' /\ PidInv'
<1>1. /\ srmd'[p].at = "ended" /\ srmd'[p].fd = srmd[p].fd
      /\ \A q \in Pids \ {p} : srmd'[q] = srmd[q]
  BY GoneFields DEF Returns
<1>2. Live(p)
  BY DEF Live
<1>3. DOMAIN pidfile' = {"ino", "text"}
  BY DEF Returns, NoFile, ProcType
<1>4. /\ ProcType' /\ BornInOrder' /\ AloneInv'
      /\ \A q \in Pids \ {p} : /\ Live(q)' <=> Live(q)
                               /\ Daemon(q)' <=> Daemon(q)
      /\ ~Live(p)' /\ ~Daemon(p)'
  BY <1>2, <1>3, GoneKeeps DEF Returns, ProcType
<1>5. CASE srmd[p].written
  <2>1. pidfile' = NoFile
    BY <1>5 DEF Returns, MayRemove
  <2>2. \A q \in Pids \ {p} : Daemon(q) => ~srmd[q].alone
    BY <1>2, <1>5 DEF PidInv, WriterInv, AloneInv
  <2>3. WriterInv'
    BY <1>1, <1>4, <2>2 DEF PidInv, WriterInv
  <2>4. PidFileSound'
    BY <1>1, <1>4, <2>1, <2>2, PidFacts DEF PidInv, PidFileSound, WriterInv, NoFile
  <2> QED BY <1>4, <2>3, <2>4 DEF PidInv
<1>6. CASE ~srmd[p].written
  <2>1. pidfile' = pidfile
    BY <1>6 DEF Returns, MayRemove
  <2>2. WriterInv'
    BY <1>1, <1>4, <2>1 DEF PidInv, WriterInv
  <2>3. PidFileSound'
    BY <1>1, <1>4, <1>6, <2>1 DEF PidInv, PidFileSound
  <2> QED BY <1>4, <2>2, <2>3 DEF PidInv
<1> QED BY <1>5, <1>6

\* The text of the file is written, unless the disk is full.
LEMMA PidFlush ==
  ASSUME ProcType, PidInv, NEW p \in Pids, NEW full \in BOOLEAN, FlushPidFile(p, full),
         faults' \in Nat, faults' >= faults, full => faults' > 0
  PROVE  ProcType' /\ PidInv'
<1>1. /\ srmd'[p].at = "written" /\ srmd'[p].foreground = srmd[p].foreground
      /\ srmd'[p].written = srmd[p].written /\ srmd'[p].alone = srmd[p].alone
      /\ srmd'[p].fd = srmd[p].fd /\ DOMAIN srmd'[p] = Fields
      /\ \A q \in Pids \ {p} : srmd'[q] = srmd[q]
      /\ DOMAIN srmd' = Pids /\ srmd[p].at = "writing"
  BY DEF FlushPidFile, ProcType, Fields
<1>2. /\ DOMAIN pidfile' = {"ino", "text"} /\ pidfile'.ino = pidfile.ino
      /\ IF pidfile.ino = srmd[p].fd /\ ~full THEN pidfile'.text = p
         ELSE pidfile' = pidfile
  BY DEF FlushPidFile, ProcType
<1>3. ProcType'
  BY <1>1, <1>2 DEF ProcType, States
<1>4. \A q \in Pids : (Live(q)' <=> Live(q)) /\ (Daemon(q)' <=> Daemon(q))
  BY <1>1 DEF Live, Daemon
<1>5. BornInOrder'
  <2>1. \A q \in Pids : srmd'[q].at # "unborn" <=> srmd[q].at # "unborn"
    BY <1>1
  <2> QED BY <2>1 DEF PidInv, BornInOrder
<1>6. AloneInv'
  BY <1>1, <1>4 DEF PidInv, AloneInv
<1>7. /\ Daemon(p) /\ srmd[p].written /\ srmd[p].fd # 0
      /\ srmd[p].alone => pidfile.ino = srmd[p].fd /\ pidfile.text = 0
      /\ \A q \in Pids \ {p} : Daemon(q) => ~srmd[q].alone
  BY <1>1 DEF PidInv, WriterInv, AloneInv
<1>8. WriterInv'
  BY <1>1, <1>4, <1>7 DEF PidInv, WriterInv
<1>9. faults > 0 => faults' > 0
  BY DEF ProcType
<1>10. PidFileSound'
  <2>1. ASSUME NEW q \in Pids, pidfile'.text = q
        PROVE  (Live(q)' /\ srmd'[q].written) \/ srmd'[q].at = "killed"
    BY ZenonT(30), <1>1, <1>2, <1>4, <1>7, <2>1 DEF PidInv, PidFileSound, Daemon
  <2>2. ASSUME NEW q \in Pids, Live(q)', srmd'[q].alone, srmd'[q].written,
               srmd'[q].at # "writing"
        PROVE  pidfile'.text = q \/ (pidfile'.ino # 0 /\ pidfile'.text = 0 /\ faults' > 0)
    <3>1. q = p
      BY <1>1, <1>4, <1>7, <2>2 DEF PidInv, WriterInv
    <3>2. srmd[p].alone
      BY <1>1, <2>2, <3>1
    <3> QED BY <1>2, <1>7, <3>1, <3>2
  <2>3. ASSUME pidfile'.ino # 0, pidfile'.text = 0
        PROVE  faults' > 0 \/ \E q \in Pids : srmd'[q].at \in {"writing", "killed"}
                                              /\ srmd'[q].fd = pidfile'.ino
    BY <1>1, <1>2, <1>9, <2>3, PidFacts DEF PidInv, PidFileSound
  <2> QED BY <2>1, <2>2, <2>3 DEF PidFileSound
<1> QED BY <1>3, <1>5, <1>6, <1>8, <1>10 DEF PidInv

\* A start of srmd has the next pid, which nobody had.
LEMMA BornNext ==
  ASSUME ProcType, PidInv, NEW p \in Pids, NEW s, Starts(p, s), s.at # "unborn"
  PROVE  srmd[p].at = "unborn" /\ BornInOrder'
<1> DEFINE Born == {q \in Pids : srmd[q].at # "unborn"}
<1>1. PICK n \in Nat : Born = 1 .. n
  BY DEF PidInv, BornInOrder
<1>2. p = n + 1
  <2>1. Cardinality(1 .. n) = n
    BY <1>1, FS_Interval
  <2>2. p = Cardinality(Born) + 1
    BY DEF Starts
  <2> HIDE DEF Born
  <2> QED BY <1>1, <2>1, <2>2
<1>3. p \notin Born
  <2> HIDE DEF Born
  <2> QED BY <1>1, <1>2
<1>4. \A q \in Pids : srmd'[q].at # "unborn" <=> q = p \/ q \in Born
  BY DEF Starts, ProcType, Fields
<1>5. {q \in Pids : srmd'[q].at # "unborn"} = Born \cup {p}
  BY <1>4
<1>6. Born \cup {p} = 1 .. n + 1
  <2> HIDE DEF Born
  <2> QED BY <1>1, <1>2
<1>7. BornInOrder'
  <2> HIDE DEF Born
  <2>1. {q \in Pids : srmd'[q].at # "unborn"} = 1 .. n + 1
    BY <1>5, <1>6
  <2>2. n + 1 \in Nat
    BY <1>1
  <2> QED BY <2>1, <2>2 DEF BornInOrder
<1> QED BY <1>3, <1>7

\* p becomes s and the others stay, but that beside a daemon nobody is alone.
LEMMA StartsFields ==
  ASSUME ProcType, NEW p \in Pids, NEW s, Starts(p, s)
  PROVE  /\ srmd'[p] = s /\ DOMAIN srmd' = Pids /\ faults' = faults
         /\ \A q \in Pids \ {p} :
              /\ DOMAIN srmd'[q] = Fields /\ srmd'[q].at = srmd[q].at
              /\ srmd'[q].foreground = srmd[q].foreground
              /\ srmd'[q].written = srmd[q].written /\ srmd'[q].fd = srmd[q].fd
              /\ srmd'[q].alone = (srmd[q].alone /\ ~(Live(q) /\ s.at = "writing"))
BY DEF Starts, ProcType, Fields

\* What the others are after a start.
LEMMA StartsKeeps ==
  ASSUME ProcType, PidInv, NEW p \in Pids, NEW s, Starts(p, s), s.at # "unborn",
         DOMAIN s = Fields, s.at \in States, s.foreground \in BOOLEAN,
         s.written \in BOOLEAN, s.alone \in BOOLEAN
  PROVE  /\ DOMAIN pidfile' = {"ino", "text"} => ProcType'
         /\ \A q \in Pids \ {p} :
              /\ Live(q)' <=> Live(q)
              /\ Daemon(q)' <=> Daemon(q)
              /\ srmd'[q].alone => srmd[q].alone /\ (Live(q) => s.at # "writing")
<1>1. /\ srmd'[p] = s /\ DOMAIN srmd' = Pids /\ faults' = faults
      /\ \A q \in Pids \ {p} :
           /\ DOMAIN srmd'[q] = Fields /\ srmd'[q].at = srmd[q].at
           /\ srmd'[q].foreground = srmd[q].foreground
           /\ srmd'[q].written = srmd[q].written /\ srmd'[q].fd = srmd[q].fd
           /\ srmd'[q].alone = (srmd[q].alone /\ ~(Live(q) /\ s.at = "writing"))
  BY StartsFields
<1>2. \A q \in Pids \ {p} : srmd'[q].alone \in BOOLEAN
  BY Zenon, <1>1
<1>3. DOMAIN pidfile' = {"ino", "text"} => ProcType'
  BY <1>1, <1>2 DEF ProcType
<1>4. \A q \in Pids \ {p} : /\ Live(q)' <=> Live(q)
                            /\ Daemon(q)' <=> Daemon(q)
  BY <1>1 DEF Live, Daemon
<1>5. \A q \in Pids \ {p} : srmd'[q].alone => srmd[q].alone /\ (Live(q) => s.at # "writing")
  BY Zenon, <1>1
<1> QED BY <1>3, <1>4, <1>5

\* A start that leaves the file alone: it fails or is in the foreground.
LEMMA PidStartsAside ==
  ASSUME ProcType, PidInv, NEW p \in Pids, NEW s, Starts(p, s),
         DOMAIN s = Fields, s.foreground \in BOOLEAN, s.written = FALSE,
         s.alone \in BOOLEAN, pidfile' = pidfile,
         s.at = "ended" \/ (s.at = "starting" /\ s.foreground = TRUE)
  PROVE  ProcType' /\ PidInv'
<1>1. /\ srmd'[p] = s /\ faults' = faults
      /\ \A q \in Pids \ {p} :
           /\ srmd'[q].at = srmd[q].at /\ srmd'[q].written = srmd[q].written
           /\ srmd'[q].fd = srmd[q].fd
  BY StartsFields
<1>2. s.at # "unborn" /\ s.at \in States /\ s.written \in BOOLEAN
  BY DEF States
<1>3. srmd[p].at = "unborn" /\ BornInOrder'
  BY <1>2, BornNext
<1>4. /\ ProcType'
      /\ \A q \in Pids \ {p} : /\ Live(q)' <=> Live(q)
                               /\ Daemon(q)' <=> Daemon(q)
                               /\ srmd'[q].alone => srmd[q].alone
  BY <1>2, StartsKeeps DEF ProcType
<1>5. ~Live(p) /\ ~Daemon(p)' /\ srmd'[p].at \notin {"writing", "killed"}
  BY <1>1, <1>3 DEF Live, Daemon
<1>6. WriterInv'
  BY <1>1, <1>4, <1>5 DEF PidInv, WriterInv
<1>7. AloneInv'
  BY <1>4, <1>5 DEF PidInv, AloneInv
<1>8. PidFileSound'
  <2>1. ASSUME NEW q \in Pids, pidfile.text = q
        PROVE  (Live(q)' /\ srmd'[q].written) \/ srmd'[q].at = "killed"
    <3>1. q # p
      BY <1>3, <2>1 DEF PidInv, PidFileSound, Live
    <3> QED BY <1>1, <1>4, <2>1, <3>1 DEF PidInv, PidFileSound
  <2>2. ASSUME NEW q \in Pids, Live(q)', srmd'[q].alone, srmd'[q].written,
               srmd'[q].at # "writing"
        PROVE  pidfile.text = q \/ (pidfile.ino # 0 /\ pidfile.text = 0 /\ faults > 0)
    <3>1. q # p
      BY <1>1, <2>2
    <3> QED BY <1>1, <1>4, <2>2, <3>1 DEF PidInv, PidFileSound
  <2>3. ASSUME pidfile.ino # 0, pidfile.text = 0
        PROVE  faults > 0 \/ \E q \in Pids : srmd'[q].at \in {"writing", "killed"}
                                             /\ srmd'[q].fd = pidfile.ino
    BY <1>1, <1>3, <2>3 DEF PidInv, PidFileSound
  <2> QED BY <1>1, <2>1, <2>2, <2>3 DEF PidFileSound
<1> QED BY <1>3, <1>4, <1>6, <1>7, <1>8 DEF PidInv

\* A daemon starts: it opens the file and empties it.
LEMMA PidStartsDaemon ==
  ASSUME ProcType, PidInv, NEW p \in Pids, NEW s, NEW ino, Starts(p, s),
         DOMAIN s = Fields, s.foreground = FALSE, s.written = TRUE,
         s.alone = (\A q \in Pids : Live(q) => srmd[q].foreground),
         s.at = "writing", s.fd = ino, ino # 0,
         pidfile' = [ino |-> ino, text |-> 0]
  PROVE  ProcType' /\ PidInv'
<1>1. /\ srmd'[p] = s /\ faults' = faults
      /\ \A q \in Pids \ {p} :
           /\ srmd'[q].at = srmd[q].at /\ srmd'[q].written = srmd[q].written
           /\ srmd'[q].fd = srmd[q].fd
  BY StartsFields
<1>2. /\ s.at # "unborn" /\ s.at \in States /\ s.written \in BOOLEAN
      /\ s.foreground \in BOOLEAN
  BY DEF States
<1>3. s.alone \in BOOLEAN
  BY Zenon
<1>4. srmd[p].at = "unborn" /\ BornInOrder'
  BY <1>2, BornNext
<1>5. DOMAIN pidfile' = {"ino", "text"} /\ pidfile'.ino = ino /\ pidfile'.text = 0
  OBVIOUS
<1>6. /\ ProcType'
      /\ \A q \in Pids \ {p} : /\ Live(q)' <=> Live(q)
                               /\ Daemon(q)' <=> Daemon(q)
                               /\ Live(q) => ~srmd'[q].alone
  BY <1>2, <1>3, <1>5, StartsKeeps
<1>7. Live(p)' /\ Daemon(p)' /\ srmd'[p].at = "writing"
  BY <1>1 DEF Live, Daemon
<1>8. srmd'[p].alone => \A q \in Pids : Live(q) => srmd[q].foreground
  BY Zenon, <1>1
<1>9. AloneInv'
  BY <1>6, <1>8 DEF AloneInv, Daemon
<1>10. WriterInv'
  <2>1. ASSUME NEW q \in Pids \ {p}
        PROVE  /\ Live(q)' /\ srmd'[q].written => Daemon(q)'
               /\ srmd'[q].at = "writing" =>
                    Daemon(q)' /\ srmd'[q].written /\ srmd'[q].fd # 0 /\ ~srmd'[q].alone
    BY <1>1, <1>6 DEF PidInv, WriterInv, Daemon
  <2>2. /\ srmd'[p].written /\ srmd'[p].fd # 0
        /\ pidfile'.ino = srmd'[p].fd /\ pidfile'.text = 0
    BY <1>1, <1>5
  <2> QED BY <1>7, <2>1, <2>2 DEF WriterInv
<1>11. PidFileSound'
  <2>1. \A q \in Pids : pidfile'.text # q
    BY <1>5, PidFacts
  <2>2. ASSUME NEW q \in Pids, Live(q)', srmd'[q].alone PROVE srmd'[q].at = "writing"
    BY <1>6, <1>7, <2>2
  <2>3. srmd'[p].fd = pidfile'.ino
    BY <1>1, <1>5
  <2> QED BY <1>7, <2>1, <2>2, <2>3 DEF PidFileSound
<1> QED BY <1>4, <1>6, <1>9, <1>10, <1>11 DEF PidInv

LEMMA PidStarts ==
  ASSUME ProcType, PidInv, NEW p \in Pids,
         (\E foreground \in BOOLEAN : Start(p, foreground)) \/ StartFails(p)
  PROVE  ProcType' /\ PidInv'
<1>1. CASE StartFails(p)
  <2> DEFINE s == [Unborn EXCEPT !.at = "ended"]
  <2>1. Starts(p, s) /\ pidfile' = pidfile
    BY <1>1 DEF StartFails
  <2>2. /\ DOMAIN s = Fields /\ s.foreground = FALSE /\ s.written = FALSE
        /\ s.alone = TRUE /\ s.at = "ended"
    BY DEF Unborn, Fields
  <2> HIDE DEF s
  <2> QED BY <2>1, <2>2, PidStartsAside
<1>2. CASE Start(p, TRUE)
  <2> DEFINE s == [Loaded(p, TRUE) EXCEPT !.at = "starting"]
  <2>1. Starts(p, s) /\ pidfile' = pidfile
    BY <1>2 DEF Start
  <2>2. /\ DOMAIN s = Fields /\ s.foreground = TRUE /\ s.written = FALSE
        /\ s.at = "starting"
    BY DEF Loaded, Unborn, Fields
  <2>3. s.alone = (\A q \in Pids : Live(q) => srmd[q].foreground)
    BY DEF Loaded, Unborn
  <2>4. s.alone \in BOOLEAN
    <3> HIDE DEF s
    <3> QED BY Zenon, <2>3
  <2> HIDE DEF s
  <2> QED BY <2>1, <2>2, <2>4, PidStartsAside
<1>3. CASE Start(p, FALSE)
  <2> DEFINE ino == IF pidfile.ino = 0 THEN p ELSE pidfile.ino
             s == [Loaded(p, FALSE) EXCEPT !.at = "writing", !.fd = ino, !.written = TRUE]
  <2>1. Starts(p, s) /\ pidfile' = [ino |-> ino, text |-> 0]
    BY <1>3 DEF Start
  <2>2. /\ DOMAIN s = Fields /\ s.foreground = FALSE /\ s.written = TRUE
        /\ s.at = "writing" /\ s.fd = ino
    BY DEF Loaded, Unborn, Fields
  <2>3. s.alone = (\A q \in Pids : Live(q) => srmd[q].foreground)
    BY DEF Loaded, Unborn
  <2>4. ino # 0
    BY PidFacts
  <2> HIDE DEF s, ino
  <2> QED BY <2>1, <2>2, <2>3, <2>4, PidStartsDaemon
<1> QED BY <1>1, <1>2, <1>3

\* srmd with a call it answered.
LEMMA AppliedKeeps ==
  ASSUME ProcType, NEW p \in Pids, NEW call, NEW arg
  PROVE  SameBut(p, Applied(p, call, arg)) /\ Applied(p, call, arg).at = srmd[p].at
<1>1. DOMAIN srmd[p] = Fields
  BY DEF ProcType
<1>2. SameBut(p, srmd[p])
  BY <1>1 DEF SameBut
<1> DEFINE r == Applied(p, call, arg)
<1>3. \/ r = srmd[p]
      \/ \E routes, added : r = [srmd[p] EXCEPT !.routes = routes, !.added = added]
      \/ \E routes : r = [srmd[p] EXCEPT !.routes = routes]
      \/ \E loopback : r = [srmd[p] EXCEPT !.loopback = loopback]
  BY DEF Applied
<1> HIDE DEF r
<1>4. ASSUME NEW routes, NEW added, r = [srmd[p] EXCEPT !.routes = routes, !.added = added]
      PROVE  SameBut(p, r) /\ r.at = srmd[p].at
  BY <1>1, <1>4 DEF SameBut, Fields
<1>5. ASSUME NEW routes, r = [srmd[p] EXCEPT !.routes = routes]
      PROVE  SameBut(p, r) /\ r.at = srmd[p].at
  BY <1>1, <1>5 DEF SameBut, Fields
<1>6. ASSUME NEW loopback, r = [srmd[p] EXCEPT !.loopback = loopback]
      PROVE  SameBut(p, r) /\ r.at = srmd[p].at
  BY <1>1, <1>6 DEF SameBut, Fields
<1>7. SameBut(p, r) /\ r.at = srmd[p].at
  BY <1>2, <1>3, <1>4, <1>5, <1>6
<1> QED BY <1>7 DEF r

LEMMA PidCall ==
  ASSUME ProcType, PidInv, NEW c, NEW p \in Pids, CallServed(c, p) \/ AnswerLost(c, p)
  PROVE  ProcType' /\ PidInv'
<1>1. PICK r : /\ srmd' = [srmd EXCEPT ![p] = r]
               /\ r = srmd[p] \/ \E call, arg : r = Applied(p, call, arg)
  BY DEF CallServed, AnswerLost
<1>2. SameBut(p, r) /\ r.at = srmd[p].at
  BY <1>1, AppliedKeeps DEF SameBut, ProcType
<1>3. pidfile' = pidfile /\ faults' \in Nat /\ faults' >= faults
  BY DEF CallServed, AnswerLost, Fault, ProcType
<1> QED BY <1>1, <1>2, <1>3, PidKept

LEMMA PidProgress ==
  ASSUME ProcType, PidInv, NEW p \in Pids, Progress(p)
  PROVE  ProcType' /\ PidInv'
<1> USE DEF ProcType
<1>1. faults' = faults /\ faults' \in Nat /\ faults' >= faults
  BY DEF Progress
<1>2. CASE FlushPidFile(p, FALSE)
  BY <1>1, <1>2, PidFlush
<1>3. CASE BuildFails(p) \/ Shutdown(p)
  BY <1>1, <1>3, PidReturns DEF BuildFails, Shutdown
<1>4. CASE installSignalHandlers(p) \/ BuildAndStart(p) \/ Loop(p)
  <2>1. ASSUME NEW at \in {"starting", "serving", "stopping"}
        PROVE  LET r == [srmd[p] EXCEPT !.at = at]
               IN  SameBut(p, r) /\ r.at = at
    BY DEF SameBut, Fields
  <2>2. CASE installSignalHandlers(p)
    <3> DEFINE r == [srmd[p] EXCEPT !.at = "starting", !.handlers = TRUE]
    <3>1. SameBut(p, r) /\ r.at = "starting"
      BY DEF SameBut, Fields
    <3>2. srmd' = [srmd EXCEPT ![p] = r] /\ srmd[p].at = "written" /\ pidfile' = pidfile
      BY <2>2 DEF installSignalHandlers
    <3> HIDE DEF r
    <3> QED BY <1>1, <3>1, <3>2, PidKept
  <2>3. CASE BuildAndStart(p)
    <3> DEFINE r == [srmd[p] EXCEPT !.at = "serving"]
    <3>1. srmd' = [srmd EXCEPT ![p] = r] /\ srmd[p].at = "starting" /\ pidfile' = pidfile
      BY <2>3 DEF BuildAndStart, Goes
    <3>2. SameBut(p, r) /\ r.at = "serving"
      BY <2>1
    <3> HIDE DEF r
    <3> QED BY <1>1, <3>1, <3>2, PidKept
  <2>4. CASE Loop(p) /\ srmd[p].stop
    <3> DEFINE r == [srmd[p] EXCEPT !.at = "stopping"]
    <3>1. srmd' = [srmd EXCEPT ![p] = r] /\ srmd[p].at = "serving" /\ pidfile' = pidfile
      BY <2>4 DEF Loop, Goes, shouldStop
    <3>2. SameBut(p, r) /\ r.at = "stopping"
      BY <2>1
    <3> HIDE DEF r
    <3> QED BY <1>1, <3>1, <3>2, PidKept
  <2>5. CASE Loop(p) /\ ~srmd[p].stop
    <3> DEFINE r == [srmd[p] EXCEPT !.reload = FALSE]
    <3>1. srmd' = [srmd EXCEPT ![p] = r] /\ pidfile' = pidfile
      BY <2>5 DEF Loop, shouldStop
    <3>2. SameBut(p, r) /\ r.at = srmd[p].at
      BY DEF SameBut, Fields
    <3> HIDE DEF r
    <3> QED BY <1>1, <3>1, <3>2, PidKept
  <2> QED BY <1>4, <2>2, <2>3, <2>4, <2>5
<1> QED BY <1>2, <1>3, <1>4 DEF Progress

LEMMA PidSignal ==
  ASSUME ProcType, PidInv, NEW p \in Pids, NEW signal, Signal(p, signal)
  PROVE  ProcType' /\ PidInv'
<1> USE DEF ProcType
<1>1. /\ pidfile' = pidfile /\ Live(p) /\ faults' = faults
      /\ faults' \in Nat /\ faults' >= faults
  BY DEF Signal
<1>2. CASE srmd[p].handlers
  <2> DEFINE r == Requests(srmd[p], signal)
  <2>1. srmd' = [srmd EXCEPT ![p] = r]
    BY <1>2 DEF Signal
  <2>2. SameBut(p, r) /\ r.at = srmd[p].at
    <3>1. \/ r = [srmd[p] EXCEPT !.stop = TRUE] \/ r = [srmd[p] EXCEPT !.reload = TRUE]
      BY DEF Requests
    <3> HIDE DEF r
    <3> QED BY <3>1 DEF SameBut, Fields
  <2> HIDE DEF r
  <2> QED BY <1>1, <2>1, <2>2, PidKept
<1>3. CASE ~srmd[p].handlers
  BY <1>1, <1>3, PidKilled DEF Signal
<1> QED BY <1>2, <1>3

LEMMA PidNext == ProcType /\ PidInv /\ [Next]_vars => ProcType' /\ PidInv'
<1> SUFFICES ASSUME ProcType, PidInv, [Next]_vars PROVE ProcType' /\ PidInv'
  OBVIOUS
\* What the file and the starts of srmd know nothing of.
<1>1. ASSUME UNCHANGED <<srmd, pidfile>>, faults' \in Nat, faults' >= faults
      PROVE  ProcType' /\ PidInv'
  <2>1. ProcType'
    BY <1>1 DEF ProcType
  <2>2. \A q \in Pids : (Live(q)' <=> Live(q)) /\ (Daemon(q)' <=> Daemon(q))
    BY <1>1 DEF Live, Daemon
  <2>3. PidFileSound'
    <3>1. faults > 0 => faults' > 0
      BY <1>1 DEF ProcType
    <3> QED BY <1>1, <2>2, <3>1 DEF PidInv, PidFileSound
  <2>4. BornInOrder' /\ WriterInv' /\ AloneInv'
    BY <1>1, <2>2 DEF PidInv, BornInOrder, WriterInv, AloneInv
  <2> QED BY <2>1, <2>3, <2>4 DEF PidInv
<1>2. faults \in Nat
  BY DEF ProcType
<1>3. CASE Change
  BY <1>1, <1>2, <1>3 DEF Change
<1>4. ASSUME NEW p \in Pids,
             (\E foreground \in BOOLEAN : Start(p, foreground)) \/ StartFails(p)
      PROVE  ProcType' /\ PidInv'
  BY <1>4, PidStarts
<1>5. ASSUME NEW p \in Pids, Progress(p) PROVE ProcType' /\ PidInv'
  BY <1>5, PidProgress
<1>6. ASSUME NEW p \in Pids, Crash(p) PROVE ProcType' /\ PidInv'
  <2>1. Gone(p, "killed") /\ Live(p) /\ pidfile' = pidfile
    BY <1>6 DEF Crash
  <2>2. faults' \in Nat /\ faults' >= faults
    BY <1>2, <1>6 DEF Crash, Fault
  <2> QED BY <2>1, <2>2, PidKilled
<1>7. ASSUME NEW p \in Pids, DiskFull(p) PROVE ProcType' /\ PidInv'
  <2>1. faults' \in Nat /\ faults' >= faults /\ faults' > 0
    BY <1>2, <1>7 DEF DiskFull, Fault
  <2> QED BY <1>7, <2>1, PidFlush DEF DiskFull
<1>8. ASSUME NEW p \in Pids, NEW signal, Signal(p, signal) PROVE ProcType' /\ PidInv'
  BY <1>8, PidSignal
<1>9. ASSUME NEW c \in Clients, NEW k, Begin(c, k) PROVE ProcType' /\ PidInv'
  BY <1>1, <1>2, <1>9 DEF Begin
<1>10. ASSUME NEW c \in Clients, CallFails(c) \/ NothingToCall(c) PROVE ProcType' /\ PidInv'
  <2>1. UNCHANGED <<srmd, pidfile>> /\ faults' \in Nat /\ faults' >= faults
    BY <1>2, <1>10 DEF CallFails, NothingToCall, Fault
  <2> QED BY <1>1, <2>1
<1>11. ASSUME NEW c \in Clients, NEW p \in Pids, CallServed(c, p) \/ AnswerLost(c, p)
       PROVE  ProcType' /\ PidInv'
  BY <1>11, PidCall
<1>12. CASE UNCHANGED vars
  BY <1>1, <1>2, <1>12 DEF vars
<1> QED BY <1>3, <1>4, <1>5, <1>6, <1>7, <1>8, <1>9, <1>10, <1>11, <1>12 DEF Next

\* Whatever starts, ends, is killed or crashes, and whoever runs in the
\* foreground, the PID file never names a srmd that returned from main, names a
\* daemon that is alone, and is empty only while it is written or after a kill
\* or a full disk: Daemon::daemonise and ~Daemon.
THEOREM PidFileIsSound == Spec => []PidFileSound
<1>1. Init => ProcType /\ PidInv
  <2> SUFFICES ASSUME Init PROVE ProcType /\ PidInv
    OBVIOUS
  <2>1. /\ DOMAIN srmd = Pids /\ pidfile = NoFile /\ faults = 0
        /\ \A p \in Pids : srmd[p] = Unborn
    BY DEF Init
  <2>2. ProcType
    BY <2>1, UnbornFacts DEF ProcType, NoFile, States
  <2>3. \A p \in Pids : ~Live(p) /\ ~Daemon(p) /\ srmd[p].at = "unborn"
    BY <2>1, UnbornFacts DEF Live, Daemon
  <2>4. PidFileSound
    BY <2>1, <2>3, PidFacts DEF PidFileSound, NoFile
  <2>5. BornInOrder
    <3>1. {p \in Pids : srmd[p].at # "unborn"} = 1 .. 0
      BY <2>3
    <3> QED BY <3>1 DEF BornInOrder
  <2>6. WriterInv /\ AloneInv
    BY <2>3 DEF WriterInv, AloneInv
  <2> QED BY <2>2, <2>4, <2>5, <2>6 DEF PidInv
<1>2. PidInv => PidFileSound
  BY DEF PidInv
<1> QED BY <1>1, <1>2, PidNext, PTL DEF Spec
=============================================================================

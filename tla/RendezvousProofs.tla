-------------------------- MODULE RendezvousProofs --------------------------
(***************************************************************************)
(* The rendezvous of waiting sends, for any number of processes, levels    *)
(* and messages, as long as nobody is killed: flushing a dead receiver's   *)
(* queue releases senders that wait on messages queued elsewhere.          *)
(*                                                                         *)
(* Rendezvous is not inductive.  A process that sends must not have a      *)
(* message pending already: it is the one that executes, so it is READY    *)
(* (RunningReady, from SchedulerProofs).  One that is inserted must have   *)
(* none, nor a queue of its own (QueuesOfTheLiving).                       *)
(***************************************************************************)
EXTENDS SchedulerProofs, IpcProofs, FiniteSetTheorems

USE DEF AwaitsMessage, ReleasesOnReceive

\* The message at position i of r's queue of level p is one that s waits for.
WaitsAt(s, r, p, i) ==
  /\ i \in DOMAIN msgq[r][p]
  /\ msgq[r][p][i] = [sender |-> s, waiting |-> TRUE]

\* Messages are queued at processes only, those waited for come from
\* processes, and no level has more of them than the model allows.
QueuesOfTheLiving ==
  \A r \in Id, p \in Level :
    /\ Len(msgq[r][p]) <= MaxMsgs
    /\ r \notin procs => msgq[r][p] = <<>>
    /\ \A i \in DOMAIN msgq[r][p] :
         msgq[r][p][i].waiting => msgq[r][p][i].sender \in procs

\* Nobody waits for two messages, and nobody but a blocked sender for one.
AtMostOne ==
  \A s \in procs, r \in Id, p \in Level : \A i \in DOMAIN msgq[r][p] :
    WaitsAt(s, r, p, i) =>
      /\ state[s] = "BLOCKED_SENDING"
      /\ \A q \in Id, l \in Level : \A j \in DOMAIN msgq[q][l] :
           WaitsAt(s, q, l, j) => q = r /\ l = p /\ j = i

-----------------------------------------------------------------------------
(* What the operations do to the messages.                                  *)

\* A message that is queued is the last of its queue; the others stay.
LEMMA EnqueuedAt ==
  ASSUME TypeOK, NEW coid \in procs, NEW sender \in Id \cup {NullId},
         NEW waiting \in BOOLEAN, Accepts(coid, sender),
         HasRoom(coid, sender), MsgEnqueue(coid, sender, waiting)
  PROVE  \A r \in Id, p \in Level :
           /\ Len(msgq[r][p]) <= MaxMsgs => Len(msgq'[r][p]) <= MaxMsgs
           /\ r # coid => msgq'[r][p] = msgq[r][p]
           /\ \A i \in DOMAIN msgq'[r][p] :
                \/ i \in DOMAIN msgq[r][p] /\ msgq'[r][p][i] = msgq[r][p][i]
                \/ /\ r = coid /\ p = MessageLevel(sender)
                   /\ i = Len(msgq[r][p]) + 1
                   /\ msgq'[r][p][i] = [sender |-> sender, waiting |-> waiting]
<1> DEFINE lv == MessageLevel(sender)
           m == [sender |-> sender, waiting |-> waiting]
<1>1. lv \in Level /\ coid \in Id /\ m \in Message
  BY DEF Accepts, TypeOK, SchedulerTypeOK, Message
<1>2. msgq' = [msgq EXCEPT ![coid][lv] = Append(@, m)]
  BY DEF MsgEnqueue
<1>3. msgq \in [Id -> [Level -> Seq(Message)]] /\ MaxMsgs \in Nat
  BY MaxMsgsAssumption DEF TypeOK, IpcTypeOK
<1>4. Len(msgq[coid][lv]) < MaxMsgs
  BY DEF HasRoom
<1> SUFFICES ASSUME NEW r \in Id, NEW p \in Level
             PROVE  /\ Len(msgq[r][p]) <= MaxMsgs => Len(msgq'[r][p]) <= MaxMsgs
                    /\ r # coid => msgq'[r][p] = msgq[r][p]
                    /\ \A i \in DOMAIN msgq'[r][p] :
                         \/ /\ i \in DOMAIN msgq[r][p]
                            /\ msgq'[r][p][i] = msgq[r][p][i]
                         \/ /\ r = coid /\ p = lv
                            /\ i = Len(msgq[r][p]) + 1
                            /\ msgq'[r][p][i] = m
  OBVIOUS
<1> HIDE DEF lv, m
<1>5. CASE r = coid /\ p = lv
  <2> DEFINE q == msgq[coid][lv]
  <2>1. msgq'[r][p] = Append(q, m)
    BY <1>1, <1>2, <1>3, <1>5
  <2>2. q \in Seq(Message) /\ Len(q) < MaxMsgs /\ msgq[r][p] = q
    BY <1>1, <1>3, <1>4, <1>5
  <2> HIDE DEF q
  <2>3. /\ Len(Append(q, m)) <= MaxMsgs
        /\ \A i \in DOMAIN Append(q, m) :
             \/ i \in DOMAIN q /\ Append(q, m)[i] = q[i]
             \/ i = Len(q) + 1 /\ Append(q, m)[i] = m
    BY <1>1, <1>3, <2>2
  <2> QED BY <1>5, <2>1, <2>2, <2>3
<1>6. CASE ~(r = coid /\ p = lv)
  <2>1. msgq'[r][p] = msgq[r][p]
    BY <1>1, <1>2, <1>3, <1>6
  <2> QED BY <1>6, <2>1
<1> QED BY <1>5, <1>6

\* Where the message was that is at position i of r's queue of level p after
\* id took one off its queue of level lv.
Before(id, lv, r, p, i) == IF r = id /\ p = lv THEN i + 1 ELSE i

\* A message that is taken off was the first of its queue; the others move up.
LEMMA PoppedAt ==
  ASSUME TypeOK, NEW id \in Id, NEW lv \in Level, msgq[id][lv] # <<>>,
         msgq' = [msgq EXCEPT ![id][lv] = Tail(@)]
  PROVE  /\ 1 \in DOMAIN msgq[id][lv]
         /\ Head(msgq[id][lv]) = msgq[id][lv][1]
         /\ \A r \in Id, p \in Level :
              /\ Len(msgq[r][p]) <= MaxMsgs => Len(msgq'[r][p]) <= MaxMsgs
              /\ r # id => msgq'[r][p] = msgq[r][p]
              /\ \A i \in DOMAIN msgq'[r][p] :
                   /\ i \in Int /\ Before(id, lv, r, p, i) \in DOMAIN msgq[r][p]
                   /\ (r = id /\ p = lv => Before(id, lv, r, p, i) # 1)
                   /\ msgq'[r][p][i] = msgq[r][p][Before(id, lv, r, p, i)]
<1>1. msgq \in [Id -> [Level -> Seq(Message)]] /\ MaxMsgs \in Nat
  BY MaxMsgsAssumption DEF TypeOK, IpcTypeOK
<1>2. msgq[id][lv] \in Seq(Message)
  BY <1>1
<1>3. 1 \in DOMAIN msgq[id][lv] /\ Head(msgq[id][lv]) = msgq[id][lv][1]
  BY <1>2
<1>4. ASSUME NEW r \in Id, NEW p \in Level
      PROVE  /\ Len(msgq[r][p]) <= MaxMsgs => Len(msgq'[r][p]) <= MaxMsgs
             /\ r # id => msgq'[r][p] = msgq[r][p]
             /\ \A i \in DOMAIN msgq'[r][p] :
                  /\ i \in Int /\ Before(id, lv, r, p, i) \in DOMAIN msgq[r][p]
                  /\ (r = id /\ p = lv => Before(id, lv, r, p, i) # 1)
                  /\ msgq'[r][p][i] = msgq[r][p][Before(id, lv, r, p, i)]
  <2> DEFINE q == msgq[r][p]
  <2>1. q \in Seq(Message)
    BY <1>1
  <2>2. CASE r = id /\ p = lv
    <3>1. msgq'[r][p] = Tail(q) /\ q # <<>>
      BY <1>1, <2>2
    <3> HIDE DEF q
    <3>2. /\ Len(q) <= MaxMsgs => Len(Tail(q)) <= MaxMsgs
          /\ \A i \in DOMAIN Tail(q) :
               /\ i \in Int /\ i + 1 \in DOMAIN q /\ i + 1 # 1
               /\ Tail(q)[i] = q[i + 1]
      BY <1>1, <2>1, <3>1
    <3> QED BY <2>2, <3>1, <3>2 DEF q, Before
  <2>3. CASE ~(r = id /\ p = lv)
    <3>1. msgq'[r][p] = q
      BY <1>1, <2>3
    <3>2. \A i \in DOMAIN q : i \in Int
      BY <2>1
    <3> QED BY <2>3, <3>1, <3>2 DEF Before
  <2> QED BY <2>2, <2>3
<1> QED BY <1>3, <1>4

-----------------------------------------------------------------------------
(* No step breaks the rendezvous.                                           *)

\* A message is queued: if it is waited for, its sender waited for none.
LEMMA EnqueueKeeps ==
  ASSUME TypeOK, QueuesOfTheLiving, AtMostOne, NEW coid \in procs,
         NEW sender \in Id \cup {NullId}, NEW waiting \in BOOLEAN,
         Accepts(coid, sender), HasRoom(coid, sender),
         MsgEnqueue(coid, sender, waiting), UNCHANGED procs,
         \A x \in procs : state[x] = "BLOCKED_SENDING" =>
           state'[x] = "BLOCKED_SENDING",
         waiting => /\ sender \in procs /\ state[sender] # "BLOCKED_SENDING"
                    /\ state'[sender] = "BLOCKED_SENDING"
  PROVE  QueuesOfTheLiving' /\ AtMostOne'
<1> DEFINE Old(r, p, i) ==
             i \in DOMAIN msgq[r][p] /\ msgq'[r][p][i] = msgq[r][p][i]
           New(r, p, i) ==
             /\ r = coid /\ p = MessageLevel(sender) /\ i = Len(msgq[r][p]) + 1
             /\ msgq'[r][p][i] = [sender |-> sender, waiting |-> waiting]
<1>1. \A r \in Id, p \in Level :
        /\ Len(msgq[r][p]) <= MaxMsgs => Len(msgq'[r][p]) <= MaxMsgs
        /\ r # coid => msgq'[r][p] = msgq[r][p]
        /\ \A i \in DOMAIN msgq'[r][p] : Old(r, p, i) \/ New(r, p, i)
  BY EnqueuedAt
<1>2. \A r \in Id, p \in Level : \A i \in DOMAIN msgq'[r][p] :
        /\ Old(r, p, i) /\ msgq'[r][p][i].waiting =>
             msgq'[r][p][i].sender \in procs
        /\ New(r, p, i) /\ msgq'[r][p][i].waiting =>
             msgq'[r][p][i].sender \in procs
  BY DEF QueuesOfTheLiving
<1>3. QueuesOfTheLiving'
  <2> HIDE DEF Old, New
  <2> QED BY <1>1, <1>2 DEF QueuesOfTheLiving
<1>4. AtMostOne'
  <2> SUFFICES ASSUME NEW s \in procs, NEW r \in Id, NEW p \in Level,
                      NEW i \in DOMAIN msgq'[r][p], WaitsAt(s, r, p, i)'
               PROVE  /\ state'[s] = "BLOCKED_SENDING"
                      /\ \A q \in Id, l \in Level : \A j \in DOMAIN msgq'[q][l] :
                           WaitsAt(s, q, l, j)' => q = r /\ l = p /\ j = i
    BY DEF AtMostOne
  <2>1. \A q \in Id, l \in Level : \A j \in DOMAIN msgq'[q][l] :
          WaitsAt(s, q, l, j)' =>
            \/ WaitsAt(s, q, l, j) /\ j \in DOMAIN msgq[q][l]
            \/ /\ waiting /\ s = sender /\ q = coid
               /\ l = MessageLevel(sender) /\ j = Len(msgq[q][l]) + 1
    BY <1>1 DEF WaitsAt
  <2>2. CASE WaitsAt(s, r, p, i) /\ i \in DOMAIN msgq[r][p]
    <3>1. /\ state[s] = "BLOCKED_SENDING"
          /\ \A q \in Id, l \in Level : \A j \in DOMAIN msgq[q][l] :
               WaitsAt(s, q, l, j) => q = r /\ l = p /\ j = i
      BY <2>2 DEF AtMostOne
    <3> QED BY <2>1, <3>1
  <2>3. CASE ~(WaitsAt(s, r, p, i) /\ i \in DOMAIN msgq[r][p])
    <3>1. /\ waiting /\ s = sender /\ r = coid
          /\ p = MessageLevel(sender) /\ i = Len(msgq[r][p]) + 1
      BY <2>1, <2>3
    <3>2. \A q \in Id, l \in Level : \A j \in DOMAIN msgq[q][l] :
            ~WaitsAt(s, q, l, j)
      BY <3>1 DEF AtMostOne
    <3> QED BY <2>1, <3>1, <3>2
  <2> QED BY <2>2, <2>3
<1> QED BY <1>3, <1>4

\* A message is received: its sender, if it waited, waits for no other.
LEMMA ReceiveKeeps ==
  ASSUME TypeOK, ExecutingLive, QueuesOfTheLiving, AtMostOne,
         NEW lv \in Level, ReceiveMessage(lv)
  PROVE  QueuesOfTheLiving' /\ AtMostOne'
<1> DEFINE m == Head(msgq[current][lv])
<1>1. /\ current \in procs /\ current \in Id /\ procs' = procs
      /\ msgq[current][lv] # <<>>
      /\ msgq' = [msgq EXCEPT ![current][lv] = Tail(@)]
  BY DEF ReceiveMessage, IsTopMessage, ExecutingLive, TypeOK, SchedulerTypeOK
<1>2. m \in Message /\ m = msgq[current][lv][1] /\ 1 \in DOMAIN msgq[current][lv]
  BY <1>1, PoppedAt DEF TypeOK, IpcTypeOK
<1>3. \A r \in Id, p \in Level :
        /\ Len(msgq[r][p]) <= MaxMsgs => Len(msgq'[r][p]) <= MaxMsgs
        /\ r # current => msgq'[r][p] = msgq[r][p]
        /\ \A i \in DOMAIN msgq'[r][p] :
             /\ i \in Int /\ Before(current, lv, r, p, i) \in DOMAIN msgq[r][p]
             /\ (r = current /\ p = lv => Before(current, lv, r, p, i) # 1)
             /\ msgq'[r][p][i] = msgq[r][p][Before(current, lv, r, p, i)]
  BY <1>1, PoppedAt
<1>4. QueuesOfTheLiving'
  <2>0. procs' = procs
    BY <1>1
  <2>1. \A r \in Id, p \in Level : \A i \in DOMAIN msgq'[r][p] :
          \E k \in DOMAIN msgq[r][p] : msgq'[r][p][i] = msgq[r][p][k]
    BY <1>3
  <2> SUFFICES ASSUME NEW r \in Id, NEW p \in Level
               PROVE  /\ Len(msgq'[r][p]) <= MaxMsgs
                      /\ r \notin procs => msgq'[r][p] = <<>>
                      /\ \A i \in DOMAIN msgq'[r][p] :
                           msgq'[r][p][i].waiting =>
                             msgq'[r][p][i].sender \in procs
    BY <2>0 DEF QueuesOfTheLiving
  <2>2. /\ Len(msgq[r][p]) <= MaxMsgs
        /\ r \notin procs => msgq[r][p] = <<>> /\ r # current
        /\ \A k \in DOMAIN msgq[r][p] :
             msgq[r][p][k].waiting => msgq[r][p][k].sender \in procs
    BY <1>1 DEF QueuesOfTheLiving
  <2>3. /\ Len(msgq[r][p]) <= MaxMsgs => Len(msgq'[r][p]) <= MaxMsgs
        /\ r # current => msgq'[r][p] = msgq[r][p]
    BY <1>3
  <2> QED BY <2>1, <2>2, <2>3
<1>5. /\ \A x \in procs : m # [sender |-> x, waiting |-> TRUE] =>
                         state'[x] = state[x]
      /\ state \in [Id -> ProcessState] /\ procs \subseteq Id
  <2>1. /\ state \in [Id -> ProcessState] /\ procs \subseteq Id
        /\ state' = IF m.waiting /\ m.sender \in procs
                    THEN [state EXCEPT ![m.sender] = "READY"] ELSE state
    BY DEF ReceiveMessage, TypeOK, SchedulerTypeOK
  <2>2. \A x \in procs : m.waiting /\ m.sender = x =>
                         m = [sender |-> x, waiting |-> TRUE]
    BY <1>2 DEF Message
  <2> HIDE DEF m
  <2> QED BY <2>1, <2>2
<1>6. AtMostOne'
  <2> SUFFICES ASSUME NEW s \in procs, NEW r \in Id, NEW p \in Level,
                      NEW i \in DOMAIN msgq'[r][p], WaitsAt(s, r, p, i)'
               PROVE  /\ state'[s] = "BLOCKED_SENDING"
                      /\ \A q \in Id, l \in Level : \A j \in DOMAIN msgq'[q][l] :
                           WaitsAt(s, q, l, j)' => q = r /\ l = p /\ j = i
    BY <1>1 DEF AtMostOne
  <2> DEFINE k == Before(current, lv, r, p, i)
  <2>1. /\ k \in DOMAIN msgq[r][p] /\ WaitsAt(s, r, p, k) /\ i \in Int
        /\ (r = current /\ p = lv => k # 1)
    BY <1>3 DEF WaitsAt
  <2>2. /\ state[s] = "BLOCKED_SENDING"
        /\ \A q \in Id, l \in Level : \A j \in DOMAIN msgq[q][l] :
             WaitsAt(s, q, l, j) => q = r /\ l = p /\ j = k
    <3> HIDE DEF k
    <3> QED BY <2>1 DEF AtMostOne
  <2>3. state'[s] = "BLOCKED_SENDING"
    <3>1. ~WaitsAt(s, current, lv, 1)
      <4> HIDE DEF k
      <4> QED BY <1>1, <1>2, <2>1, <2>2
    <3>2. m # [sender |-> s, waiting |-> TRUE]
      <4> HIDE DEF m
      <4> QED BY <1>2, <3>1 DEF WaitsAt
    <3> HIDE DEF m
    <3> QED BY <1>5, <2>2, <3>2
  <2>4. ASSUME NEW q \in Id, NEW l \in Level, NEW j \in DOMAIN msgq'[q][l],
               WaitsAt(s, q, l, j)'
        PROVE  q = r /\ l = p /\ j = i
    <3> DEFINE h == Before(current, lv, q, l, j)
    <3>1. h \in DOMAIN msgq[q][l] /\ WaitsAt(s, q, l, h) /\ j \in Int
      BY <1>3, <2>4 DEF WaitsAt
    <3>2. q = r /\ l = p /\ h = k
      <4> HIDE DEF h, k
      <4> QED BY <2>2, <3>1
    <3> QED BY <2>1, <3>1, <3>2 DEF Before
  <2> QED BY <2>3, <2>4
<1> QED BY <1>4, <1>6

\* A process that is inserted is nobody's sender, and has no messages.
LEMMA InsertKeeps ==
  ASSUME TypeOK, QueuesOfTheLiving, AtMostOne, Inserts
  PROVE  QueuesOfTheLiving' /\ AtMostOne'
<1>1. PICK id \in Id \ procs, pr \in Nat : PcbInsert(id, pr) /\ UNCHANGED msgq
  BY DEF Inserts
<1>2. /\ procs' = procs \cup {id} /\ msgq' = msgq
      /\ \A x \in procs : state'[x] = state[x]
  BY <1>1 DEF PcbInsert, TypeOK, SchedulerTypeOK
<1>3. QueuesOfTheLiving'
  BY <1>2 DEF QueuesOfTheLiving
<1>4. \A r \in Id, p \in Level : \A i \in DOMAIN msgq[r][p] :
        ~WaitsAt(id, r, p, i)
  BY <1>1 DEF QueuesOfTheLiving, WaitsAt
<1>5. \A x, r, p, i : WaitsAt(x, r, p, i)' <=> WaitsAt(x, r, p, i)
  BY <1>2 DEF WaitsAt
<1>6. AtMostOne'
  <2> SUFFICES ASSUME NEW s \in procs', NEW r \in Id, NEW p \in Level,
                      NEW i \in DOMAIN msgq[r][p], WaitsAt(s, r, p, i)
               PROVE  /\ state'[s] = "BLOCKED_SENDING"
                      /\ \A q \in Id, l \in Level : \A j \in DOMAIN msgq[q][l] :
                           WaitsAt(s, q, l, j) => q = r /\ l = p /\ j = i
    BY <1>2, <1>5 DEF AtMostOne
  <2>1. s \in procs /\ state'[s] = state[s]
    BY <1>2, <1>4
  <2> QED BY <2>1 DEF AtMostOne
<1> QED BY <1>3, <1>6

\* Nobody is flushed, so no step breaks it.
LEMMA AtMostOneStep ==
  ASSUME Immortal, TypeOK, ExecutingLive, SchedInv, QueuesOfTheLiving,
         AtMostOne, Next
  PROVE  QueuesOfTheLiving' /\ AtMostOne'
<1>a. procs \subseteq Id /\ state \in [Id -> ProcessState]
  BY DEF TypeOK, SchedulerTypeOK
<1>1. CASE Quiet
  <2>1. procs' = procs /\ state' = state /\ msgq' = msgq
    BY <1>1 DEF Quiet
  <2> QED BY <2>1 DEF QueuesOfTheLiving, AtMostOne, WaitsAt
<1>2. ASSUME NEW coid \in Id, NEW waiting \in BOOLEAN, SystemSend(coid, waiting)
      PROVE  QueuesOfTheLiving' /\ AtMostOne'
  <2>1. /\ current \in procs /\ state[current] = "READY"
        /\ coid \in procs /\ Accepts(coid, current) /\ HasRoom(coid, current)
        /\ MsgEnqueue(coid, current, waiting) /\ procs' = procs
    BY <1>2 DEF SystemSend, Accepts, SchedInv, RunningReady
  <2> DEFINE st == IF waiting THEN [state EXCEPT ![current] = "BLOCKED_SENDING"]
                              ELSE state
  <2>2. /\ \A x \in procs : state[x] = "BLOCKED_SENDING" =>
                            st[x] = "BLOCKED_SENDING"
        /\ waiting => st[current] = "BLOCKED_SENDING"
        /\ st \in [Id -> ProcessState]
    BY <1>a, <2>1 DEF ProcessState
  <2>3. WakeReceiver(coid, st)
    BY <1>2 DEF SystemSend
  <2> HIDE DEF st
  <2>4. \A x \in procs : st[x] = "BLOCKED_SENDING" =>
                         state'[x] = "BLOCKED_SENDING"
    BY <1>a, <2>2, <2>3 DEF WakeReceiver
  <2> QED BY <1>a, <2>1, <2>2, <2>4, EnqueueKeeps
<1>3. CASE ReceiveBlocks
  <2>1. /\ current \in procs /\ state[current] = "READY"
        /\ UNCHANGED <<procs, msgq>>
        /\ state' = [state EXCEPT ![current] = "BLOCKED_RECEIVING"]
    BY <1>3 DEF ReceiveBlocks, SchedInv, RunningReady
  <2>2. \A x \in procs : state[x] = "BLOCKED_SENDING" =>
                         state'[x] = "BLOCKED_SENDING"
    BY <1>a, <2>1
  <2> QED BY <2>1, <2>2 DEF QueuesOfTheLiving, AtMostOne, WaitsAt
<1>4. CASE \E p \in Level : ReceiveMessage(p)
  BY <1>4, ReceiveKeeps
<1>5. ASSUME NEW coid, KernelSend(coid), UNCHANGED procs
      PROVE  QueuesOfTheLiving' /\ AtMostOne'
  <2>1. CASE Accepts(coid, NullId)
    <3>1. /\ coid \in procs /\ HasRoom(coid, NullId)
          /\ MsgEnqueue(coid, NullId, FALSE) /\ WakeReceiver(coid, state)
      BY <1>5, <2>1 DEF KernelSend, Accepts
    <3>2. \A x \in procs : state[x] = "BLOCKED_SENDING" =>
                           state'[x] = "BLOCKED_SENDING"
      BY <1>a, <3>1 DEF WakeReceiver
    <3> QED BY <1>5, <2>1, <3>1, <3>2, EnqueueKeeps
  <2>2. CASE ~Accepts(coid, NullId)
    BY <1>5, <2>2 DEF KernelSend, QueuesOfTheLiving, AtMostOne, WaitsAt
  <2> QED BY <2>1, <2>2
<1>6. CASE Inserts
  BY <1>6, InsertKeeps
<1>7. ~KillFinish /\ ~\E p \in Level : KillFlush(p)
  BY DEF SchedInv, NodesLive, KillFinish, KillFlush
<1> QED BY <1>1, <1>2, <1>3, <1>4, <1>5, <1>6, <1>7, StepKinds

-----------------------------------------------------------------------------
(* The theorem                                                              *)

\* The places a process waits at, counted: with a message pending for every
\* blocked sender there is exactly one for each.
LEMMA CountsPending ==
  ASSUME TypeOK, QueuesOfTheLiving, AtMostOne, BlockedSenderPending
  PROVE  Rendezvous
<1> SUFFICES ASSUME NEW s \in procs
             PROVE  Cardinality(Pending(s)) =
                      IF state[s] = "BLOCKED_SENDING" THEN 1 ELSE 0
  BY DEF Rendezvous
<1>1. procs \subseteq Id /\ MaxMsgs \in Nat
      /\ msgq \in [Id -> [Level -> Seq(Message)]]
  BY MaxMsgsAssumption DEF TypeOK, SchedulerTypeOK, IpcTypeOK
<1>2. \A t : t \in Pending(s) <=>
        \E r \in procs, p \in Level : \E i \in DOMAIN msgq[r][p] :
          t = <<r, p, i>> /\ WaitsAt(s, r, p, i)
  <2>1. ASSUME NEW t \in Pending(s)
        PROVE  \E r \in procs, p \in Level : \E i \in DOMAIN msgq[r][p] :
                 t = <<r, p, i>> /\ WaitsAt(s, r, p, i)
    BY DEF Pending, WaitsAt
  <2>2. ASSUME NEW r \in procs, NEW p \in Level, NEW i \in DOMAIN msgq[r][p],
               WaitsAt(s, r, p, i)
        PROVE  <<r, p, i>> \in Pending(s)
    <3>1. msgq[r][p] \in Seq(Message) /\ Len(msgq[r][p]) <= MaxMsgs
      BY <1>1 DEF QueuesOfTheLiving
    <3>2. i \in 1 .. MaxMsgs
      BY <1>1, <3>1
    <3> QED BY <2>2, <3>2 DEF Pending, WaitsAt
  <2> QED BY <2>1, <2>2
<1>3. CASE state[s] = "BLOCKED_SENDING"
  <2>1. PICK r \in procs, p \in Level : \E i \in DOMAIN msgq[r][p] :
          WaitsAt(s, r, p, i)
    BY <1>3 DEF BlockedSenderPending, WaitsAt
  <2>2. PICK i \in DOMAIN msgq[r][p] : WaitsAt(s, r, p, i)
    BY <2>1
  <2>3. <<r, p, i>> \in Pending(s)
    BY <1>2, <2>2
  <2>4. \A t \in Pending(s) : t = <<r, p, i>>
    BY <1>1, <1>2, <2>2 DEF AtMostOne
  <2>5. Pending(s) = {<<r, p, i>>}
    BY <2>3, <2>4
  <2> QED BY <1>3, <2>5, FS_Singleton
<1>4. CASE state[s] # "BLOCKED_SENDING"
  <2>1. Pending(s) = {}
    BY <1>1, <1>2, <1>4 DEF AtMostOne
  <2> QED BY <1>4, <2>1, FS_EmptySet
<1> QED BY <1>3, <1>4

(***************************************************************************)
(* A process is blocked sending exactly while one message it waits for is  *)
(* queued: it never has two, is never released by a message but its own,   *)
(* and never left blocked by one that was received.                        *)
(***************************************************************************)
THEOREM RendezvousHolds ==
  ASSUME Immortal
  PROVE  Spec => []Rendezvous
<1> DEFINE I == TypeOK /\ ExecutingLive /\ SchedInv
           J == QueuesOfTheLiving /\ AtMostOne
<1>1. Init => J
  BY MaxMsgsAssumption
  DEF Init, SchedulerInit, IpcInit, EmptyQueue, QueuesOfTheLiving, AtMostOne
<1>2. I /\ J /\ [Next]_vars => J'
  <2>1. CASE UNCHANGED vars
    BY <2>1 DEF vars, schedVars, ipcVars, QueuesOfTheLiving, AtMostOne, WaitsAt
  <2> QED BY <2>1, AtMostOneStep
<1>3. Spec => []I
  BY SchedInvHolds DEF IdsAreClean
<1>4. I /\ J /\ BlockedSenderPending => Rendezvous
  BY CountsPending
<1> HIDE DEF I, J
<1> QED BY <1>1, <1>2, <1>3, <1>4, NoSenderForgotten, PTL DEF Spec

=============================================================================

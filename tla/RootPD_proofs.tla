---------------------------- MODULE RootPD_proofs ----------------------------
(***************************************************************************)
(* Theorems about RootPD, for every number of threads: reply objects are   *)
(* never confused, only a BLOCK, a RELEASE or a fault is left unanswered,  *)
(* and a blocked thread is answered only by a release.                     *)
(***************************************************************************)
EXTENDS RootPD, TLAPS

\* The two parts of HeldOnce that an entry point can put at risk: the slots, and who is in
\* the reply objects.
Distinct(s) == \A a, b \in Slots : s[a] = s[b] => a = b
Held(c, x) ==
  /\ \A o, p \in Objects : c[o] = c[p] /\ c[o] # NoThread => o = p
  /\ \A t \in Threads : x[t] = "waiting" <=> \E o \in Objects : c[o] = t

States == {"unborn", "running", "queued", "waiting", "inactive"}
CallersOK(c) == c \in [Objects -> Threads \cup {NoThread}]
StatesOK(x) == x \in [Threads -> States]
SlotsOK(s) == s \in [Slots -> Objects]

IInv == TypeOK /\ HeldOnce /\ OthersAnswered

LEMMA HeldOnceIs ==
  HeldOnce <=> Distinct(slot) /\ Held(caller, st)
                 /\ (handling # NoThread => caller[slot[REPLY]] = handling)
BY DEF HeldOnce, Distinct, Held

LEMMA TypeOKIs ==
  TypeOK <=> SlotsOK(slot) /\ CallersOK(caller) /\ StatesOK(st)
               /\ request \in [Threads -> Requests] /\ handling \in Threads \cup {NoThread}
BY DEF TypeOK, SlotsOK, CallersOK, StatesOK, States

\* NoThread is no thread, and REPLY_CPTR is a slot of no thread.
LEMMA Numbers ==
  /\ NoThread \notin Threads /\ REPLY \in Slots /\ REPLY \notin Threads
  /\ 0 \in Threads /\ 1 \in Threads /\ Threads \subseteq Slots /\ Objects = Slots
BY MaxThreadsAssumption DEF NoThread, Threads, REPLY, Slots, Objects

\* A rotation permutes the slots (sel4cp_thread_swap_reply).
LEMMA SwapKeepsDistinct ==
  ASSUME NEW s, SlotsOK(s), Distinct(s), NEW t \in Threads
  PROVE  SlotsOK(SwapReply(s, t)) /\ Distinct(SwapReply(s, t))
BY Numbers DEF SlotsOK, Distinct, SwapReply

\* Taking a thread out of the objects, for Suspend and Resume, leaves the others held.
LEMMA WithoutKeepsHeld ==
  ASSUME CallersOK(caller), StatesOK(st), Held(caller, st), NEW t \in Threads,
         NEW v \in States \ {"waiting"}
  PROVE  /\ CallersOK(Without(t)) /\ StatesOK([st EXCEPT ![t] = v])
         /\ Held(Without(t), [st EXCEPT ![t] = v])
         /\ \A o \in Objects : Without(t)[o] # t /\ Without(t)[o] \in {caller[o], NoThread}
<1>1. CallersOK(Without(t)) /\ StatesOK([st EXCEPT ![t] = v])
  BY DEF CallersOK, StatesOK, Without
<1>2. \A o \in Objects : Without(t)[o] = IF caller[o] = t THEN NoThread ELSE caller[o]
  BY DEF Without
<1>3. \A o \in Objects : Without(t)[o] # t /\ Without(t)[o] \in {caller[o], NoThread}
  BY <1>2, Numbers
<1>4. \A o, p \in Objects : Without(t)[o] = Without(t)[p] /\ Without(t)[o] # NoThread => o = p
  BY <1>2 DEF Held
<1>5. ASSUME NEW u \in Threads
      PROVE  [st EXCEPT ![t] = v][u] = "waiting" <=> \E o \in Objects : Without(t)[o] = u
  <2>1. CASE u = t
    BY <2>1, <1>3 DEF StatesOK
  <2>2. CASE u # t
    <3>1. [st EXCEPT ![t] = v][u] = st[u]
      BY <2>2 DEF StatesOK
    <3>2. \A o \in Objects : Without(t)[o] = u <=> caller[o] = u
      BY <2>2, <1>2, Numbers
    <3> QED
      BY <3>1, <3>2 DEF Held
  <2> QED
    BY <2>1, <2>2
<1> QED
  BY <1>1, <1>3, <1>4, <1>5 DEF Held

\* An entry point returns with an answer to whoever is in the object of REPLY_CPTR, or with none.
LEMMA ReturnKeepsHeld ==
  ASSUME TypeOK, NEW r, NEW s, NEW c, NEW x, NEW a \in BOOLEAN,
         Return(r, s, c, x, a), SlotsOK(s), Distinct(s), CallersOK(c), StatesOK(x), Held(c, x)
  PROVE  TypeOK' /\ HeldOnce'
<1> DEFINE o0 == s[REPLY]
<1>1. /\ slot' = s /\ handling' = NoThread /\ request' = request
      /\ a => caller' = [c EXCEPT ![o0] = NoThread]
      /\ a => st' = [u \in Threads |-> IF u = c[o0] THEN "running" ELSE x[u]]
      /\ ~a => caller' = c /\ st' = x
  BY DEF Return
<1>2. o0 \in Objects
  BY Numbers DEF SlotsOK
<1> HIDE DEF o0
<1>3. CallersOK(caller') /\ StatesOK(st')
  BY <1>1, <1>2 DEF CallersOK, StatesOK, States
<1>4. Held(caller', st')
  <2>1. CASE ~a
    BY <2>1, <1>1
  <2>2. CASE a
    <3>1. \A o \in Objects : caller'[o] = IF o = o0 THEN NoThread ELSE c[o]
      BY <2>2, <1>1, <1>2 DEF CallersOK
    <3>2. \A u \in Threads : st'[u] = IF u = c[o0] THEN "running" ELSE x[u]
      BY <2>2, <1>1
    <3>3. \A o, p \in Objects : caller'[o] = caller'[p] /\ caller'[o] # NoThread => o = p
      BY <3>1 DEF Held
    <3>4. ASSUME NEW u \in Threads
          PROVE  st'[u] = "waiting" <=> \E o \in Objects : caller'[o] = u
      <4>1. CASE u = c[o0]
        <5>1. \A o \in Objects : c[o] = u => o = o0
          BY <4>1, <1>2, Numbers DEF Held
        <5> QED
          BY <5>1, <4>1, <3>1, <3>2, Numbers
      <4>2. CASE u # c[o0]
        <5>1. \A o \in Objects : caller'[o] = u <=> c[o] = u
          BY <4>2, <3>1, Numbers
        <5> QED
          BY <5>1, <4>2, <3>2 DEF Held
      <4> QED
        BY <4>1, <4>2
    <3> QED
      BY <3>3, <3>4 DEF Held
  <2> QED
    BY <2>1, <2>2
<1>5. TypeOK'
  BY <1>1, <1>3 DEF TypeOK, SlotsOK, CallersOK, StatesOK, States
<1> QED
  BY <1>1, <1>4, <1>5 DEF HeldOnce, Held, Distinct

\* With the reply objects as they are, the caller of an answered DUMMY, CREATE or timeout is
\* the thread that runs.
LEMMA ReturnKeepsAnswered ==
  ASSUME IInv, NEW r, NEW s, NEW c, NEW x, NEW a \in BOOLEAN, Return(r, s, c, x, a),
         \A u \in Threads : x[u] = "waiting" => st[u] = "waiting",
         x[handling] = "waiting" /\ r \in {"DUMMY", "CREATE", "timeout"} =>
           a /\ c[s[REPLY]] = handling
  PROVE  OthersAnswered'
<1> SUFFICES ASSUME NEW t \in Threads, st'[t] = "waiting",
                    request'[t] \in {"DUMMY", "CREATE", "timeout"}
             PROVE  FALSE
  BY DEF OthersAnswered
<1>1. /\ request' = request /\ handling \in Threads /\ request[handling] = r
      /\ a => st'[t] = IF t = c[s[REPLY]] THEN "running" ELSE x[t]
      /\ ~a => st'[t] = x[t]
  BY DEF Return, IInv, TypeOK
<1>2. x[t] = "waiting" /\ (a => t # c[s[REPLY]])
  BY <1>1
<1>3. handling = t
  BY <1>1, <1>2 DEF IInv, OthersAnswered
<1> QED
  BY <1>1, <1>2, <1>3

-----------------------------------------------------------------------------
(* The inductive invariant *)

LEMMA InitInv == Init => IInv
<1> SUFFICES ASSUME Init PROVE IInv
  OBVIOUS
<1>1. TypeOK
  BY Numbers DEF Init, TypeOK, Requests
<1>2. HeldOnce
  BY Numbers DEF Init, HeldOnce
<1>3. OthersAnswered
  BY DEF Init, OthersAnswered
<1> QED
  BY <1>1, <1>2, <1>3 DEF IInv

LEMMA SendInv == ASSUME IInv, NEW t \in Threads, NEW r \in Requests, Send(t, r) PROVE IInv'
<1>1. TypeOK'
  BY DEF IInv, TypeOK, Send
<1>2. /\ \A u \in Threads : st'[u] = "waiting" <=> st[u] = "waiting"
      /\ \A u \in Threads : st[u] = "waiting" => request'[u] = request[u]
  BY DEF IInv, TypeOK, Send
<1>3. HeldOnce'
  BY <1>2 DEF IInv, HeldOnce, Send
<1>4. OthersAnswered'
  BY <1>2 DEF IInv, OthersAnswered, Send
<1> QED
  BY <1>1, <1>3, <1>4 DEF IInv

\* The receive puts the new caller where the old one was, which is cancelled.
LEMMA ReceiveInv == ASSUME IInv, NEW t \in Threads, Receive(t) PROVE IInv'
<1> DEFINE o0 == slot[REPLY]
<1>1. /\ o0 \in Objects /\ slot' = slot /\ request' = request /\ handling = NoThread
      /\ handling' = t /\ st[t] = "queued" /\ CallersOK(caller)
  BY Numbers DEF IInv, TypeOK, Receive, CallersOK
<1>2. caller' = [caller EXCEPT ![o0] = t]
  BY DEF Receive
<1>3. \A u \in Threads : st'[u] = IF u = t THEN "waiting"
                                 ELSE IF u = caller[o0] THEN "inactive" ELSE st[u]
  BY DEF Receive
<1>4. \A o \in Objects : caller[o] # t
  BY <1>1 DEF IInv, HeldOnce
<1>5. TypeOK'
  BY <1>1, <1>2 DEF IInv, TypeOK, Receive
<1> HIDE DEF o0
<1>6. \A o \in Objects : caller'[o] = IF o = o0 THEN t ELSE caller[o]
  BY <1>1, <1>2 DEF CallersOK
<1>7. \A u \in Threads : u # t => (st'[u] = "waiting" <=> st[u] = "waiting" /\ u # caller[o0])
  BY <1>3
<1>8. st'[t] = "waiting"
  BY <1>3
<1>9. HeldOnce'
  <2>1. \A o, p \in Objects : caller'[o] = caller'[p] /\ caller'[o] # NoThread => o = p
    BY <1>4, <1>6 DEF IInv, HeldOnce
  <2>2. ASSUME NEW u \in Threads
        PROVE  st'[u] = "waiting" <=> \E o \in Objects : caller'[o] = u
    <3>1. CASE u = t
      BY <3>1, <1>1, <1>6, <1>8
    <3>2. CASE u # t
      <4>1. st'[u] = "waiting" <=> st[u] = "waiting" /\ u # caller[o0]
        BY <3>2, <1>7
      <4>2. st[u] = "waiting" <=> \E o \in Objects : caller[o] = u
        BY DEF IInv, HeldOnce
      <4>3. \A o \in Objects : o # o0 /\ caller[o] = u => u # caller[o0]
        BY <1>1, Numbers DEF IInv, HeldOnce
      <4> QED
        BY <4>1, <4>2, <4>3, <3>2, <1>6
    <3> QED
      BY <3>1, <3>2
  <2>3. Distinct(slot)'
    BY <1>1 DEF IInv, HeldOnce, Distinct
  <2>4. caller'[slot'[REPLY]] = handling'
    BY <1>1, <1>6 DEF o0
  <2> QED
    BY <2>1, <2>2, <2>3, <2>4 DEF HeldOnce, Distinct
<1>10. OthersAnswered'
  <2> SUFFICES ASSUME NEW u \in Threads, u # t, st'[u] = "waiting",
                      request'[u] \in {"DUMMY", "CREATE", "timeout"}
               PROVE  FALSE
    BY <1>1 DEF OthersAnswered
  <2>1. st[u] = "waiting" /\ request[u] \in {"DUMMY", "CREATE", "timeout"}
    BY <1>1, <1>7
  <2> QED
    BY <2>1, <1>1, Numbers DEF IInv, OthersAnswered
<1> QED
  BY <1>5, <1>9, <1>10 DEF IInv

LEMMA ControlInv ==
  ASSUME IInv, NEW t \in Threads, StopThread(t) \/ RestartThread(t) PROVE IInv'
<1>1. PICK v \in States \ {"waiting"} :
        /\ caller' = Without(t) /\ st' = [st EXCEPT ![t] = v]
        /\ slot' = slot /\ request' = request /\ handling' = handling /\ handling = NoThread
  BY DEF StopThread, RestartThread, States
<1>2. /\ CallersOK(Without(t)) /\ StatesOK([st EXCEPT ![t] = v])
      /\ Held(Without(t), [st EXCEPT ![t] = v])
  BY WithoutKeepsHeld, HeldOnceIs, TypeOKIs DEF IInv
<1>3. TypeOK'
  BY <1>1, <1>2 DEF IInv, TypeOK, CallersOK, StatesOK, States
<1>4. HeldOnce'
  BY <1>1, <1>2 DEF IInv, HeldOnce, Held
<1>5. \A u \in Threads : st'[u] = "waiting" => st[u] = "waiting"
  BY <1>1 DEF IInv, TypeOK
<1>6. OthersAnswered'
  BY <1>1, <1>5 DEF IInv, OthersAnswered
<1> QED
  BY <1>3, <1>4, <1>6 DEF IInv

LEMMA HandleInv == ASSUME IInv, Handle PROVE IInv'
<1>1. /\ SlotsOK(slot) /\ Distinct(slot) /\ CallersOK(caller) /\ StatesOK(st)
      /\ Held(caller, st)
  BY HeldOnceIs, TypeOKIs DEF IInv
<1>2. handling # NoThread /\ caller[slot[REPLY]] = handling /\ slot[REPLY] \in Objects
  BY Numbers DEF IInv, HeldOnce, TypeOK, Handle, Dummy, Create, Block, Release, Fault,
     Timeout, Return
<1>3. CASE Dummy
  <2>1. TypeOK' /\ HeldOnce'
    BY <1>1, <1>3, ReturnKeepsHeld DEF Dummy, IInv
  <2>2. OthersAnswered'
    BY <1>2, <1>3, ReturnKeepsAnswered DEF Dummy
  <2> QED
    BY <2>1, <2>2 DEF IInv
<1>4. CASE Create
  <2> DEFINE x == [st EXCEPT ![1] = "running"]
  <2>1. 1 \in Threads /\ "running" \in States \ {"waiting"}
    BY Numbers DEF States
  <2>2. /\ CallersOK(Without(1)) /\ StatesOK(x) /\ Held(Without(1), x)
    BY <1>1, <2>1, WithoutKeepsHeld
  <2>3. TypeOK' /\ HeldOnce'
    BY <1>1, <1>4, <2>2, ReturnKeepsHeld DEF Create, IInv
  <2>4. \A u \in Threads : x[u] = "waiting" => st[u] = "waiting" /\ u # 1
    BY <1>1 DEF StatesOK
  <2>5. x[handling] = "waiting" => Without(1)[slot[REPLY]] = handling
    BY <1>2, <2>4 DEF Without, IInv, TypeOK
  <2>6. OthersAnswered'
    BY <1>4, <2>4, <2>5, ReturnKeepsAnswered DEF Create
  <2> QED
    BY <2>3, <2>6 DEF IInv
<1>5. CASE Block
  <2>1. SlotsOK(SwapReply(slot, 0)) /\ Distinct(SwapReply(slot, 0))
    BY <1>1, Numbers, SwapKeepsDistinct
  <2>2. TypeOK' /\ HeldOnce'
    BY <1>1, <1>5, <2>1, ReturnKeepsHeld DEF Block, IInv
  <2>3. OthersAnswered'
    BY <1>5, ReturnKeepsAnswered DEF Block
  <2> QED
    BY <2>2, <2>3 DEF IInv
<1>6. CASE Release
  <2> DEFINE s == SwapReply(SwapReply(slot, 1), 0)
  <2>1. SlotsOK(SwapReply(slot, 1)) /\ Distinct(SwapReply(slot, 1))
    BY <1>1, Numbers, SwapKeepsDistinct
  <2>2. SlotsOK(s) /\ Distinct(s)
    BY <2>1, Numbers, SwapKeepsDistinct
  <2>3. TypeOK' /\ HeldOnce'
    BY <1>1, <1>6, <2>2, ReturnKeepsHeld DEF Release, IInv
  <2>4. OthersAnswered'
    BY <1>6, ReturnKeepsAnswered DEF Release
  <2> QED
    BY <2>3, <2>4 DEF IInv
<1>7. CASE Fault
  <2>1. TypeOK' /\ HeldOnce'
    BY <1>1, <1>7, ReturnKeepsHeld DEF Fault, IInv
  <2>2. OthersAnswered'
    BY <1>7, ReturnKeepsAnswered DEF Fault
  <2> QED
    BY <2>1, <2>2 DEF IInv
<1>8. CASE Timeout
  <2>1. TypeOK' /\ HeldOnce'
    BY <1>1, <1>8, ReturnKeepsHeld DEF Timeout, IInv
  <2>2. OthersAnswered'
    BY <1>2, <1>8, ReturnKeepsAnswered DEF Timeout
  <2> QED
    BY <2>1, <2>2 DEF IInv
<1> QED
  BY <1>3, <1>4, <1>5, <1>6, <1>7, <1>8 DEF Handle

LEMMA NextInv == IInv /\ [Next]_vars => IInv'
<1> SUFFICES ASSUME IInv, [Next]_vars PROVE IInv'
  OBVIOUS
<1>1. CASE \E t \in Threads : \E r \in RequestsOf(t) : Send(t, r)
  BY <1>1, SendInv DEF RequestsOf, Requests
<1>2. CASE \E t \in Threads : Receive(t)
  BY <1>2, ReceiveInv
<1>3. CASE \E t \in Threads : StopThread(t) \/ RestartThread(t)
  BY <1>3, ControlInv
<1>4. CASE Handle
  BY <1>4, HandleInv
<1>5. CASE UNCHANGED vars
  BY <1>5 DEF vars, IInv, TypeOK, HeldOnce, OthersAnswered
<1> QED
  BY <1>1, <1>2, <1>3, <1>4, <1>5 DEF Next

LEMMA Invariance == Spec => []IInv
BY InitInv, NextInv, PTL DEF Spec

-----------------------------------------------------------------------------
(* The theorems *)

\* Slots, reply objects and threads keep their types for every number of threads.
THEOREM TypeCorrect == Spec => []TypeOK
<1>1. IInv => TypeOK
  BY DEF IInv
<1> QED
  BY <1>1, Invariance, PTL

\* For every number of threads and every order of swaps, answers and cancellations, a thread
\* that waits is in exactly one reply object and no slot lost its object (thread.h:123-144).
THEOREM ObjectsKept == Spec => []HeldOnce
<1>1. IInv => HeldOnce
  BY DEF IInv
<1> QED
  BY <1>1, Invariance, PTL

\* For every number of threads, what is left without an answer is a BLOCK, a RELEASE or a
\* fault (os.c:33-83).
THEOREM NoAnswerTaken == Spec => []OthersAnswered
<1>1. IInv => OthersAnswered
  BY DEF IInv
<1> QED
  BY <1>1, Invariance, PTL

\* Whoever an entry point makes run was waiting in the object of REPLY_CPTR or, with CREATE,
\* is thread 1: it is the caller itself unless the slots were swapped.
LEMMA RunsOnlyReleased ==
  ASSUME IInv, [Next]_vars, NEW t \in Threads, st[t] = "waiting", request[t] = "BLOCK",
         st'[t] = "running", handling # NoThread
  PROVE  request[handling] = "RELEASE" \/ (request[handling] = "CREATE" /\ t = 1)
<1>1. caller[slot[REPLY]] = handling /\ handling \in Threads
  BY DEF IInv, TypeOK, HeldOnce
<1>2. Handle
  BY DEF Next, vars, Send, Receive, StopThread, RestartThread
<1>3. CASE Dummy
  BY <1>1, <1>3 DEF Dummy, Return
<1>4. CASE Create
  <2>1. request[handling] = "CREATE" /\ slot' = slot
    BY <1>4 DEF Create, Return
  <2>2. CASE t # 1
    <3>1. st'[t] = IF t = Without(1)[slot[REPLY]] THEN "running" ELSE "waiting"
      BY <1>4, <2>2 DEF Create, Return, IInv, TypeOK
    <3>2. Without(1)[slot[REPLY]] \in {handling, NoThread}
      BY <1>1, Numbers DEF Without, IInv, TypeOK
    <3> QED
      BY <3>1, <3>2, <2>1, Numbers
  <2> QED
    BY <2>1, <2>2
<1>5. CASE Block
  BY <1>5 DEF Block, Return
<1>6. CASE Release
  BY <1>6 DEF Release, Return
<1>7. CASE Fault
  BY <1>7 DEF Fault, Return
<1>8. CASE Timeout
  BY <1>1, <1>8 DEF Timeout, Return
<1> QED
  BY <1>2, <1>3, <1>4, <1>5, <1>6, <1>7, <1>8 DEF Handle

\* For every number of threads, a thread that blocked does not run because another thread was
\* answered: only a RELEASE, or the creation of a new thread in its place, ends its wait
\* (os.c:68-77).
THEOREM BlockedUntilReleased == Spec => BlockEndsByRelease
<1>1. IInv /\ [Next]_vars => [\A t \in Threads : ReleasesIfBlocked(t)]_vars
  BY RunsOnlyReleased DEF ReleasesIfBlocked
<1> QED
  BY <1>1, Invariance, PTL DEF Spec, BlockEndsByRelease
=============================================================================

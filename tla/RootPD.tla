-------------------------------- MODULE RootPD --------------------------------
(***************************************************************************)
(* A root PD that controls threads (libsel4cp/include/sel4cp/thread.h),    *)
(* with the entry points of the example                                    *)
(* (example/qemu_arm_virt/hello_world/os/os.c): its children call and      *)
(* fault to it, and it answers, withholds the answer, or rotates the reply *)
(* objects between its slots to answer another thread.  Thread 0 is the    *)
(* child PD.  The root PD has the highest priority: while an entry point   *)
(* runs no child does.  PDRuntime has the loop around the entry points.    *)
(***************************************************************************)
EXTENDS Integers

CONSTANTS
  MaxThreads,  \* libsel4cp_max_threads
  Timeouts     \* whether the description sets timeouts, which the tool gives to child PDs only

ASSUME MaxThreadsAssumption == MaxThreads \in Nat /\ MaxThreads >= 2
ASSUME TimeoutsAssumption == Timeouts \in BOOLEAN

Threads == 0..MaxThreads - 1
REPLY == MaxThreads              \* REPLY_CPTR; slot t is THREAD_REPLY(t)
Slots == Threads \cup {REPLY}
Objects == Slots                 \* each reply object, by the slot that the tool puts it in
NoThread == -1

\* The first four are the labels of a root call; CREATE's address space is that of the
\* caller, so only a child PD makes it.
Requests == {"DUMMY", "CREATE", "BLOCK", "RELEASE", "fault", "timeout"}
RequestsOf(t) ==
  {"DUMMY", "BLOCK", "RELEASE", "fault"} \cup (IF t = 0 THEN {"CREATE"} ELSE {})
    \cup IF t = 0 /\ Timeouts THEN {"timeout"} ELSE {}

VARIABLES
  slot,      \* the reply object in each slot
  caller,    \* the thread that each reply object answers
  st,        \* of each thread: "unborn", "running", "queued" at the endpoint, "waiting" for an
             \*   answer or "inactive"
  request,   \* the last request of each thread
  handling   \* the thread whose request an entry point of the root PD handles

vars == <<slot, caller, st, request, handling>>

Init ==
  /\ slot = [s \in Slots |-> s]
  /\ caller = [o \in Objects |-> NoThread]
  /\ st = [t \in Threads |-> IF t = 0 THEN "running" ELSE "unborn"]
  /\ request = [t \in Threads |-> "DUMMY"]
  /\ handling = NoThread

-----------------------------------------------------------------------------
(* Requests *)

Send(t, r) ==
  /\ handling = NoThread /\ st[t] = "running"
  /\ st' = [st EXCEPT ![t] = "queued"] /\ request' = [request EXCEPT ![t] = r]
  /\ UNCHANGED <<slot, caller, handling>>

\* The receive cancels whoever is still in the object of REPLY_CPTR.
Receive(t) ==
  /\ handling = NoThread /\ st[t] = "queued"
  /\ caller' = [caller EXCEPT ![slot[REPLY]] = t]
  /\ st' = [u \in Threads |-> IF u = t THEN "waiting"
                              ELSE IF u = caller[slot[REPLY]] THEN "inactive" ELSE st[u]]
  /\ handling' = t /\ UNCHANGED <<slot, request>>

\* seL4_CNode_Rotate of sel4cp_thread_swap_reply; a copy would keep the pivot, and moves
\* that end with the REPLY_CPTR would empty the other slot.
MoveReply(s, t) == [s EXCEPT ![REPLY] = s[t], ![t] = NoThread]
CopyReply(s, t) == [s EXCEPT ![REPLY] = s[t]]
SwapReply(s, t) == [s EXCEPT ![REPLY] = s[t], ![t] = s[REPLY]]

\* The end of an entry point: with an answer, the thread in the object of REPLY_CPTR runs.
Return(r, s, callers, states, answered) ==
  /\ handling # NoThread /\ request[handling] = r
  /\ slot' = s
  /\ IF answered
     THEN /\ caller' = [callers EXCEPT ![s[REPLY]] = NoThread]
          /\ st' = [u \in Threads |-> IF u = callers[s[REPLY]] THEN "running" ELSE states[u]]
     ELSE caller' = callers /\ st' = states
  /\ handling' = NoThread /\ UNCHANGED request

-----------------------------------------------------------------------------
(* Thread control: Suspend and Resume take a thread out of the endpoint's queue or out of the *)
(* reply object that it waits for. *)

Without(t) == [o \in Objects |-> IF caller[o] = t THEN NoThread ELSE caller[o]]

\* sel4cp_thread_stop, sel4cp_thread_restart and sel4cp_thread_resume, in an entry point
\* that no request of a child leads to.
StopThread(t) ==
  /\ handling = NoThread /\ st[t] \notin {"unborn", "inactive"}
  /\ caller' = Without(t) /\ st' = [st EXCEPT ![t] = "inactive"]
  /\ UNCHANGED <<slot, request, handling>>
RestartThread(t) ==
  /\ handling = NoThread /\ st[t] # "unborn"
  /\ caller' = Without(t) /\ st' = [st EXCEPT ![t] = "running"]
  /\ UNCHANGED <<slot, request, handling>>

-----------------------------------------------------------------------------
(* protected and fault of os.c *)

Dummy == Return("DUMMY", slot, caller, st, TRUE)

\* new_thread is always 1.
Create == Return("CREATE", slot, Without(1), [st EXCEPT ![1] = "running"], TRUE)

BlockAnswers == Return("BLOCK", SwapReply(slot, 0), caller, st, TRUE)
Block == Return("BLOCK", SwapReply(slot, 0), caller, st, FALSE)

ReleaseInOrder == Return("RELEASE", SwapReply(SwapReply(slot, 0), 1), caller, st, TRUE)
Release == Return("RELEASE", SwapReply(SwapReply(slot, 1), 0), caller, st, TRUE)

Fault == Return("fault", slot, caller, st, FALSE)
TimeoutWithheld == Return("timeout", slot, caller, st, FALSE)
Timeout == Return("timeout", slot, caller, st, TRUE)

Handle == Dummy \/ Create \/ Block \/ Release \/ Fault \/ Timeout

Next ==
  \/ \E t \in Threads : \/ \E r \in RequestsOf(t) : Send(t, r)
                        \/ Receive(t) \/ StopThread(t) \/ RestartThread(t)
  \/ Handle

\* The root PD has the highest priority and a budget that is its whole period.
Spec == Init /\ [][Next]_vars /\ WF_vars(\E t \in Threads : Receive(t)) /\ WF_vars(Handle)

-----------------------------------------------------------------------------
TypeOK ==
  /\ slot \in [Slots -> Objects] /\ caller \in [Objects -> Threads \cup {NoThread}]
  /\ st \in [Threads -> {"unborn", "running", "queued", "waiting", "inactive"}]
  /\ request \in [Threads -> Requests] /\ handling \in Threads \cup {NoThread}

\* Whatever the order of swaps, cancellations and restarts, the slots hold different reply
\* objects, a thread that waits for an answer is in exactly one of them and nobody else is
\* in any, and while an entry point runs its caller is in the object of REPLY_CPTR
\* (thread.h:123-144, and the receive of libsel4cp/src/main.c).
HeldOnce ==
  /\ \A a, b \in Slots : slot[a] = slot[b] => a = b
  /\ \A o, p \in Objects : caller[o] = caller[p] /\ caller[o] # NoThread => o = p
  /\ \A t \in Threads : st[t] = "waiting" <=> \E o \in Objects : caller[o] = t
  /\ handling # NoThread => caller[slot[REPLY]] = handling

\* Only a BLOCK, a RELEASE or a fault is left without an answer when its entry point returns:
\* nothing that other threads block or release takes the answer of another request away.
OthersAnswered ==
  \A t \in Threads :
    st[t] = "waiting" /\ request[t] \in {"DUMMY", "CREATE", "timeout"} => handling = t

\* A thread that has blocked is answered when another is released and at no other time
\* (os.c:68-77, hello.c:31-33).
ReleasesIfBlocked(t) ==
  /\ st[t] = "waiting" /\ request[t] = "BLOCK" /\ st'[t] = "running" /\ handling # NoThread
  => request[handling] = "RELEASE" \/ (request[handling] = "CREATE" /\ t = 1)
BlockEndsByRelease == [][\A t \in Threads : ReleasesIfBlocked(t)]_vars

\* A RELEASE runs the thread that is blocked: whoever is parked in THREAD_REPLY(0) when
\* another thread's RELEASE is queued runs, unless one of the two is stopped or restarted.
Parked(t) == caller[slot[0]] = t
ReleaseWakes ==
  \A t, u \in Threads :
    t # u /\ Parked(t) /\ st[u] = "queued" /\ request[u] = "RELEASE"
      ~> st[t] # "waiting" \/ st[u] \in {"running", "inactive"}
=============================================================================

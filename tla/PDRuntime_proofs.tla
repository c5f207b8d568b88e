--------------------------- MODULE PDRuntime_proofs ---------------------------
(* Theorems about PDRuntime, for every system description and user program. *)
EXTENDS PDRuntime, FiniteSetTheorems, WellFoundedInduction, TLAPS

-----------------------------------------------------------------------------
(* What the kernel's priority queue does to a sequence of senders *)

\* The insertion point lies within the queue.
LEMMA InsertionPoint ==
  ASSUME NEW s \in Seq(PD), NEW p \in PD
  PROVE  Cardinality({n \in 1..Len(s) : Priority[s[n]] >= Priority[p]}) \in 0..Len(s)
<1> DEFINE S == {n \in 1..Len(s) : Priority[s[n]] >= Priority[p]}
<1>1. IsFiniteSet(1..Len(s)) /\ Cardinality(1..Len(s)) = Len(s)
  BY FS_Interval, Len(s) \in Nat
<1>2. S \subseteq 1..Len(s)
  OBVIOUS
<1>3. IsFiniteSet(S) /\ Cardinality(S) <= Cardinality(1..Len(s))
  BY <1>1, <1>2, FS_Subset
<1>4. Cardinality(S) \in Nat
  BY <1>3, FS_CardinalityType
<1> QED
  BY <1>1, <1>3, <1>4

\* Enqueue adds its argument and nothing else, and keeps a queue free of duplicates.
LEMMA EnqueueAdds ==
  ASSUME NEW s \in Seq(PD), NEW p \in PD
  PROVE  /\ Enqueue(s, p) \in Seq(PD)
         /\ \A r \in PD : (\E n \in DOMAIN Enqueue(s, p) : Enqueue(s, p)[n] = r)
                            <=> r = p \/ \E n \in DOMAIN s : s[n] = r
         /\ /\ \A n \in DOMAIN s : s[n] # p
            /\ \A m, n \in DOMAIN s : s[m] = s[n] => m = n
            => \A m, n \in DOMAIN Enqueue(s, p) :
                 Enqueue(s, p)[m] = Enqueue(s, p)[n] => m = n
<1> DEFINE k == Cardinality({n \in 1..Len(s) : Priority[s[n]] >= Priority[p]})
           e == [n \in 1..Len(s) + 1 |-> IF n <= k THEN s[n]
                                         ELSE IF n = k + 1 THEN p ELSE s[n - 1]]
<1>1. k \in 0..Len(s) /\ Len(s) \in Nat
  BY InsertionPoint
<1>2. Enqueue(s, p) = e
  BY DEF Enqueue
<1> HIDE DEF k
<1>3. \A n \in 1..Len(s) : s[n] \in PD
  OBVIOUS
<1>4. DOMAIN e = 1..Len(s) + 1 /\ DOMAIN s = 1..Len(s)
  OBVIOUS
<1>5. \A n \in 1..Len(s) + 1 : e[n] \in PD
  BY <1>1, <1>3
<1>6. e \in Seq(PD)
  <2>1. e \in [1..Len(s) + 1 -> PD]
    BY <1>5
  <2> QED
    BY <2>1, <1>1
<1>7. \A n \in 1..Len(s) : e[IF n <= k THEN n ELSE n + 1] = s[n]
  BY <1>1
<1>8. e[k + 1] = p
  BY <1>1
<1>9. \A r \in PD : (\E n \in DOMAIN e : e[n] = r) <=> r = p \/ \E n \in DOMAIN s : s[n] = r
  <2> TAKE r \in PD
  <2>1. ASSUME NEW n \in DOMAIN e, e[n] = r
        PROVE  r = p \/ \E m \in DOMAIN s : s[m] = r
    BY <2>1, <1>1, <1>4
  <2>2. ASSUME r = p
        PROVE  \E n \in DOMAIN e : e[n] = r
    <3>1. k + 1 \in DOMAIN e /\ e[k + 1] = r
      BY <2>2, <1>1, <1>4, <1>8
    <3> HIDE DEF e
    <3> QED
      BY <3>1
  <2>3. ASSUME NEW n \in DOMAIN s, s[n] = r
        PROVE  \E m \in DOMAIN e : e[m] = r
    <3> DEFINE m == IF n <= k THEN n ELSE n + 1
    <3>1. m \in DOMAIN e
      BY <1>1, <1>4
    <3> QED
      BY <2>3, <3>1, <1>4, <1>7
  <2> QED
    BY <2>1, <2>2, <2>3
<1>10. ASSUME \A n \in DOMAIN s : s[n] # p,
              \A m, n \in DOMAIN s : s[m] = s[n] => m = n,
              NEW m \in DOMAIN e, NEW n \in DOMAIN e, e[m] = e[n]
       PROVE  m = n
  <2> DEFINE back(x) == IF x <= k THEN x ELSE x - 1
  <2>1. \A x \in DOMAIN e : x # k + 1 => back(x) \in DOMAIN s /\ e[x] = s[back(x)]
    BY <1>1, <1>4
  <2>2. m = k + 1 <=> n = k + 1
    BY <1>8, <1>10, <2>1
  <2>3. CASE m = k + 1
    BY <2>2, <2>3
  <2>4. CASE m # k + 1
    <3>1. s[back(m)] = s[back(n)] /\ back(m) \in DOMAIN s /\ back(n) \in DOMAIN s
      BY <1>10, <2>1, <2>2, <2>4
    <3>2. back(m) = back(n)
      BY <3>1, <1>10
    <3> QED
      BY <3>2, <2>2, <2>4, <1>1, <1>4
  <2> QED
    BY <2>3, <2>4
<1> HIDE DEF e
<1> QED
  BY <1>2, <1>6, <1>9, <1>10

-----------------------------------------------------------------------------
(* The inductive invariant *)

\* A PD blocked in a receive has nobody in its reply object.
ReceiverHoldsNobody == \A q \in PD : state[q] = "receive" => reply[q] = NoPD

\* Whoever is blocked is blocked on a call its user code may make.
CallsFollowEdges == \A p \in PD : Blocked(p) => CallEdge(p, call[p].to)

IInv ==
  /\ TypeOK
  /\ CallersAreHeld
  /\ ReceiverHoldsNobody
  /\ CallsFollowEdges

\* Identifiers of the description are channel identifiers, and badges are words.
LEMMA UsedIdIsChannelId == UsedId \subseteq ChannelId
<1>1. ASSUME NEW c \in Channel
      PROVE  {c[2], c[4]} \subseteq ChannelId
  <2>1. c \in PD \X (0..62) \X PD \X (0..62)
    BY SystemAssumption
  <2> QED
    BY <2>1 DEF ChannelId
<1>2. ASSUME NEW s \in Irq
      PROVE  s[2] \in ChannelId
  BY SystemAssumption DEF ChannelId
<1>3. ASSUME NEW p \in PD
      PROVE  PdId[p] \in ChannelId
  BY SystemAssumption DEF ChannelId
<1>4. ASSUME NEW i \in UsedId
      PROVE  \/ \E c \in Channel : i \in {c[2], c[4]}
             \/ \E s \in Irq : i = s[2]
             \/ \E p \in PD : i = PdId[p]
  BY <1>4 DEF UsedId
<1> QED
  BY <1>1, <1>2, <1>3, <1>4

LEMMA BadgesAreWords ==
  /\ \A i \in ChannelId : NtfnBadge(i) \in SUBSET BadgeBit /\ NtfnBadge(i) \in SUBSET ChannelId
  /\ \A i \in ChannelId : PpcBadge(i) \in SUBSET BadgeBit
  /\ \A n \in ChannelId : RootPpcBadge(n) \in SUBSET BadgeBit
  /\ \A p \in PD : FaultBadge(p) \in SUBSET BadgeBit
<1>1. \A n : Bits(n) \in SUBSET BadgeBit
  <2> TAKE n
  <2>1. Bits(n) \subseteq 0..7
    BY DEF Bits
  <2> QED
    BY <2>1 DEF BadgeBit
<1> QED
  BY <1>1 DEF NtfnBadge, PpcBadge, RootPpcBadge, FaultBadge, BadgeBit, ChannelId,
    BADGE_FAULT_ROOT_BIT

LEMMA InitIInv == Init => IInv
BY SystemAssumption DEF Init, IInv, TypeOK, CallersAreHeld, ReceiverHoldsNobody,
  CallsFollowEdges, Blocked, NoCall, BadgeBit, ChannelId

\* seL4_Signal keeps the invariant, whether it wakes the PD or not.
LEMMA SignalKeeps ==
  ASSUME IInv, NEW q \in PD, NEW i \in ChannelId, Signal(q, NtfnBadge(i)),
         ops' \in [PD -> 0..MaxOps], masked' \subseteq Irq,
         UNCHANGED <<entry, haveReply, queue, reply, call>>
  PROVE  IInv'
<1>1. NtfnBadge(i) \in SUBSET BadgeBit /\ NtfnBadge(i) \in SUBSET ChannelId
  BY BadgesAreWords
<1>2. TypeOK'
  <2>1. CASE state[q] = "receive"
    <3>1. /\ state' = [state EXCEPT ![q] = "running"]
          /\ badge' = [badge EXCEPT ![q] = NtfnBadge(i)]
          /\ pending' = pending
      BY <2>1 DEF Signal
    <3>2. state' \in [PD -> {"running", "receive", "send", "reply", "inactive"}]
      BY <3>1 DEF IInv, TypeOK
    <3>3. badge' \in [PD -> SUBSET BadgeBit]
      BY <3>1, <1>1 DEF IInv, TypeOK
    <3> QED
      BY <3>1, <3>2, <3>3 DEF IInv, TypeOK
  <2>2. CASE state[q] # "receive"
    <3>1. pending[q] \cup NtfnBadge(i) \in SUBSET ChannelId
      BY <1>1 DEF IInv, TypeOK
    <3> QED
      BY ZenonT(40), <3>1, <2>2 DEF IInv, TypeOK, Signal
  <2> QED
    BY <2>1, <2>2
<1>3. \A p \in PD : (state'[p] = state[p] \/ (state[p] = "receive" /\ state'[p] = "running"))
  BY DEF IInv, TypeOK, Signal
<1>4. CallersAreHeld'
  BY <1>3 DEF IInv, CallersAreHeld
<1>5. ReceiverHoldsNobody'
  BY <1>3 DEF IInv, ReceiverHoldsNobody
<1>6. CallsFollowEdges'
  BY <1>3 DEF IInv, CallsFollowEdges, Blocked
<1> QED
  BY <1>2, <1>4, <1>5, <1>6 DEF IInv

\* seL4_Call keeps the invariant: the caller is put in the reply object of a PD that
\* waits, whose reply object is free, or else at its place in the queue.
LEMMA SendKeeps ==
  ASSUME IInv, NEW p \in PD, NEW q \in PD, NEW b \in SUBSET BadgeBit, Send(p, q, b),
         state[p] = "running", CallEdge(p, q), ops' \in [PD -> 0..MaxOps],
         UNCHANGED <<entry, haveReply, pending, masked>>
  PROVE  IInv'
<1> USE DEF IInv
<1>1. /\ call' = [call EXCEPT ![p] = [to |-> q, badge |-> b]]
      /\ call'[p].to = q
      /\ \A r \in PD : r # p => call'[r] = call[r]
  BY DEF Send, TypeOK
<1>2. \A r \in PD : reply[r] # p /\ \A n \in DOMAIN queue[r] : queue[r][n] # p
  BY DEF CallersAreHeld
<1>3. CASE state[q] = "receive"
  <2>1. /\ state' = [state EXCEPT ![p] = "reply", ![q] = "running"]
        /\ badge' = [badge EXCEPT ![q] = b]
        /\ reply' = [reply EXCEPT ![q] = p]
        /\ queue' = queue
        /\ p # q
        /\ reply[q] = NoPD
    BY <1>3 DEF Send, ReceiverHoldsNobody
  <2>2. TypeOK'
    BY <1>1, <2>1 DEF TypeOK
  <2>3. /\ state'[p] = "reply" /\ state'[q] = "running" /\ reply'[q] = p
        /\ \A r \in PD \ {p, q} : state'[r] = state[r]
        /\ \A r \in PD \ {q} : reply'[r] = reply[r]
    BY <2>1 DEF TypeOK
  <2>4. ASSUME NEW s \in PD, NEW r \in PD
        PROVE  reply'[s] = r <=> state'[r] = "reply" /\ call'[r].to = s
    <3>1. reply[s] = r <=> state[r] = "reply" /\ call[r].to = s
      BY DEF CallersAreHeld
    <3>2. NoPD # r
      BY SystemAssumption
    <3>3. CASE r = p
      BY <3>1, <3>2, <3>3, <2>1, <2>3, <1>1, <1>2
    <3>4. CASE r # p /\ s = q
      BY <3>1, <3>2, <3>4, <2>1, <2>3, <1>1, <1>3
    <3>5. CASE r # p /\ s # q
      BY <3>1, <3>5, <2>1, <2>3, <1>1, <1>3
    <3> QED
      BY <3>3, <3>4, <3>5
  <2>5. ASSUME NEW s \in PD, NEW r \in PD
        PROVE  (\E n \in DOMAIN queue'[s] : queue'[s][n] = r)
                 <=> state'[r] = "send" /\ call'[r].to = s
    <3>1. (\E n \in DOMAIN queue[s] : queue[s][n] = r)
            <=> state[r] = "send" /\ call[r].to = s
      BY DEF CallersAreHeld
    <3> QED
      BY <3>1, <2>1, <2>3, <1>1, <1>2, <1>3
  <2>6. CallersAreHeld'
    <3>1. \A s \in PD : \A m, n \in DOMAIN queue'[s] : queue'[s][m] = queue'[s][n] => m = n
      BY <2>1 DEF CallersAreHeld
    <3> QED
      BY <3>1, <2>4, <2>5 DEF CallersAreHeld
  <2>7. ReceiverHoldsNobody'
    BY <2>3 DEF ReceiverHoldsNobody
  <2>8. CallsFollowEdges'
    BY <2>3, <1>1 DEF CallsFollowEdges, Blocked
  <2> QED
    BY <2>2, <2>6, <2>7, <2>8
<1>4. CASE state[q] # "receive"
  <2>1. /\ state' = [state EXCEPT ![p] = "send"]
        /\ queue' = [queue EXCEPT ![q] = Enqueue(queue[q], p)]
        /\ badge' = badge /\ reply' = reply
    BY <1>4 DEF Send
  <2>2. queue[q] \in Seq(PD)
    BY DEF TypeOK
  <2>3. /\ queue'[q] = Enqueue(queue[q], p)
        /\ \A r \in PD \ {q} : queue'[r] = queue[r]
        /\ state'[p] = "send"
        /\ \A r \in PD \ {p} : state'[r] = state[r]
    BY <2>1 DEF TypeOK
  <2> DEFINE e == Enqueue(queue[q], p)
  <2>11. /\ \A r \in PD : (\E n \in DOMAIN e : e[n] = r)
                            <=> r = p \/ \E n \in DOMAIN queue[q] : queue[q][n] = r
         /\ \A m, n \in DOMAIN e : e[m] = e[n] => m = n
    <3>1. /\ \A n \in DOMAIN queue[q] : queue[q][n] # p
          /\ \A m, n \in DOMAIN queue[q] : queue[q][m] = queue[q][n] => m = n
      BY <1>2 DEF CallersAreHeld
    <3> QED
      BY <3>1, <2>2, EnqueueAdds
  <2>12. queue'[q] = e
    BY <2>3
  <2>4. TypeOK'
    <3>1. queue' \in [PD -> Seq(PD)]
      BY <2>1, <2>2, EnqueueAdds DEF TypeOK
    <3> QED
      BY <3>1, <1>1, <2>1 DEF TypeOK
  <2> HIDE DEF e
  <2>5. ASSUME NEW s \in PD, NEW r \in PD
        PROVE  reply'[s] = r <=> state'[r] = "reply" /\ call'[r].to = s
    <3>1. reply[s] = r <=> state[r] = "reply" /\ call[r].to = s
      BY DEF CallersAreHeld
    <3> QED
      BY <3>1, <2>1, <2>3, <1>1, <1>2
  <2>6. ASSUME NEW s \in PD, NEW r \in PD
        PROVE  (\E n \in DOMAIN queue'[s] : queue'[s][n] = r)
                 <=> state'[r] = "send" /\ call'[r].to = s
    <3>1. (\E n \in DOMAIN queue[s] : queue[s][n] = r)
            <=> state[r] = "send" /\ call[r].to = s
      BY DEF CallersAreHeld
    <3>2. CASE s = q
      <4>1. (\E n \in DOMAIN queue'[q] : queue'[q][n] = r)
              <=> r = p \/ \E n \in DOMAIN queue[q] : queue[q][n] = r
        BY <2>11, <2>12
      <4> QED
        BY <4>1, <3>1, <3>2, <2>3, <1>1
    <3>3. CASE s # q
      BY <3>1, <3>3, <2>3, <1>1, <1>2
    <3> QED
      BY <3>2, <3>3
  <2>7. ASSUME NEW s \in PD, NEW m \in DOMAIN queue'[s], NEW n \in DOMAIN queue'[s],
               queue'[s][m] = queue'[s][n]
        PROVE  m = n
    <3>1. CASE s = q
      BY <3>1, <2>7, <2>11, <2>12
    <3>2. CASE s # q
      BY <3>2, <2>3, <2>7 DEF CallersAreHeld
    <3> QED
      BY <3>1, <3>2
  <2>8. CallersAreHeld'
    BY <2>5, <2>6, <2>7 DEF CallersAreHeld
  <2>9. ReceiverHoldsNobody'
    BY <2>1, <2>3 DEF ReceiverHoldsNobody
  <2>10. CallsFollowEdges'
    BY <2>3, <1>1 DEF CallsFollowEdges, Blocked
  <2> QED
    BY <2>4, <2>8, <2>9, <2>10
<1> QED
  BY <1>3, <1>4

-----------------------------------------------------------------------------
(* The system call at the head of handler_loop *)

\* Taking the head of a queue free of duplicates takes that PD out of it, and no other.
LEMMA TailTakesHead ==
  ASSUME NEW s \in Seq(PD), s # <<>>, \A m, n \in DOMAIN s : s[m] = s[n] => m = n
  PROVE  /\ Head(s) \in PD /\ Tail(s) \in Seq(PD)
         /\ \E n \in DOMAIN s : s[n] = Head(s)
         /\ \A r \in PD : (\E n \in DOMAIN Tail(s) : Tail(s)[n] = r)
                            <=> r # Head(s) /\ \E n \in DOMAIN s : s[n] = r
         /\ \A m, n \in DOMAIN Tail(s) : Tail(s)[m] = Tail(s)[n] => m = n
<1>1. /\ Len(s) \in Nat /\ Len(s) > 0 /\ DOMAIN s = 1..Len(s) /\ Head(s) = s[1]
      /\ Tail(s) \in Seq(PD) /\ Len(Tail(s)) = Len(s) - 1
      /\ \A n \in 1..Len(s) - 1 : Tail(s)[n] = s[n + 1]
  OBVIOUS
<1>2. DOMAIN Tail(s) = 1..Len(s) - 1
  BY <1>1
<1>3. \A n \in DOMAIN Tail(s) : n + 1 \in DOMAIN s /\ n + 1 # 1 /\ Tail(s)[n] = s[n + 1]
  BY <1>1, <1>2
<1>4. 1 \in DOMAIN s /\ s[1] \in PD
  BY <1>1
<1>5. ASSUME NEW r \in PD
      PROVE  (\E n \in DOMAIN Tail(s) : Tail(s)[n] = r)
               <=> r # Head(s) /\ \E n \in DOMAIN s : s[n] = r
  <2>1. ASSUME NEW n \in DOMAIN Tail(s), Tail(s)[n] = r
        PROVE  r # Head(s) /\ \E m \in DOMAIN s : s[m] = r
    BY <2>1, <1>1, <1>3, <1>4
  <2>2. ASSUME r # Head(s), NEW n \in DOMAIN s, s[n] = r
        PROVE  \E m \in DOMAIN Tail(s) : Tail(s)[m] = r
    <3>1. n # 1
      BY <2>2, <1>1
    <3>2. n - 1 \in DOMAIN Tail(s) /\ Tail(s)[n - 1] = s[n]
      BY <3>1, <1>1, <1>2
    <3> QED
      BY <3>2, <2>2
  <2> QED
    BY <2>1, <2>2
<1>6. ASSUME NEW m \in DOMAIN Tail(s), NEW n \in DOMAIN Tail(s), Tail(s)[m] = Tail(s)[n]
      PROVE  m = n
  <2>1. m + 1 = n + 1
    BY <1>3, <1>6
  <2> QED
    BY <2>1, <1>2, <1>1
<1> QED
  BY <1>1, <1>4, <1>5, <1>6

\* A receive frees the PD's reply object and with it the one PD it held.
LEMMA ReceiveReleases ==
  ASSUME IInv, NEW p \in PD, state[p] = "running",
         call' = IF reply[p] = NoPD THEN call ELSE [call EXCEPT ![reply[p]] = NoCall]
  PROVE  /\ Released(p) \in [PD -> {"running", "receive", "send", "reply", "inactive"}]
         /\ Released(p)[p] = "running"
         /\ call' \in [PD -> [to : PD \cup {NoPD}, badge : SUBSET BadgeBit]]
         /\ \A r \in PD : r = reply[p] => /\ Released(p)[r] \in {"running", "inactive"}
                                         /\ state[r] = "reply" /\ call[r].to = p
         /\ \A r \in PD : r # reply[p] => Released(p)[r] = state[r] /\ call'[r] = call[r]
<1> USE DEF IInv
<1>1. CASE reply[p] = NoPD
  <2>1. \A r \in PD : r # reply[p]
    BY <1>1, SystemAssumption
  <2> QED
    BY <2>1, <1>1 DEF TypeOK, Released
<1>2. CASE reply[p] # NoPD
  <2>1. reply[p] \in PD
    BY <1>2 DEF TypeOK
  <2>2. state[reply[p]] = "reply" /\ call[reply[p]].to = p
    BY <2>1 DEF CallersAreHeld
  <2>3. NoCall \in [to : PD \cup {NoPD}, badge : SUBSET BadgeBit]
    BY DEF NoCall
  <2>4. call' = [call EXCEPT ![reply[p]] = NoCall]
    BY <1>2
  <2>5. Released(p) = [state EXCEPT ![reply[p]] = IF haveReply[p] THEN "running" ELSE "inactive"]
    BY <1>2 DEF Released
  <2>6. call' \in [PD -> [to : PD \cup {NoPD}, badge : SUBSET BadgeBit]]
    BY <2>1, <2>3, <2>4 DEF TypeOK
  <2>7. Released(p) \in [PD -> {"running", "receive", "send", "reply", "inactive"}]
    BY <2>1, <2>5 DEF TypeOK
  <2> QED
    BY <2>1, <2>2, <2>4, <2>5, <2>6, <2>7 DEF TypeOK
<1> QED
  BY <1>1, <1>2

\* Receiving keeps the invariant: the PD freed is in nobody's queue, and the sender
\* taken moves from the queue to the reply object just freed.
LEMMA ReceiveKeeps ==
  ASSUME IInv, NEW p \in PD, Receive(p)
  PROVE  IInv'
<1> USE DEF IInv
<1> DEFINE h == reply[p]
           R == Released(p)
<1>1. /\ state[p] = "running"
      /\ call' = IF reply[p] = NoPD THEN call ELSE [call EXCEPT ![reply[p]] = NoCall]
      /\ haveReply' = [haveReply EXCEPT ![p] = FALSE]
      /\ entry' = [entry EXCEPT ![p] = "dispatch"]
      /\ ops' = ops /\ masked' = masked
  BY DEF Receive
<1>2. /\ R \in [PD -> {"running", "receive", "send", "reply", "inactive"}]
      /\ R[p] = "running"
      /\ call' \in [PD -> [to : PD \cup {NoPD}, badge : SUBSET BadgeBit]]
      /\ \A r \in PD : r = h => /\ R[r] \in {"running", "inactive"}
                               /\ state[r] = "reply" /\ call[r].to = p
      /\ \A r \in PD : r # h => R[r] = state[r] /\ call'[r] = call[r]
  BY <1>1, ReceiveReleases
<1>3. \A s, r \in PD : reply[s] = r <=> state[r] = "reply" /\ call[r].to = s
  BY DEF CallersAreHeld
<1>4. \A s, r \in PD : (\E n \in DOMAIN queue[s] : queue[s][n] = r)
                         <=> state[r] = "send" /\ call[r].to = s
  BY DEF CallersAreHeld
<1>5. \A s \in PD : \A m, n \in DOMAIN queue[s] : queue[s][m] = queue[s][n] => m = n
  BY DEF CallersAreHeld
<1>6. /\ haveReply' \in [PD -> BOOLEAN]
      /\ entry' \in [PD -> {"init", "loop", "dispatch", "protected", "fault", "notified"}]
      /\ ops' \in [PD -> 0..MaxOps] /\ masked' \subseteq Irq
  BY <1>1 DEF TypeOK
<1>7. NoPD \notin PD
  BY SystemAssumption
<1> HIDE DEF h, R
<1>8. ASSUME state' = R \/ state' = [R EXCEPT ![p] = "receive"],
             reply' = [reply EXCEPT ![p] = NoPD], queue' = queue,
             badge' \in [PD -> SUBSET BadgeBit], pending' \in [PD -> SUBSET ChannelId]
      PROVE  IInv'
  <2>1. /\ state'[p] \in {"running", "receive"}
        /\ \A r \in PD : r # p => state'[r] = R[r]
        /\ reply'[p] = NoPD /\ \A s \in PD : s # p => reply'[s] = reply[s]
        /\ p # h
    BY <1>1, <1>2, <1>8 DEF TypeOK
  <2>2. TypeOK'
    BY <1>2, <1>6, <1>8 DEF TypeOK
  <2>3. ASSUME NEW s \in PD, NEW r \in PD
        PROVE  reply'[s] = r <=> state'[r] = "reply" /\ call'[r].to = s
    <3>1. CASE r = h
      BY <3>1, <2>1, <1>2, <1>3, <1>7
    <3>2. CASE r # h /\ s = p
      BY <3>2, <2>1, <1>1, <1>2, <1>3, <1>7 DEF h
    <3>3. CASE r # h /\ s # p
      BY <3>3, <2>1, <1>1, <1>2, <1>3
    <3> QED
      BY <3>1, <3>2, <3>3
  <2>4. ASSUME NEW s \in PD, NEW r \in PD
        PROVE  (\E n \in DOMAIN queue'[s] : queue'[s][n] = r)
                 <=> state'[r] = "send" /\ call'[r].to = s
    <3>1. CASE r = h
      BY <3>1, <2>1, <1>2, <1>4, <1>8
    <3>2. CASE r # h
      BY <3>2, <2>1, <1>1, <1>2, <1>4, <1>8
    <3> QED
      BY <3>1, <3>2
  <2>5. CallersAreHeld'
    BY <2>3, <2>4, <1>5, <1>8 DEF CallersAreHeld
  <2>6. ReceiverHoldsNobody'
    BY <2>1, <1>2 DEF ReceiverHoldsNobody
  <2>7. CallsFollowEdges'
    BY <2>1, <1>2 DEF CallsFollowEdges, Blocked
  <2> QED
    BY <2>2, <2>5, <2>6, <2>7
<1>9. CASE TakeNotification(p)
  <2>1. pending[p] \in SUBSET BadgeBit
    <3>1. pending[p] \in SUBSET ChannelId
      BY DEF TypeOK
    <3>2. ChannelId \subseteq BadgeBit
      BY DEF ChannelId, BadgeBit
    <3> QED
      BY <3>1, <3>2
  <2>2. /\ badge' \in [PD -> SUBSET BadgeBit] /\ pending' \in [PD -> SUBSET ChannelId]
    BY <1>9, <2>1 DEF TakeNotification, TypeOK
  <2> QED
    BY <1>8, <1>9, <2>2 DEF TakeNotification, R
<1>10. CASE Block(p)
  BY <1>8, <1>10 DEF Block, R, TypeOK
<1>11. CASE TakeSender(p)
  <2> DEFINE q == queue[p]
             t == Head(q)
  <2>1. /\ t \in PD /\ Tail(q) \in Seq(PD)
        /\ \E n \in DOMAIN q : q[n] = t
        /\ \A r \in PD : (\E n \in DOMAIN Tail(q) : Tail(q)[n] = r)
                           <=> r # t /\ \E n \in DOMAIN q : q[n] = r
        /\ \A m, n \in DOMAIN Tail(q) : Tail(q)[m] = Tail(q)[n] => m = n
    <3>1. q \in Seq(PD) /\ q # <<>>
      BY <1>11 DEF TakeSender, TypeOK
    <3>2. \A m, n \in DOMAIN q : q[m] = q[n] => m = n
      BY <1>5
    <3> HIDE DEF q
    <3> QED
      BY <3>1, <3>2, TailTakesHead
  <2>2. state[t] = "send" /\ call[t].to = p
    BY <2>1, <1>4
  <2>3. /\ state' = [R EXCEPT ![t] = "reply"]
        /\ badge' = [badge EXCEPT ![p] = call[t].badge]
        /\ reply' = [reply EXCEPT ![p] = t]
        /\ queue' = [queue EXCEPT ![p] = Tail(q)]
        /\ pending' = pending
    BY <1>11 DEF TakeSender, R
  <2>4. t # p /\ t # h /\ p # h
    BY <2>1, <2>2, <1>1, <1>2
  <2>5. /\ state'[t] = "reply" /\ \A r \in PD : r # t => state'[r] = R[r]
        /\ reply'[p] = t /\ \A s \in PD : s # p => reply'[s] = reply[s]
        /\ queue'[p] = Tail(q) /\ \A s \in PD : s # p => queue'[s] = queue[s]
        /\ call'[t] = call[t]
    BY <2>1, <2>3, <2>4, <1>2 DEF TypeOK
  <2>6. TypeOK'
    <3>1. call[t].badge \in SUBSET BadgeBit
      BY <2>1 DEF TypeOK
    <3>2. badge' \in [PD -> SUBSET BadgeBit]
      BY <3>1, <2>3 DEF TypeOK
    <3>3. queue' \in [PD -> Seq(PD)]
      BY <2>1, <2>3 DEF TypeOK
    <3>4. reply' \in [PD -> PD \cup {NoPD}]
      BY <2>1, <2>3 DEF TypeOK
    <3>5. state' \in [PD -> {"running", "receive", "send", "reply", "inactive"}]
      BY <2>1, <2>3, <1>2
    <3> QED
      BY <3>2, <3>3, <3>4, <3>5, <2>3, <1>2, <1>6 DEF TypeOK
  <2> HIDE DEF t
  <2>7. ASSUME NEW s \in PD, NEW r \in PD
        PROVE  reply'[s] = r <=> state'[r] = "reply" /\ call'[r].to = s
    <3>1. CASE r = h
      BY <3>1, <2>1, <2>4, <2>5, <1>2, <1>3
    <3>2. CASE r = t
      BY <3>2, <2>2, <2>4, <2>5, <1>3
    <3>3. CASE r # h /\ r # t /\ s = p
      BY <3>3, <2>5, <1>2, <1>3 DEF h
    <3>4. CASE r # h /\ r # t /\ s # p
      BY <3>4, <2>5, <1>2, <1>3
    <3> QED
      BY <3>1, <3>2, <3>3, <3>4
  <2>8. ASSUME NEW s \in PD, NEW r \in PD
        PROVE  (\E n \in DOMAIN queue'[s] : queue'[s][n] = r)
                 <=> state'[r] = "send" /\ call'[r].to = s
    <3>1. (\E n \in DOMAIN queue'[s] : queue'[s][n] = r)
            <=> (s = p => r # t) /\ \E n \in DOMAIN queue[s] : queue[s][n] = r
      <4>1. CASE s = p
        BY <4>1, <2>1, <2>5
      <4>2. CASE s # p
        BY <4>2, <2>5
      <4> QED
        BY <4>1, <4>2
    <3>2. (\E n \in DOMAIN queue[s] : queue[s][n] = r) <=> state[r] = "send" /\ call[r].to = s
      BY <1>4
    <3> HIDE DEF q
    <3>3. CASE r = h
      BY <3>1, <3>2, <3>3, <2>4, <2>5, <1>2
    <3>4. CASE r = t
      BY <3>1, <3>2, <3>4, <2>2, <2>5
    <3>5. CASE r # h /\ r # t
      BY <3>1, <3>2, <3>5, <2>5, <1>2
    <3> QED
      BY <3>3, <3>4, <3>5
  <2>9. ASSUME NEW s \in PD, NEW m \in DOMAIN queue'[s], NEW n \in DOMAIN queue'[s],
               queue'[s][m] = queue'[s][n]
        PROVE  m = n
    <3>1. CASE s = p
      BY <3>1, <2>9, <2>1, <2>5
    <3>2. CASE s # p
      BY <3>2, <2>9, <2>5, <1>5
    <3> QED
      BY <3>1, <3>2
  <2>10. CallersAreHeld'
    BY <2>7, <2>8, <2>9 DEF CallersAreHeld
  <2>11. ReceiverHoldsNobody'
    <3>1. ASSUME NEW r \in PD, state'[r] = "receive"
          PROVE  reply'[r] = NoPD
      <4>1. r # t /\ r # h
        BY <3>1, <2>4, <2>5, <1>2
      <4>2. state[r] = "receive" /\ r # p
        BY <3>1, <4>1, <2>5, <1>1, <1>2
      <4> QED
        BY <4>2, <2>5 DEF ReceiverHoldsNobody
    <3> QED
      BY <3>1 DEF ReceiverHoldsNobody
  <2>12. CallsFollowEdges'
    BY <2>1, <2>2, <2>4, <2>5, <1>2 DEF CallsFollowEdges, Blocked
  <2> QED
    BY <2>6, <2>10, <2>11, <2>12
<1> QED
  BY <1>9, <1>10, <1>11 DEF Receive

-----------------------------------------------------------------------------
(* The steps inside main and handler_loop, and user code *)

\* A step that leaves senders, reply objects and calls alone keeps the invariant when it
\* is typed and moves no PD into or out of a blocking call.
LEMMA LocalStepKeeps ==
  ASSUME IInv, TypeOK', UNCHANGED <<queue, reply, call>>,
         \A p \in PD : \/ state'[p] = state[p]
                       \/ state[p] = "running" /\ state'[p] = "inactive"
  PROVE  IInv'
<1>1. CallersAreHeld'
  BY DEF IInv, CallersAreHeld
<1>2. ReceiverHoldsNobody'
  BY DEF IInv, ReceiverHoldsNobody
<1>3. CallsFollowEdges'
  BY DEF IInv, CallsFollowEdges, Blocked
<1> QED
  BY <1>1, <1>2, <1>3 DEF IInv

LEMMA DispatchKeeps ==
  ASSUME IInv, NEW p \in PD, Dispatch(p)
  PROVE  IInv'
<1>1. EntryPoint(badge[p]) \in {"protected", "fault", "notified"}
  BY DEF EntryPoint
<1>2. \/ state' = state
      \/ state[p] = "running" /\ state' = [state EXCEPT ![p] = "inactive"]
  BY DEF Dispatch
<1>3. state' \in [PD -> {"running", "receive", "send", "reply", "inactive"}]
  BY <1>2 DEF IInv, TypeOK
<1>4. ops' \in [PD -> 0..MaxOps]
  BY SystemAssumption DEF Dispatch, IInv, TypeOK
<1>5. TypeOK'
  BY <1>1, <1>3, <1>4 DEF Dispatch, IInv, TypeOK
<1>6. UNCHANGED <<queue, reply, call>>
  BY DEF Dispatch
<1>7. ASSUME NEW r \in PD
      PROVE  state'[r] = state[r] \/ (state[r] = "running" /\ state'[r] = "inactive")
  <2>1. state \in [PD -> {"running", "receive", "send", "reply", "inactive"}]
    BY DEF IInv, TypeOK
  <2> QED
    BY <1>2, <2>1
<1> QED
  BY <1>5, <1>6, <1>7, LocalStepKeeps

LEMMA ReturnKeeps ==
  ASSUME IInv, NEW p \in PD,
         InitReturns(p) \/ NotifiedReturns(p) \/ \E answer \in BOOLEAN : HandlerReturns(p, answer)
  PROVE  IInv'
<1>1. CASE InitReturns(p)
  <2>1. TypeOK'
    BY <1>1 DEF InitReturns, IInv, TypeOK
  <2>2. UNCHANGED <<state, queue, reply, call>>
    BY <1>1 DEF InitReturns
  <2> QED
    BY <2>1, <2>2, LocalStepKeeps
<1>2. CASE NotifiedReturns(p)
  <2>1. badge[p] \ {NotifiedChannel(badge[p])} \in SUBSET BadgeBit
    BY DEF IInv, TypeOK
  <2>2. badge' \in [PD -> SUBSET BadgeBit]
    BY <1>2, <2>1 DEF NotifiedReturns, IInv, TypeOK
  <2>3. ops' \in [PD -> 0..MaxOps]
    BY <1>2, SystemAssumption DEF NotifiedReturns, IInv, TypeOK
  <2>4. TypeOK'
    BY <1>2, <2>2, <2>3 DEF NotifiedReturns, IInv, TypeOK
  <2>5. UNCHANGED <<state, queue, reply, call>>
    BY <1>2 DEF NotifiedReturns
  <2> QED
    BY <2>4, <2>5, LocalStepKeeps
<1>3. ASSUME NEW answer \in BOOLEAN, HandlerReturns(p, answer)
      PROVE  IInv'
  <2>1. TypeOK'
    BY <1>3 DEF HandlerReturns, IInv, TypeOK
  <2>5. UNCHANGED <<state, queue, reply, call>>
    BY <1>3 DEF HandlerReturns
  <2> QED
    BY <2>1, <2>5, LocalStepKeeps
<1> QED
  BY <1>1, <1>2, <1>3

LEMMA UserKeeps ==
  ASSUME IInv, NEW p \in PD, User(p)
  PROVE  IInv'
<1>1. UserOp(p) => ops' \in [PD -> 0..MaxOps] /\ state[p] = "running"
  BY SystemAssumption DEF UserOp, InUserCode, IInv, TypeOK
<1>2. ASSUME NEW i \in UsedId, Notify(p, i)
      PROVE  IInv'
  <2>1. PICK q \in PD, j \in UsedId : Signal(q, NtfnBadge(j))
    BY <1>2 DEF Notify
  <2>2. j \in ChannelId
    BY UsedIdIsChannelId
  <2>3. ops' \in [PD -> 0..MaxOps] /\ masked' \subseteq Irq
    BY <1>1, <1>2 DEF Notify, IInv, TypeOK
  <2>4. UNCHANGED <<entry, haveReply, queue, reply, call>>
    BY <1>2 DEF Notify
  <2> QED
    BY <2>1, <2>2, <2>3, <2>4, SignalKeeps
<1>3. ASSUME NEW i \in UsedId, PPCall(p, i)
      PROVE  IInv'
  <2>1. PICK q \in Provides, j \in UsedId : Linked(p, i, q, j) /\ Send(p, q, PpcBadge(j))
    BY <1>3 DEF PPCall
  <2>2. q \in PD /\ j \in ChannelId
    BY UsedIdIsChannelId, SystemAssumption
  <2>3. CallEdge(p, q)
    BY <1>3, <2>1 DEF PPCall, CallEdge
  <2>4. /\ state[p] = "running" /\ ops' \in [PD -> 0..MaxOps]
        /\ UNCHANGED <<entry, haveReply, pending, masked>>
    BY <1>1, <1>3 DEF PPCall
  <2>5. PpcBadge(j) \in SUBSET BadgeBit
    BY <2>2, BadgesAreWords
  <2> QED
    BY <2>1, <2>2, <2>3, <2>4, <2>5, SendKeeps
<1>4. ASSUME RootPPCall(p)
      PROVE  IInv'
  <2>1. /\ Send(p, Parent[p], RootPpcBadge(PdId[p])) /\ p \in RootCalls
        /\ state[p] = "running" /\ ops' \in [PD -> 0..MaxOps]
        /\ UNCHANGED <<entry, haveReply, pending, masked>>
    BY <1>1, <1>4 DEF RootPPCall
  <2>2. Parent[p] \in PD /\ PdId[p] \in ChannelId
    BY <1>4, SystemAssumption DEF RootPPCall, ChannelId
  <2>3. CallEdge(p, Parent[p])
    BY <2>1 DEF CallEdge
  <2>4. RootPpcBadge(PdId[p]) \in SUBSET BadgeBit
    BY <2>2, BadgesAreWords
  <2> QED
    BY <2>1, <2>2, <2>3, <2>4, SendKeeps
<1>5. ASSUME Fault(p)
      PROVE  IInv'
  <2>1. /\ Send(p, FaultEp(p), FaultBadge(p)) /\ p \in Faulty
        /\ state[p] = "running" /\ ops' \in [PD -> 0..MaxOps]
        /\ UNCHANGED <<entry, haveReply, pending, masked>>
    BY <1>1, <1>5 DEF Fault
  <2>2. FaultEp(p) \in PD
    BY SystemAssumption DEF FaultEp
  <2>3. CallEdge(p, FaultEp(p))
    BY <2>1 DEF CallEdge
  <2>4. FaultBadge(p) \in SUBSET BadgeBit
    BY BadgesAreWords
  <2> QED
    BY <2>1, <2>2, <2>3, <2>4, SendKeeps
<1>6. ASSUME NEW i \in UsedId, IrqAck(p, i)
      PROVE  IInv'
  <2>1. TypeOK'
    BY <1>1, <1>6 DEF IrqAck, IInv, TypeOK
  <2>5. UNCHANGED <<state, queue, reply, call>>
    BY <1>6 DEF IrqAck
  <2> QED
    BY <2>1, <2>5, LocalStepKeeps
<1> QED
  BY <1>2, <1>3, <1>4, <1>5, <1>6 DEF User

LEMMA IrqFireKeeps ==
  ASSUME IInv, NEW p \in PD, NEW i \in UsedId, IrqFire(p, i)
  PROVE  IInv'
<1>1. i \in ChannelId
  BY UsedIdIsChannelId
<1>2. ops' \in [PD -> 0..MaxOps] /\ masked' \subseteq Irq
  BY DEF IrqFire, IInv, TypeOK
<1>3. Signal(p, NtfnBadge(i)) /\ UNCHANGED <<entry, haveReply, queue, reply, call>>
  BY DEF IrqFire
<1> QED
  BY <1>1, <1>2, <1>3, SignalKeeps

LEMMA NextKeepsIInv == IInv /\ [Next]_vars => IInv'
<1> SUFFICES ASSUME IInv, [Next]_vars
             PROVE  IInv'
  OBVIOUS
<1>1. ASSUME NEW p \in PD, Library(p)
      PROVE  IInv'
  BY <1>1, ReceiveKeeps, DispatchKeeps, ReturnKeeps DEF Library
<1>2. ASSUME NEW p \in PD, User(p)
      PROVE  IInv'
  BY <1>2, UserKeeps
<1>3. ASSUME NEW p \in PD, NEW i \in UsedId, IrqFire(p, i)
      PROVE  IInv'
  BY <1>3, IrqFireKeeps
<1>4. CASE UNCHANGED vars
  BY <1>4 DEF vars, IInv, TypeOK, CallersAreHeld, ReceiverHoldsNobody, CallsFollowEdges,
    Blocked
<1> QED
  BY <1>1, <1>2, <1>3, <1>4 DEF Next

LEMMA Invariance == Spec => []IInv
<1>1. Init => IInv
  BY InitIInv
<1>2. IInv /\ [Next]_vars => IInv'
  BY NextKeepsIInv
<1> QED
  BY <1>1, <1>2, PTL DEF Spec

-----------------------------------------------------------------------------
(* Theorems *)

\* The run-time's state has its type: what seL4 hands to handler_loop is a 64-bit word,
\* a notification word never holds anything but the identifiers the tool accepts, and
\* every kernel queue and reply object holds PDs of the description.
THEOREM TypeCorrect == Spec => []TypeOK
<1>1. IInv => TypeOK
  BY DEF IInv
<1> QED
  BY <1>1, Invariance, PTL

\* Nobody gets lost in the kernel: whatever the description, the user code and the
\* interleaving, a blocked caller is in the reply object or, once, in the queue of the
\* very PD whose handler_loop is to answer it.
THEOREM CallersHeld == Spec => []CallersAreHeld
<1>1. IInv => CallersAreHeld
  BY DEF IInv
<1> QED
  BY <1>1, Invariance, PTL

\* A nonempty set of PDs has one of the highest priority.
LEMMA HighestPriority ==
  ASSUME NEW S \in SUBSET PD, S # {}
  PROVE  \E p \in S : \A q \in S : ~(Priority[p] < Priority[q])
<1> DEFINE T == {254 - Priority[p] : p \in S}
<1>1. \A p \in PD : Priority[p] \in 0..254
  BY SystemAssumption
<1>2. T \subseteq Nat /\ T # {}
  BY <1>1
<1>3. PICK x \in T : \A y \in T : ~(<<y, x>> \in OpToRel(<, Nat))
  BY <1>2, WFMin, NatLessThanWellFounded
<1>4. \A y \in T : ~(y < x)
  BY <1>2, <1>3 DEF OpToRel
<1>5. PICK p \in S : x = 254 - Priority[p]
  BY <1>3
<1>6. ASSUME NEW q \in S
      PROVE  ~(Priority[p] < Priority[q])
  <2>1. 254 - Priority[q] \in T
    OBVIOUS
  <2>2. ~(254 - Priority[q] < 254 - Priority[p])
    BY <2>1, <1>4, <1>5
  <2>3. Priority[p] \in 0..254 /\ Priority[q] \in 0..254
    BY <1>1
  <2>4. \A a, b \in 0..254 : ~(254 - b < 254 - a) => ~(a < b)
    OBVIOUS
  <2> QED
    BY <2>2, <2>3, <2>4
<1> QED
  BY <1>6

\* The manual's rule is enough: when every call, and every fault, goes to a PD of
\* strictly higher priority, no set of PDs ever waits for itself.
THEOREM CallsCannotDeadlock == ASSUME PriorityRule PROVE Spec => []NoWaitCycle
<1>1. IInv => NoWaitCycle
  <2> SUFFICES ASSUME IInv, NEW S \in SUBSET {p \in PD : Blocked(p)}, S # {}
               PROVE  \E p \in S : call[p].to \notin S
    BY DEF NoWaitCycle
  <2>1. PICK p \in S : \A q \in S : ~(Priority[p] < Priority[q])
    BY HighestPriority
  <2>2. CallEdge(p, call[p].to)
    BY DEF IInv, CallsFollowEdges
  <2>3. call[p].to \in PD => Priority[p] < Priority[call[p].to]
    BY <2>2 DEF PriorityRule
  <2> QED
    BY <2>1, <2>3
<1> QED
  BY <1>1, Invariance, PTL

-----------------------------------------------------------------------------
(* What a badge says *)

\* The number a set of bits stands for, written out.
Word(b) ==
  (IF 0 \in b THEN 1 ELSE 0) + (IF 1 \in b THEN 2 ELSE 0) + (IF 2 \in b THEN 4 ELSE 0)
  + (IF 3 \in b THEN 8 ELSE 0) + (IF 4 \in b THEN 16 ELSE 0) + (IF 5 \in b THEN 32 ELSE 0)
  + (IF 6 \in b THEN 64 ELSE 0) + (IF 7 \in b THEN 128 ELSE 0)

LEMMA Powers ==
  /\ 2^0 = 1 /\ 2^1 = 2 /\ 2^2 = 4 /\ 2^3 = 8
  /\ 2^4 = 16 /\ 2^5 = 32 /\ 2^6 = 64 /\ 2^7 = 128
OBVIOUS

\* Taking a bit out takes its weight off.
LEMMA WordDrops ==
  ASSUME NEW b \in SUBSET (0..7), NEW k \in b
  PROVE  2^k \in Nat \ {0} /\ Word(b) = 2^k + Word(b \ {k})
<1>1. k \in 0..7
  OBVIOUS
<1>2. CASE k = 0
  BY <1>2, Powers DEF Word
<1>3. CASE k = 1
  BY <1>3, Powers DEF Word
<1>4. CASE k = 2
  BY <1>4, Powers DEF Word
<1>5. CASE k = 3
  BY <1>5, Powers DEF Word
<1>6. CASE k = 4
  BY <1>6, Powers DEF Word
<1>7. CASE k = 5
  BY <1>7, Powers DEF Word
<1>8. CASE k = 6
  BY <1>8, Powers DEF Word
<1>9. CASE k = 7
  BY <1>9, Powers DEF Word
<1> QED
  BY <1>1, <1>2, <1>3, <1>4, <1>5, <1>6, <1>7, <1>8, <1>9

\* Number adds up the weights of the bits.
LEMMA NumberIsWord ==
  ASSUME NEW b \in SUBSET (0..7)
  PROVE  Number(b) = Word(b)
<1> DEFINE F(g) == [s \in SUBSET b |-> IF s = {} THEN 0
                                       ELSE LET x == CHOOSE x \in s : TRUE
                                            IN  2^x + g[s \ {x}]]
           W == [s \in SUBSET b |-> Word(s)]
           it == CHOOSE g : g = F(g)
<1>1. Number(b) = it[b]
  BY Zenon DEF Number, MapThenSumSet, MapThenFoldSet
<1>2. W = F(W)
  <2>1. ASSUME NEW s \in SUBSET b
        PROVE  W[s] = F(W)[s]
    <3>1. CASE s = {}
      BY <3>1 DEF Word
    <3>2. CASE s # {}
      <4> DEFINE x == CHOOSE x \in s : TRUE
      <4>1. x \in s
        BY <3>2
      <4> HIDE DEF x
      <4>2. Word(s) = 2^x + Word(s \ {x})
        <5>1. s \in SUBSET (0..7)
          OBVIOUS
        <5> QED
          BY <4>1, <5>1, WordDrops
      <4>3. s \ {x} \in SUBSET b
        OBVIOUS
      <4> QED
        BY <4>2, <4>3, <3>2 DEF x
    <3> QED
      BY <3>1, <3>2
  <2> QED
    BY <2>1
<1>3. it = F(it)
  BY <1>2
<1> HIDE DEF it
<1>4. \A s \in SUBSET b : s # {} => \E x \in s : it[s] = 2^x + it[s \ {x}]
  BY <1>3
<1>5. it[{}] = 0
  BY <1>3
<1>6. \A s \in SUBSET b : it[s] = Word(s)
  <2> DEFINE T == {Word(s) : s \in {t \in SUBSET b : it[t] # Word(t)}}
  <2>1. SUFFICES ASSUME T # {}
                 PROVE  FALSE
    OBVIOUS
  <2>2. \A s \in SUBSET b : Word(s) \in Nat
    BY DEF Word
  <2>3. T \subseteq Nat
    BY <2>2
  <2>4. PICK w \in T : \A v \in T : ~(<<v, w>> \in OpToRel(<, Nat))
    BY <2>1, <2>3, WFMin, NatLessThanWellFounded
  <2>5. \A v \in T : ~(v < w)
    BY <2>3, <2>4 DEF OpToRel
  <2>6. PICK s \in SUBSET b : it[s] # Word(s) /\ w = Word(s)
    OBVIOUS
  <2>7. s # {}
    BY <1>5, <2>6 DEF Word
  <2>8. PICK x \in s : it[s] = 2^x + it[s \ {x}]
    BY <1>4, <2>7
  <2>9. s \in SUBSET (0..7) /\ s \ {x} \in SUBSET b
    OBVIOUS
  <2>10. 2^x \in Nat \ {0} /\ Word(s) = 2^x + Word(s \ {x})
    BY <2>9, WordDrops
  <2>12. Word(s \ {x}) < w
    <3>1. Word(s) \in Nat /\ Word(s \ {x}) \in Nat
      BY <2>2, <2>9
    <3> QED
      BY <3>1, <2>6, <2>10
  <2>13. Word(s \ {x}) \notin T
    BY <2>5, <2>12
  <2>14. it[s \ {x}] = Word(s \ {x})
    BY <2>9, <2>13
  <2> QED
    BY <2>6, <2>8, <2>10, <2>14
<1> QED
  BY <1>1, <1>6

\* Reading back the bits of a number gives the number.
LEMMA NumberOfBits ==
  ASSUME NEW n \in 0..255
  PROVE  Number(Bits(n)) = n
<1>1. /\ 0 \in Bits(n) <=> (n \div 1) % 2 = 1
      /\ 1 \in Bits(n) <=> (n \div 2) % 2 = 1
      /\ 2 \in Bits(n) <=> (n \div 4) % 2 = 1
      /\ 3 \in Bits(n) <=> (n \div 8) % 2 = 1
      /\ 4 \in Bits(n) <=> (n \div 16) % 2 = 1
      /\ 5 \in Bits(n) <=> (n \div 32) % 2 = 1
      /\ 6 \in Bits(n) <=> (n \div 64) % 2 = 1
      /\ 7 \in Bits(n) <=> (n \div 128) % 2 = 1
  BY Powers DEF Bits
<1> DEFINE b(k) == (n \div k) % 2
<1>2. /\ b(1) \in {0, 1} /\ b(2) \in {0, 1} /\ b(4) \in {0, 1} /\ b(8) \in {0, 1}
      /\ b(16) \in {0, 1} /\ b(32) \in {0, 1} /\ b(64) \in {0, 1} /\ b(128) \in {0, 1}
  OBVIOUS
<1>3. n = b(1) + 2 * b(2) + 4 * b(4) + 8 * b(8) + 16 * b(16) + 32 * b(32) + 64 * b(64)
          + 128 * b(128)
  OBVIOUS
<1>4. Word(Bits(n)) = n
  BY <1>1, <1>2, <1>3 DEF Word
<1>5. Bits(n) \in SUBSET (0..7)
  BY DEF Bits
<1> QED
  BY <1>4, <1>5, NumberIsWord

\* An identifier has six bits.
LEMMA SixBits ==
  ASSUME NEW n \in ChannelId
  PROVE  Bits(n) \subseteq 0..5
<1>1. 6 \notin Bits(n) /\ 7 \notin Bits(n)
  <2>1. (n \div 64) % 2 = 0 /\ (n \div 128) % 2 = 0
    BY DEF ChannelId
  <2> QED
    BY <2>1, Powers DEF Bits
<1>2. \A k \in Bits(n) : k \in 0..7 /\ k # 6 /\ k # 7
  BY <1>1 DEF Bits
<1>3. \A k \in 0..7 : k # 6 /\ k # 7 => k \in 0..5
  OBVIOUS
<1> QED
  BY <1>2, <1>3

\* The smallest bit of a badge is one of its bits.
LEMMA MinIsIn ==
  ASSUME NEW S, S # {}, S \subseteq Nat
  PROVE  Min(S) \in S
<1>1. PICK x \in S : \A y \in S : ~(<<y, x>> \in OpToRel(<, Nat))
  BY WFMin, NatLessThanWellFounded
<1>2. \A y \in S : ~(y < x)
  BY <1>1 DEF OpToRel
<1>3. \A y \in S : x <= y
  BY <1>2
<1> QED
  BY <1>3 DEF Min

\* The identifiers a notification can have, unless one of them marks a fault.
SignalId == UsedId \cap (0..61)

LEMMA SignalBadges ==
  ASSUME NEW b \in SUBSET SignalId
  PROVE  /\ EntryPoint(b) = "notified"
         /\ b # {} => NotifiedChannel(b) \in b
<1>1. 62 \notin b /\ 63 \notin b /\ b \subseteq Nat
  BY DEF SignalId
<1>2. EntryPoint(b) = "notified"
  BY <1>1 DEF EntryPoint, GetBadgeType, BADGE_TYPE_FAULT, BADGE_TYPE_PPC, BADGE_TYPE_ROOT_PPC
<1> QED
  BY <1>1, <1>2, MinIsIn DEF NotifiedChannel

\* What handler_loop and protected, or fault, make of a badge: the kind of the call, the
\* PD called, the identifier it is given, and the PD in its reply object.
NameFor(b, q, p) ==
  IF GetBadgeType(b) = BADGE_TYPE_FAULT
  THEN <<"fault", q, ThreadIdentifier(b), p>>
  ELSE IF GetBadgeType(b) = BADGE_TYPE_PPC
       THEN <<"protected", q, PpcIdentifier(b), p>>
       ELSE <<"root", q, ThreadIdentifier(b), p>>

LEMMA PpcBadgeSays ==
  ASSUME NEW j \in ChannelId
  PROVE  /\ EntryPoint(PpcBadge(j)) = "protected"
         /\ \A q, p : NameFor(PpcBadge(j), q, p) = <<"protected", q, j, p>>
<1>1. Bits(j) \subseteq 0..5 /\ Number(Bits(j)) = j
  BY SixBits, NumberOfBits DEF ChannelId
<1>2. PpcBadge(j) \cap (0..5) = Bits(j)
  BY <1>1 DEF PpcBadge
<1>3. 63 \in PpcBadge(j) /\ 62 \notin PpcBadge(j)
  BY <1>1 DEF PpcBadge
<1>4. GetBadgeType(PpcBadge(j)) = 2
  BY <1>3 DEF GetBadgeType
<1> QED
  BY <1>1, <1>2, <1>4 DEF EntryPoint, NameFor, PpcIdentifier, BADGE_TYPE_FAULT,
    BADGE_TYPE_PPC, BADGE_TYPE_ROOT_PPC

LEMMA RootPpcBadgeSays ==
  ASSUME NEW n \in ChannelId
  PROVE  /\ EntryPoint(RootPpcBadge(n)) = "protected"
         /\ \A q, p : NameFor(RootPpcBadge(n), q, p) = <<"root", q, n, p>>
<1>1. Bits(n) \subseteq 0..5 /\ Number(Bits(n)) = n
  BY SixBits, NumberOfBits DEF ChannelId
<1>2. RootPpcBadge(n) \cap (0..7) = Bits(n)
  BY <1>1 DEF RootPpcBadge
<1>3. 63 \in RootPpcBadge(n) /\ 62 \in RootPpcBadge(n)
  BY DEF RootPpcBadge
<1>4. GetBadgeType(RootPpcBadge(n)) = 3
  BY <1>3 DEF GetBadgeType
<1> QED
  BY <1>1, <1>2, <1>4 DEF EntryPoint, NameFor, ThreadIdentifier, BADGE_TYPE_FAULT,
    BADGE_TYPE_PPC, BADGE_TYPE_ROOT_PPC

LEMMA FaultBadgeSays ==
  ASSUME NEW p \in PD, Parent[p] # NoPD
  PROVE  /\ EntryPoint(FaultBadge(p)) = "fault"
         /\ BADGE_FAULT_ROOT_BIT \notin FaultBadge(p)
         /\ \A q, r : NameFor(FaultBadge(p), q, r) = <<"fault", q, PdId[p], r>>
<1>1. PdId[p] \in ChannelId
  BY SystemAssumption DEF ChannelId
<1>2. Bits(PdId[p]) \subseteq 0..5 /\ Number(Bits(PdId[p])) = PdId[p]
  BY <1>1, SixBits, NumberOfBits DEF ChannelId
<1>3. FaultBadge(p) = {62} \cup Bits(PdId[p])
  BY DEF FaultBadge
<1>4. FaultBadge(p) \cap (0..7) = Bits(PdId[p])
  BY <1>2, <1>3
<1>5. 62 \in FaultBadge(p) /\ 63 \notin FaultBadge(p) /\ 61 \notin FaultBadge(p)
  BY <1>2, <1>3
<1>6. GetBadgeType(FaultBadge(p)) = 1
  BY <1>5 DEF GetBadgeType
<1>7. EntryPoint(FaultBadge(p)) = "fault"
  BY <1>6 DEF EntryPoint, BADGE_TYPE_FAULT, BADGE_TYPE_PPC, BADGE_TYPE_ROOT_PPC
<1>8. \A q, r : NameFor(FaultBadge(p), q, r) = <<"fault", q, PdId[p], r>>
  BY <1>2, <1>4, <1>6 DEF NameFor, ThreadIdentifier, BADGE_TYPE_FAULT
<1> QED
  BY <1>5, <1>7, <1>8 DEF BADGE_FAULT_ROOT_BIT

-----------------------------------------------------------------------------
(* Badges name callers *)

\* The badge b of a call of p to q is the one the tool minted for that caller.  A root
\* PD's own fault has another badge; nobody ever receives it.
BadgeNames(p, q, b) ==
  \/ p = q
  \/ \E i, j \in UsedId : Linked(p, i, q, j) /\ b = PpcBadge(j)
  \/ Parent[p] = q /\ b \in {RootPpcBadge(PdId[p]), FaultBadge(p)}

\* Such a badge is dispatched to protected or fault, which are told the callee's own name
\* for the caller.
LEMMA BadgeSays ==
  ASSUME NEW p \in PD, NEW q \in PD, p # q, NEW b, BadgeNames(p, q, b)
  PROVE  /\ EntryPoint(b) \in {"protected", "fault"}
         /\ ~(EntryPoint(b) = "fault" /\ BADGE_FAULT_ROOT_BIT \in b)
         /\ NameFor(b, q, p) \in Names
         /\ NameFor(b, q, p)[2] = q /\ NameFor(b, q, p)[4] = p
<1>1. ASSUME NEW i \in UsedId, NEW j \in UsedId, Linked(p, i, q, j), b = PpcBadge(j)
      PROVE  /\ EntryPoint(b) = "protected"
             /\ NameFor(b, q, p) = <<"protected", q, j, p>>
             /\ <<"protected", q, j, p>> \in Names
  <2>1. j \in ChannelId
    BY UsedIdIsChannelId
  <2>2. <<"protected", q, j, p>> \in Names
    BY <1>1 DEF Names
  <2> QED
    BY <2>1, <2>2, <1>1, PpcBadgeSays
<1>2. ASSUME Parent[p] = q
      PROVE  /\ PdId[p] \in UsedId /\ PdId[p] \in ChannelId
             /\ Parent[p] # NoPD
             /\ <<"root", q, PdId[p], p>> \in Names
             /\ <<"fault", q, PdId[p], p>> \in Names
  <2>1. PdId[p] \in UsedId
    BY DEF UsedId
  <2>2. PdId[p] \in ChannelId
    BY <2>1, UsedIdIsChannelId
  <2> QED
    BY <2>1, <2>2, <1>2, SystemAssumption DEF Names
<1>3. ASSUME Parent[p] = q, b = RootPpcBadge(PdId[p])
      PROVE  /\ EntryPoint(b) = "protected"
             /\ NameFor(b, q, p) = <<"root", q, PdId[p], p>>
             /\ <<"root", q, PdId[p], p>> \in Names
  BY <1>2, <1>3, RootPpcBadgeSays
<1>4. ASSUME Parent[p] = q, b = FaultBadge(p)
      PROVE  /\ EntryPoint(b) = "fault" /\ BADGE_FAULT_ROOT_BIT \notin b
             /\ NameFor(b, q, p) = <<"fault", q, PdId[p], p>>
             /\ <<"fault", q, PdId[p], p>> \in Names
  BY <1>2, <1>4, FaultBadgeSays
<1>5. PICK k \in {"protected", "root", "fault"}, n \in UsedId :
        /\ NameFor(b, q, p) = <<k, q, n, p>>
        /\ <<k, q, n, p>> \in Names
        /\ \/ EntryPoint(b) = "protected"
           \/ EntryPoint(b) = "fault" /\ BADGE_FAULT_ROOT_BIT \notin b
  <2>1. CASE \E i, j \in UsedId : Linked(p, i, q, j) /\ b = PpcBadge(j)
    BY <2>1, <1>1
  <2>2. CASE Parent[p] = q /\ b = RootPpcBadge(PdId[p])
    BY <2>2, <1>2, <1>3
  <2>3. CASE Parent[p] = q /\ b = FaultBadge(p)
    BY <2>3, <1>2, <1>4
  <2> QED
    BY <2>1, <2>2, <2>3 DEF BadgeNames
<1> QED
  BY <1>5

-----------------------------------------------------------------------------
(* What a step does to the PDs, one by one *)

LEMMA SignalEffect ==
  ASSUME TypeOK, NEW q \in PD, NEW i, Signal(q, NtfnBadge(i))
  PROVE  \/ /\ state[q] = "receive" /\ state'[q] = "running"
            /\ badge'[q] = {i} /\ pending' = pending
            /\ \A r \in PD \ {q} : state'[r] = state[r] /\ badge'[r] = badge[r]
         \/ /\ state[q] # "receive" /\ state' = state /\ badge' = badge
            /\ pending'[q] = pending[q] \cup {i}
            /\ \A r \in PD \ {q} : pending'[r] = pending[r]
BY DEF TypeOK, Signal, NtfnBadge

LEMMA SendEffect ==
  ASSUME TypeOK, NEW p \in PD, NEW q \in PD, NEW b, Send(p, q, b), state[p] = "running"
  PROVE  /\ call'[p].to = q /\ call'[p].badge = b
         /\ \A r \in PD \ {p} : call'[r] = call[r]
         /\ \/ /\ state[q] = "receive" /\ p # q
               /\ state'[p] = "reply" /\ state'[q] = "running"
               /\ badge'[q] = b /\ reply'[q] = p
               /\ \A r \in PD \ {p, q} : state'[r] = state[r]
               /\ \A r \in PD \ {q} : badge'[r] = badge[r] /\ reply'[r] = reply[r]
            \/ /\ state[q] # "receive" /\ state'[p] = "send"
               /\ badge' = badge /\ reply' = reply
               /\ \A r \in PD \ {p} : state'[r] = state[r]
<1>1. call' = [call EXCEPT ![p] = [to |-> q, badge |-> b]]
  BY DEF Send
<1>2. /\ call'[p].to = q /\ call'[p].badge = b
      /\ \A r \in PD \ {p} : call'[r] = call[r]
  BY <1>1 DEF TypeOK
<1>3. CASE state[q] = "receive"
  <2>1. /\ state' = [state EXCEPT ![p] = "reply", ![q] = "running"]
        /\ badge' = [badge EXCEPT ![q] = b]
        /\ reply' = [reply EXCEPT ![q] = p]
    BY <1>3 DEF Send
  <2> QED
    BY <2>1, <1>2, <1>3 DEF TypeOK
<1>4. CASE state[q] # "receive"
  <2>1. state' = [state EXCEPT ![p] = "send"] /\ badge' = badge /\ reply' = reply
    BY <1>4 DEF Send
  <2> QED
    BY <2>1, <1>2, <1>4 DEF TypeOK
<1> QED
  BY <1>3, <1>4

\* Nobody is in its own reply object, and the PD in it is blocked on its holder.
LEMMA HeldIsBlocked ==
  ASSUME IInv, NEW p \in PD, reply[p] # NoPD
  PROVE  /\ reply[p] \in PD /\ state[reply[p]] = "reply" /\ call[reply[p]].to = p
         /\ Blocked(reply[p])
BY DEF IInv, TypeOK, CallersAreHeld, Blocked

\* The PD p receives when the notification b, the caller s or nothing is there.
ReceiveEffect(p) ==
  /\ state[p] = "running" /\ entry[p] = "loop"
  /\ entry'[p] = "dispatch" /\ haveReply'[p] = FALSE
  /\ \A r \in PD \ {p} : /\ entry'[r] = entry[r] /\ haveReply'[r] = haveReply[r]
                         /\ badge'[r] = badge[r] /\ pending'[r] = pending[r]
                         /\ reply'[r] = reply[r]
  /\ \A r \in PD \ {reply[p]} : call'[r] = call[r]
  /\ reply[p] \in PD =>
       /\ reply[p] # p
       /\ state'[reply[p]] = IF haveReply[p] THEN "running" ELSE "inactive"
  /\ \/ /\ pending[p] # {} /\ badge'[p] = pending[p] /\ pending'[p] = {}
        /\ reply'[p] = NoPD /\ state'[p] = "running"
        /\ \A r \in PD \ {reply[p]} : state'[r] = state[r]
     \/ /\ pending[p] = {} /\ pending'[p] = {}
        /\ \E s \in PD \ {p, reply[p]} :
             /\ state[s] = "send" /\ call[s].to = p
             /\ badge'[p] = call[s].badge /\ reply'[p] = s
             /\ state'[s] = "reply" /\ state'[p] = "running"
             /\ \A r \in PD \ {s, reply[p]} : state'[r] = state[r]
     \/ /\ pending[p] = {} /\ pending'[p] = {} /\ badge'[p] = badge[p]
        /\ reply'[p] = NoPD /\ state'[p] = "receive"
        /\ \A r \in PD \ {p, reply[p]} : state'[r] = state[r]

LEMMA ReceiveHasEffect ==
  ASSUME IInv, NEW p \in PD, Receive(p)
  PROVE  ReceiveEffect(p)
<1> USE DEF IInv
<1> DEFINE h == reply[p]
           R == Released(p)
<1>1. /\ state[p] = "running" /\ entry[p] = "loop"
      /\ call' = IF reply[p] = NoPD THEN call ELSE [call EXCEPT ![reply[p]] = NoCall]
      /\ haveReply' = [haveReply EXCEPT ![p] = FALSE]
      /\ entry' = [entry EXCEPT ![p] = "dispatch"]
  BY DEF Receive
<1>2. /\ R \in [PD -> {"running", "receive", "send", "reply", "inactive"}]
      /\ R[p] = "running"
      /\ \A r \in PD : r # h => R[r] = state[r] /\ call'[r] = call[r]
      /\ h \in PD => state[h] = "reply"
  BY <1>1, ReceiveReleases
<1>3. h \in PD => h # p /\ R[h] = IF haveReply[p] THEN "running" ELSE "inactive"
  <2>1. ASSUME h \in PD
        PROVE  R[h] = IF haveReply[p] THEN "running" ELSE "inactive"
    BY <2>1, SystemAssumption DEF Released, TypeOK
  <2> QED
    BY <2>1, <1>1, <1>2
<1>4. /\ entry'[p] = "dispatch" /\ haveReply'[p] = FALSE
      /\ \A r \in PD \ {p} : entry'[r] = entry[r] /\ haveReply'[r] = haveReply[r]
  BY <1>1 DEF TypeOK
<1>5. CASE TakeNotification(p)
  <2>1. /\ pending[p] # {} /\ state' = R
        /\ badge' = [badge EXCEPT ![p] = pending[p]]
        /\ pending' = [pending EXCEPT ![p] = {}]
        /\ reply' = [reply EXCEPT ![p] = NoPD]
    BY <1>5 DEF TakeNotification
  <2>2. /\ badge'[p] = pending[p] /\ pending'[p] = {} /\ reply'[p] = NoPD
        /\ \A r \in PD \ {p} : /\ badge'[r] = badge[r] /\ pending'[r] = pending[r]
                               /\ reply'[r] = reply[r]
    BY <2>1 DEF TypeOK
  <2> HIDE DEF R
  <2> QED
    BY <1>1, <1>2, <1>3, <1>4, <2>1, <2>2 DEF ReceiveEffect
<1>6. CASE TakeSender(p)
  <2> DEFINE s == Head(queue[p])
  <2>1. /\ pending[p] = {} /\ queue[p] # <<>> /\ pending' = pending
        /\ state' = [R EXCEPT ![s] = "reply"]
        /\ badge' = [badge EXCEPT ![p] = call[s].badge]
        /\ reply' = [reply EXCEPT ![p] = s]
    BY <1>6 DEF TakeSender
  <2>2. s \in PD /\ \E n \in DOMAIN queue[p] : queue[p][n] = s
    <3>1. queue[p] \in Seq(PD)
      BY DEF TypeOK
    <3>2. \A m, n \in DOMAIN queue[p] : queue[p][m] = queue[p][n] => m = n
      BY DEF CallersAreHeld
    <3> QED
      BY <3>1, <3>2, <2>1, TailTakesHead
  <2>3. state[s] = "send" /\ call[s].to = p
    BY <2>2 DEF CallersAreHeld
  <2> HIDE DEF s
  <2>4. s # p /\ s # h
    BY <1>1, <1>2, <2>2, <2>3
  <2>5. /\ badge'[p] = call[s].badge /\ reply'[p] = s
        /\ \A r \in PD \ {p} : badge'[r] = badge[r] /\ reply'[r] = reply[r]
    BY <2>1 DEF TypeOK
  <2> HIDE DEF R
  <2>6. state'[s] = "reply" /\ \A r \in PD \ {s} : state'[r] = R[r]
    BY <1>2, <2>1, <2>2
  <2> QED
    BY <1>1, <1>2, <1>3, <1>4, <2>1, <2>2, <2>3, <2>4, <2>5, <2>6 DEF ReceiveEffect
<1>7. CASE Block(p)
  <2>1. /\ pending[p] = {} /\ pending' = pending /\ badge' = badge
        /\ state' = [R EXCEPT ![p] = "receive"]
        /\ reply' = [reply EXCEPT ![p] = NoPD]
    BY <1>7 DEF Block
  <2>2. reply'[p] = NoPD /\ \A r \in PD \ {p} : reply'[r] = reply[r]
    BY <2>1 DEF TypeOK
  <2> HIDE DEF R
  <2>3. state'[p] = "receive" /\ \A r \in PD \ {p} : state'[r] = R[r]
    BY <1>2, <2>1
  <2> QED
    BY <1>1, <1>2, <1>3, <1>4, <2>1, <2>2, <2>3 DEF ReceiveEffect
<1> QED
  BY <1>5, <1>6, <1>7 DEF Receive

-----------------------------------------------------------------------------
(* The invariant of handler_loop *)

UserEntry == {"init", "notified", "protected", "fault"}

\* Only in user code is a PD stopped by a call; only at the head of the loop does it wait.
StopsInUserCode(p) ==
  /\ state[p] = "receive" => entry[p] = "dispatch"
  /\ state[p] \notin {"running", "receive"} => entry[p] \in UserEntry

\* From the dispatch of a call to the ReplyRecv that answers it, its caller is in the
\* reply object and its badge is the local `badge`; notified runs for nobody.
HeldWhileServed(p) ==
  /\ haveReply[p] => entry[p] = "loop"
  /\ haveReply[p] \/ entry[p] \in {"protected", "fault"} =>
       reply[p] # NoPD /\ badge[p] = call[reply[p]].badge
  /\ entry[p] \in {"protected", "fault"} => entry[p] = EntryPoint(badge[p])
  /\ entry[p] \in {"init", "notified"} => reply[p] = NoPD

\* The badge to dispatch is the caller's, if there is one, else a set of signals.
BadgeInHand(p) ==
  /\ entry[p] = "notified" => badge[p] # {} /\ badge[p] \subseteq SignalId
  /\ state[p] = "running" /\ entry[p] = "dispatch" =>
       IF reply[p] = NoPD THEN badge[p] # {} /\ badge[p] \subseteq SignalId
       ELSE badge[p] = call[reply[p]].badge

\* A PD whose user code always answers leaves nobody in a reply object unanswered.
AllAnswered(p) ==
  Withholds = {} => /\ state[p] # "inactive"
                    /\ entry[p] = "loop" /\ reply[p] # NoPD => haveReply[p]

PDInv(p) ==
  /\ pending[p] \subseteq SignalId
  /\ StopsInUserCode(p)
  /\ HeldWhileServed(p)
  /\ BadgeInHand(p)
  /\ Blocked(p) => BadgeNames(p, call[p].to, call[p].badge)
  /\ AllAnswered(p)

LoopInv ==
  /\ IInv
  /\ \A p \in PD : PDInv(p) /\ reply[p] # p

\* A notification has the identifier of a channel end or of an interrupt.
LEMMA NotificationIds ==
  ASSUME LastIdUnused
  PROVE  /\ \A p, q \in PD, i, j \in UsedId : Linked(p, i, q, j) => j \in SignalId
         /\ \A p \in PD, i \in UsedId : <<p, i>> \in Irq => i \in SignalId
<1>1. \A i \in UsedId : i # 62 => i \in SignalId
  BY UsedIdIsChannelId DEF ChannelId, SignalId
<1>2. ASSUME NEW p \in PD, NEW q \in PD, NEW i \in UsedId, NEW j \in UsedId,
             Linked(p, i, q, j)
      PROVE  j # 62
  <2>1. CASE <<p, i, q, j>> \in Channel
    BY <2>1 DEF LastIdUnused
  <2>2. CASE <<q, j, p, i>> \in Channel
    BY <2>2 DEF LastIdUnused
  <2> QED
    BY <2>1, <2>2, <1>2 DEF Linked
<1>3. \A p \in PD, i \in UsedId : <<p, i>> \in Irq => i # 62
  BY DEF LastIdUnused
<1> QED
  BY <1>1, <1>2, <1>3

\* A step that does not concern p keeps what is known of it.
LEMMA UntouchedKeeps ==
  ASSUME NEW p \in PD, PDInv(p),
         state'[p] = state[p], entry'[p] = entry[p], badge'[p] = badge[p],
         haveReply'[p] = haveReply[p], pending'[p] = pending[p], reply'[p] = reply[p],
         Blocked(p) => call'[p] = call[p],
         reply[p] # NoPD => call'[reply[p]].badge = call[reply[p]].badge
  PROVE  PDInv(p)'
<1>1. StopsInUserCode(p)'
  BY DEF PDInv, StopsInUserCode
<1>2. HeldWhileServed(p)'
  BY DEF PDInv, HeldWhileServed
<1>3. BadgeInHand(p)'
  BY DEF PDInv, BadgeInHand
<1>4. AllAnswered(p)'
  BY DEF PDInv, AllAnswered
<1>5. (Blocked(p) => BadgeNames(p, call[p].to, call[p].badge))'
  BY DEF PDInv, Blocked, BadgeNames
<1> QED
  BY <1>1, <1>2, <1>3, <1>4, <1>5 DEF PDInv

LEMMA InitPDInv == Init => \A p \in PD : PDInv(p) /\ reply[p] # p
<1> SUFFICES ASSUME Init, NEW p \in PD
             PROVE  PDInv(p) /\ reply[p] # p
  OBVIOUS
<1>1. /\ state[p] = "running" /\ entry[p] = "init" /\ haveReply[p] = FALSE
      /\ pending[p] = {} /\ reply[p] = NoPD
  BY DEF Init
<1> QED
  BY <1>1, SystemAssumption DEF PDInv, StopsInUserCode, HeldWhileServed, BadgeInHand, Blocked,
    AllAnswered, UserEntry

\* A signal is kept as a bit of the notification word, or wakes the receiver with it.
LEMMA SignalKeepsLoop ==
  ASSUME LoopInv, NEW q \in PD, NEW i \in SignalId, Signal(q, NtfnBadge(i)),
         UNCHANGED <<entry, haveReply, reply, call>>
  PROVE  \A p \in PD : PDInv(p)' /\ reply'[p] # p
<1> SUFFICES ASSUME NEW p \in PD
             PROVE  PDInv(p)'
  BY DEF LoopInv
<1>1. PDInv(p) /\ PDInv(q) /\ TypeOK /\ ReceiverHoldsNobody
  BY DEF LoopInv, IInv
<1>2. CASE p # q
  <2>1. state'[p] = state[p] /\ badge'[p] = badge[p] /\ pending'[p] = pending[p]
    BY <1>1, <1>2, SignalEffect
  <2> QED
    BY <2>1, <1>1, UntouchedKeeps
<1>3. CASE p = q /\ state[q] = "receive"
  <2>1. /\ state'[p] = "running" /\ badge'[p] = {i} /\ pending'[p] = pending[p]
        /\ entry'[p] = "dispatch" /\ haveReply'[p] = FALSE /\ reply'[p] = NoPD
    <3>1. entry[p] = "dispatch" /\ reply[p] = NoPD
      BY <1>1, <1>3 DEF PDInv, StopsInUserCode, ReceiverHoldsNobody
    <3>2. haveReply[p] = FALSE
      BY <1>1, <3>1 DEF PDInv, HeldWhileServed, TypeOK
    <3> QED
      BY <1>1, <1>3, <3>1, <3>2, SignalEffect
  <2> QED
    BY <2>1, <1>1 DEF PDInv, StopsInUserCode, HeldWhileServed, BadgeInHand, Blocked, AllAnswered
<1>4. CASE p = q /\ state[q] # "receive"
  <2>1. state' = state /\ badge' = badge /\ pending'[p] = pending[p] \cup {i}
    BY <1>1, <1>4, SignalEffect
  <2> QED
    BY <2>1, <1>1 DEF PDInv, StopsInUserCode, HeldWhileServed, BadgeInHand, Blocked, AllAnswered,
      BadgeNames
<1> QED
  BY <1>2, <1>3, <1>4

\* A call reaches a receiver with its own badge, or waits with it.
LEMMA SendKeepsLoop ==
  ASSUME LoopInv, NEW p \in PD, NEW q \in PD, NEW b, BadgeNames(p, q, b), Send(p, q, b),
         InUserCode(p), UNCHANGED <<entry, haveReply, pending>>
  PROVE  \A r \in PD : PDInv(r)' /\ reply'[r] # r
<1> SUFFICES ASSUME NEW r \in PD
             PROVE  PDInv(r)' /\ reply'[r] # r
  OBVIOUS
<1>1. /\ PDInv(r) /\ reply[r] # r /\ TypeOK /\ ReceiverHoldsNobody /\ IInv
      /\ state[p] = "running" /\ entry[p] \in UserEntry
  BY DEF LoopInv, IInv, InUserCode, UserEntry
<1>2. /\ call'[p].to = q /\ call'[p].badge = b
      /\ \A x \in PD \ {p} : call'[x] = call[x]
      /\ \/ /\ state[q] = "receive" /\ p # q
            /\ state'[p] = "reply" /\ state'[q] = "running"
            /\ badge'[q] = b /\ reply'[q] = p
            /\ \A x \in PD \ {p, q} : state'[x] = state[x]
            /\ \A x \in PD \ {q} : badge'[x] = badge[x] /\ reply'[x] = reply[x]
         \/ /\ state[q] # "receive" /\ state'[p] = "send"
            /\ badge' = badge /\ reply' = reply
            /\ \A x \in PD \ {p} : state'[x] = state[x]
  BY <1>1, SendEffect
<1>3. reply[r] # NoPD => call'[reply[r]].badge = call[reply[r]].badge
  <2> SUFFICES ASSUME reply[r] # NoPD
               PROVE  call'[reply[r]].badge = call[reply[r]].badge
    OBVIOUS
  <2>1. reply[r] \in PD /\ reply[r] # p
    BY <1>1, HeldIsBlocked
  <2> QED
    BY <2>1, <1>2
<1>4. CASE r = p
  <2>1. state'[p] \in {"send", "reply"} /\ badge'[p] = badge[p] /\ reply'[p] = reply[p]
    BY <1>1, <1>2
  <2>2. BadgeNames(p, call'[p].to, call'[p].badge)
    BY <1>2
  <2>3. StopsInUserCode(p)' /\ AllAnswered(p)'
    BY <1>1, <1>4, <2>1 DEF PDInv, StopsInUserCode, AllAnswered
  <2>4. HeldWhileServed(p)' /\ BadgeInHand(p)'
    BY <1>1, <1>3, <1>4, <2>1 DEF PDInv, HeldWhileServed, BadgeInHand
  <2>5. (Blocked(p) => BadgeNames(p, call[p].to, call[p].badge))'
    BY <2>2 DEF BadgeNames
  <2> QED
    BY <1>1, <1>4, <2>1, <2>3, <2>4, <2>5 DEF PDInv
<1>5. CASE r # p /\ r = q /\ state[q] = "receive"
  <2>1. entry[r] = "dispatch" /\ haveReply[r] = FALSE
    BY <1>1, <1>5 DEF PDInv, StopsInUserCode, HeldWhileServed, TypeOK
  <2>2. /\ state'[r] = "running" /\ entry'[r] = "dispatch" /\ haveReply'[r] = FALSE
        /\ reply'[r] = p /\ badge'[r] = call'[p].badge /\ pending'[r] = pending[r]
        /\ p # NoPD
    BY <1>2, <1>5, <2>1, SystemAssumption
  <2> QED
    BY <1>1, <1>5, <2>2 DEF PDInv, StopsInUserCode, HeldWhileServed, BadgeInHand, Blocked,
      AllAnswered
<1>6. CASE r # p /\ ~(r = q /\ state[q] = "receive")
  <2>1. /\ state'[r] = state[r] /\ badge'[r] = badge[r] /\ reply'[r] = reply[r]
        /\ call'[r] = call[r]
    BY <1>2, <1>6
  <2> QED
    BY <2>1, <1>1, <1>3, UntouchedKeeps
<1> QED
  BY <1>4, <1>5, <1>6

\* A receive answers or drops the PD held, and takes a notification or the next caller.
LEMMA ReceiveKeepsLoop ==
  ASSUME LoopInv, NEW p \in PD, Receive(p)
  PROVE  \A r \in PD : PDInv(r)' /\ reply'[r] # r
<1> SUFFICES ASSUME NEW r \in PD
             PROVE  PDInv(r)' /\ reply'[r] # r
  OBVIOUS
<1>1. PDInv(r) /\ PDInv(p) /\ reply[r] # r /\ IInv /\ TypeOK /\ r # NoPD
  BY SystemAssumption DEF LoopInv, IInv
<1>2. ReceiveEffect(p)
  BY <1>1, ReceiveHasEffect
<1>3. state[p] = "running" /\ entry[p] = "loop"
  BY <1>2 DEF ReceiveEffect
<1>4. CASE r = p
  <2>1. /\ entry'[p] = "dispatch" /\ haveReply'[p] = FALSE /\ pending'[p] \subseteq SignalId
        /\ state'[p] \in {"running", "receive"}
    BY <1>1, <1>2 DEF ReceiveEffect
  <2>2. (state[p] = "running" =>
           IF reply[p] = NoPD THEN badge[p] # {} /\ badge[p] \subseteq SignalId
           ELSE badge[p] = call[reply[p]].badge)'
    <3>1. CASE /\ pending[p] # {} /\ badge'[p] = pending[p] /\ reply'[p] = NoPD
      BY <1>1, <3>1 DEF PDInv
    <3>2. CASE \E s \in PD \ {p, reply[p]} : badge'[p] = call[s].badge /\ reply'[p] = s
      BY <1>2, <3>2, SystemAssumption DEF ReceiveEffect
    <3>3. CASE state'[p] = "receive"
      BY <3>3
    <3> QED
      BY <1>2, <3>1, <3>2, <3>3 DEF ReceiveEffect
  <2>3. reply'[p] # p
    BY <1>1, <1>2, <1>4 DEF ReceiveEffect
  <2> QED
    BY <1>4, <2>1, <2>2, <2>3 DEF PDInv, StopsInUserCode, HeldWhileServed, BadgeInHand, Blocked,
      AllAnswered
<1>5. CASE r # p /\ r = reply[p]
  <2>1. /\ state[r] = "reply" /\ state'[r] \in {"running", "inactive"}
        /\ Withholds = {} => state'[r] = "running"
    <3>1. Withholds = {} => haveReply[p]
      BY <1>1, <1>3, <1>5 DEF PDInv, AllAnswered
    <3> QED
      BY <1>1, <1>2, <1>5, <3>1, HeldIsBlocked DEF ReceiveEffect
  <2>2. entry[r] \in UserEntry
    BY <1>1, <2>1 DEF PDInv, StopsInUserCode
  <2>3. /\ entry'[r] = entry[r] /\ haveReply'[r] = haveReply[r] /\ badge'[r] = badge[r]
        /\ pending'[r] = pending[r] /\ reply'[r] = reply[r]
    BY <1>2, <1>5 DEF ReceiveEffect
  <2>4. reply[r] # NoPD => call'[reply[r]].badge = call[reply[r]].badge
    <3>1. reply[r] # NoPD => reply[r] \in PD /\ reply[r] # reply[p]
      BY <1>1, <1>5, HeldIsBlocked
    <3> QED
      BY <1>2, <3>1 DEF ReceiveEffect
  <2>5. HeldWhileServed(r)'
    BY <1>1, <2>3, <2>4 DEF PDInv, HeldWhileServed
  <2>6. BadgeInHand(r)'
    BY <1>1, <2>2, <2>3 DEF PDInv, BadgeInHand, UserEntry
  <2>7. StopsInUserCode(r)' /\ AllAnswered(r)'
    BY <1>1, <2>1, <2>2, <2>3 DEF PDInv, StopsInUserCode, AllAnswered, UserEntry
  <2> QED
    BY <1>1, <2>1, <2>3, <2>5, <2>6, <2>7 DEF PDInv, Blocked
<1>6. CASE r # p /\ r # reply[p]
  <2>1. /\ entry'[r] = entry[r] /\ haveReply'[r] = haveReply[r] /\ badge'[r] = badge[r]
        /\ pending'[r] = pending[r] /\ reply'[r] = reply[r] /\ call'[r] = call[r]
    BY <1>2, <1>6 DEF ReceiveEffect
  <2>2. reply[r] # NoPD => call'[reply[r]].badge = call[reply[r]].badge
    <3>1. reply[r] # NoPD => /\ reply[r] \in PD /\ call[reply[r]].to = r
      BY <1>1, HeldIsBlocked
    <3>2. reply[p] # NoPD => call[reply[p]].to = p
      BY <1>1, HeldIsBlocked
    <3>3. reply[r] # NoPD => reply[r] \in PD \ {reply[p]}
      BY <1>6, <3>1, <3>2
    <3> QED
      BY <1>2, <3>3 DEF ReceiveEffect
  <2>3. CASE state'[r] = state[r]
    BY <1>1, <2>1, <2>2, <2>3, UntouchedKeeps
  <2>4. CASE state'[r] # state[r]
    <3>1. state[r] = "send" /\ state'[r] = "reply"
      BY <1>2, <1>6, <2>4 DEF ReceiveEffect
    <3>2. HeldWhileServed(r)'
      BY <1>1, <2>1, <2>2 DEF PDInv, HeldWhileServed
    <3>3. BadgeInHand(r)' /\ StopsInUserCode(r)' /\ AllAnswered(r)'
      BY <1>1, <2>1, <3>1 DEF PDInv, BadgeInHand, StopsInUserCode, AllAnswered
    <3>4. (Blocked(r) => BadgeNames(r, call[r].to, call[r].badge))'
      BY <1>1, <2>1, <3>1 DEF PDInv, Blocked, BadgeNames
    <3> QED
      BY <1>1, <2>1, <3>2, <3>3, <3>4 DEF PDInv
  <2> QED
    BY <2>3, <2>4
<1> QED
  BY <1>4, <1>5, <1>6

-----------------------------------------------------------------------------
(* Dispatch, and the returns of the entry points *)

\* What is dispatched: signals to notified, or the call of the PD held to its handler.
LEMMA DispatchEffect ==
  ASSUME LoopInv, NEW p \in PD, Dispatch(p)
  PROVE  /\ state[p] = "running" /\ entry[p] = "dispatch" /\ haveReply[p] = FALSE
         /\ state' = state /\ entry' = [entry EXCEPT ![p] = EntryPoint(badge[p])]
         /\ UNCHANGED <<badge, haveReply, pending, queue, reply, call, masked>>
         /\ \/ /\ reply[p] = NoPD /\ badge[p] # {} /\ badge[p] \subseteq SignalId
               /\ EntryPoint(badge[p]) = "notified"
            \/ /\ reply[p] # NoPD /\ badge[p] = call[reply[p]].badge
               /\ BadgeNames(reply[p], p, badge[p])
               /\ EntryPoint(badge[p]) \in {"protected", "fault"}
<1>1. PDInv(p) /\ reply[p] # p /\ IInv /\ TypeOK
  BY DEF LoopInv, IInv
<1>2. /\ state[p] = "running" /\ entry[p] = "dispatch"
      /\ entry' = [entry EXCEPT ![p] = EntryPoint(badge[p])]
      /\ state' = IF EntryPoint(badge[p]) = "fault" /\ BADGE_FAULT_ROOT_BIT \in badge[p]
                  THEN [state EXCEPT ![p] = "inactive"] ELSE state
      /\ UNCHANGED <<badge, haveReply, pending, queue, reply, call, masked>>
  BY DEF Dispatch
<1>3. haveReply[p] = FALSE
  BY <1>1, <1>2 DEF PDInv, HeldWhileServed, TypeOK
<1>4. CASE reply[p] = NoPD
  <2>1. badge[p] # {} /\ badge[p] \subseteq SignalId
    BY <1>1, <1>2, <1>4 DEF PDInv, BadgeInHand
  <2>2. EntryPoint(badge[p]) = "notified"
    BY <2>1, SignalBadges
  <2> QED
    BY <1>2, <1>3, <1>4, <2>1, <2>2
<1>5. CASE reply[p] # NoPD
  <2>1. badge[p] = call[reply[p]].badge
    BY <1>1, <1>2, <1>5 DEF PDInv, BadgeInHand
  <2>2. reply[p] \in PD /\ Blocked(reply[p]) /\ call[reply[p]].to = p
    BY <1>1, <1>5, HeldIsBlocked
  <2>3. BadgeNames(reply[p], p, badge[p])
    BY <2>1, <2>2 DEF LoopInv, PDInv
  <2>4. /\ EntryPoint(badge[p]) \in {"protected", "fault"}
        /\ ~(EntryPoint(badge[p]) = "fault" /\ BADGE_FAULT_ROOT_BIT \in badge[p])
    BY <1>1, <2>2, <2>3, BadgeSays
  <2> QED
    BY <1>2, <1>3, <1>5, <2>1, <2>3, <2>4
<1> QED
  BY <1>4, <1>5

LEMMA DispatchKeepsLoop ==
  ASSUME LoopInv, NEW p \in PD, Dispatch(p)
  PROVE  \A r \in PD : PDInv(r)' /\ reply'[r] # r
<1> SUFFICES ASSUME NEW r \in PD
             PROVE  PDInv(r)'
  BY DispatchEffect DEF LoopInv
<1>1. PDInv(r) /\ IInv /\ TypeOK
  BY DEF LoopInv, IInv
<1>2. /\ state[p] = "running" /\ haveReply[p] = FALSE
      /\ state' = state /\ entry' = [entry EXCEPT ![p] = EntryPoint(badge[p])]
      /\ UNCHANGED <<badge, haveReply, pending, reply, call>>
      /\ \/ /\ reply[p] = NoPD /\ badge[p] # {} /\ badge[p] \subseteq SignalId
            /\ EntryPoint(badge[p]) = "notified"
         \/ /\ reply[p] # NoPD /\ badge[p] = call[reply[p]].badge
            /\ EntryPoint(badge[p]) \in {"protected", "fault"}
  BY DispatchEffect
<1>3. CASE r # p
  <2>1. entry'[r] = entry[r]
    BY <1>1, <1>2, <1>3 DEF TypeOK
  <2> QED
    BY <1>1, <1>2, <2>1, UntouchedKeeps
<1>4. CASE r = p
  <2>1. entry'[r] = EntryPoint(badge[r])
    BY <1>1, <1>2, <1>4 DEF TypeOK
  <2>2. StopsInUserCode(r)' /\ AllAnswered(r)'
    BY <1>1, <1>2, <1>4, <2>1 DEF PDInv, StopsInUserCode, AllAnswered
  <2>3. (entry[r] \in {"protected", "fault"} => entry[r] = EntryPoint(badge[r]))'
    BY <1>2, <2>1 DEF EntryPoint
  <2>4. HeldWhileServed(r)'
    BY <1>2, <1>4, <2>1, <2>3 DEF HeldWhileServed
  <2>5. BadgeInHand(r)'
    BY <1>2, <1>4, <2>1 DEF BadgeInHand
  <2>6. (Blocked(r) => BadgeNames(r, call[r].to, call[r].badge))'
    BY <1>2, <1>4 DEF Blocked
  <2> QED
    BY <1>1, <1>2, <2>2, <2>4, <2>5, <2>6 DEF PDInv
<1> QED
  BY <1>3, <1>4

LEMMA ReturnKeepsLoop ==
  ASSUME LoopInv, NEW p \in PD,
         InitReturns(p) \/ NotifiedReturns(p) \/ \E answer \in BOOLEAN : HandlerReturns(p, answer)
  PROVE  \A r \in PD : PDInv(r)' /\ reply'[r] # r
<1> SUFFICES ASSUME NEW r \in PD
             PROVE  PDInv(r)'
  BY DEF LoopInv, InitReturns, NotifiedReturns, HandlerReturns
<1>1. PDInv(r) /\ PDInv(p) /\ TypeOK
  BY DEF LoopInv, IInv
<1>2. UNCHANGED <<state, pending, reply, call>> /\ state[p] = "running"
  BY DEF InitReturns, NotifiedReturns, HandlerReturns
<1>3. CASE r # p
  <2>1. entry'[r] = entry[r] /\ badge'[r] = badge[r] /\ haveReply'[r] = haveReply[r]
    BY <1>1, <1>3 DEF TypeOK, InitReturns, NotifiedReturns, HandlerReturns
  <2> QED
    BY <1>1, <1>2, <2>1, UntouchedKeeps
<1>4. CASE r = p
  <2>1. (Blocked(r) => BadgeNames(r, call[r].to, call[r].badge))'
    BY <1>2, <1>4 DEF Blocked
  <2>2. CASE InitReturns(p)
    <3>1. /\ entry[p] = "init" /\ entry'[p] = "loop" /\ haveReply'[p] = FALSE
          /\ reply'[p] = NoPD
      BY <1>1, <1>2, <2>2 DEF InitReturns, TypeOK, PDInv, HeldWhileServed
    <3> QED
      BY <1>1, <1>2, <1>4, <2>1, <3>1 DEF PDInv, StopsInUserCode, HeldWhileServed,
        BadgeInHand, AllAnswered
  <2>3. CASE NotifiedReturns(p)
    <3> DEFINE rest == badge[p] \ {NotifiedChannel(badge[p])}
    <3>1. /\ entry[p] = "notified" /\ badge' = [badge EXCEPT ![p] = rest]
          /\ entry' = [entry EXCEPT ![p] = IF rest = {} THEN "loop" ELSE "notified"]
          /\ haveReply' = haveReply
      BY <2>3 DEF NotifiedReturns
    <3>2. haveReply[p] = FALSE /\ reply[p] = NoPD /\ rest \subseteq SignalId
      BY <1>1, <3>1 DEF PDInv, HeldWhileServed, BadgeInHand, TypeOK
    <3> HIDE DEF rest
    <3>3. /\ badge'[p] = rest /\ haveReply'[p] = FALSE /\ reply'[p] = NoPD
          /\ entry'[p] = IF rest = {} THEN "loop" ELSE "notified"
      BY <1>1, <1>2, <3>1, <3>2 DEF TypeOK
    <3> QED
      BY <1>1, <1>2, <1>4, <2>1, <3>2, <3>3 DEF PDInv, StopsInUserCode, HeldWhileServed,
        BadgeInHand, AllAnswered
  <2>4. ASSUME NEW answer \in BOOLEAN, HandlerReturns(p, answer)
        PROVE  PDInv(r)'
    <3>1. /\ entry[p] \in {"protected", "fault"} /\ entry'[p] = "loop"
          /\ haveReply'[p] = answer /\ badge'[p] = badge[p]
          /\ Withholds = {} => answer
      BY <1>1, <2>4 DEF HandlerReturns, TypeOK
    <3>2. reply[p] # NoPD /\ badge[p] = call[reply[p]].badge
      BY <1>1, <3>1 DEF PDInv, HeldWhileServed
    <3> QED
      BY <1>1, <1>2, <1>4, <2>1, <3>1, <3>2 DEF PDInv, StopsInUserCode, HeldWhileServed,
        BadgeInHand, AllAnswered
  <2> QED
    BY <2>2, <2>3, <2>4
<1> QED
  BY <1>3, <1>4

-----------------------------------------------------------------------------
(* User code and interrupts *)

\* Notify and IrqFire signal an identifier of the description.
LEMMA NotifySignals ==
  ASSUME LastIdUnused, NEW p \in PD, NEW i \in UsedId, Notify(p, i)
  PROVE  /\ \E q \in PD, j \in SignalId : Signal(q, NtfnBadge(j))
         /\ UNCHANGED <<entry, haveReply, queue, reply, call, masked>>
BY NotificationIds DEF Notify

LEMMA IrqSignals ==
  ASSUME LastIdUnused, NEW p \in PD, NEW i \in UsedId, IrqFire(p, i)
  PROVE  /\ i \in SignalId /\ Signal(p, NtfnBadge(i))
         /\ masked' = masked \cup {<<p, i>>}
         /\ UNCHANGED <<entry, haveReply, queue, reply, call>>
BY NotificationIds DEF IrqFire

\* A protected call, a call of the root PD and a fault carry the caller's badge.
LEMMA CallSends ==
  ASSUME NEW p \in PD, (\E i \in UsedId : PPCall(p, i)) \/ RootPPCall(p) \/ Fault(p)
  PROVE  /\ InUserCode(p)
         /\ \E q \in PD : \E b : BadgeNames(p, q, b) /\ Send(p, q, b)
         /\ UNCHANGED <<entry, haveReply, pending, masked>>
<1>1. ASSUME NEW i \in UsedId, PPCall(p, i)
      PROVE  /\ InUserCode(p)
             /\ \E q \in PD : \E b : BadgeNames(p, q, b) /\ Send(p, q, b)
             /\ UNCHANGED <<entry, haveReply, pending, masked>>
  <2>1. PICK q \in Provides, j \in UsedId : Linked(p, i, q, j) /\ Send(p, q, PpcBadge(j))
    BY <1>1 DEF PPCall
  <2>2. q \in PD /\ BadgeNames(p, q, PpcBadge(j))
    BY <2>1, SystemAssumption DEF BadgeNames
  <2> QED
    BY <1>1, <2>1, <2>2 DEF PPCall, UserOp
<1>2. ASSUME RootPPCall(p)
      PROVE  /\ InUserCode(p)
             /\ \E q \in PD : \E b : BadgeNames(p, q, b) /\ Send(p, q, b)
             /\ UNCHANGED <<entry, haveReply, pending, masked>>
  <2>1. Parent[p] \in PD /\ Send(p, Parent[p], RootPpcBadge(PdId[p]))
    BY <1>2, SystemAssumption DEF RootPPCall
  <2>2. BadgeNames(p, Parent[p], RootPpcBadge(PdId[p]))
    BY DEF BadgeNames
  <2> QED
    BY <1>2, <2>1, <2>2 DEF RootPPCall, UserOp
<1>3. ASSUME Fault(p)
      PROVE  /\ InUserCode(p)
             /\ \E q \in PD : \E b : BadgeNames(p, q, b) /\ Send(p, q, b)
             /\ UNCHANGED <<entry, haveReply, pending, masked>>
  <2>1. FaultEp(p) \in PD /\ Send(p, FaultEp(p), FaultBadge(p))
    BY <1>3, SystemAssumption DEF Fault, FaultEp
  <2>2. BadgeNames(p, FaultEp(p), FaultBadge(p))
    BY DEF BadgeNames, FaultEp
  <2> QED
    BY <1>3, <2>1, <2>2 DEF Fault, UserOp
<1> QED
  BY <1>1, <1>2, <1>3

LEMMA NextKeepsLoop == LastIdUnused /\ LoopInv /\ [Next]_vars => LoopInv'
<1> SUFFICES ASSUME LastIdUnused, LoopInv, [Next]_vars
             PROVE  \A r \in PD : PDInv(r)' /\ reply'[r] # r
  BY NextKeepsIInv DEF LoopInv
<1>1. ASSUME NEW p \in PD, Library(p)
      PROVE  \A r \in PD : PDInv(r)' /\ reply'[r] # r
  BY <1>1, ReceiveKeepsLoop, DispatchKeepsLoop, ReturnKeepsLoop DEF Library
<1>2. ASSUME NEW p \in PD, NEW i \in UsedId, Notify(p, i)
      PROVE  \A r \in PD : PDInv(r)' /\ reply'[r] # r
  BY <1>2, NotifySignals, SignalKeepsLoop
<1>3. ASSUME NEW p \in PD, (\E i \in UsedId : PPCall(p, i)) \/ RootPPCall(p) \/ Fault(p)
      PROVE  \A r \in PD : PDInv(r)' /\ reply'[r] # r
  BY <1>3, CallSends, SendKeepsLoop
<1>4. ASSUME UNCHANGED <<state, entry, badge, haveReply, pending, reply, call>>
      PROVE  \A r \in PD : PDInv(r)' /\ reply'[r] # r
  BY <1>4, UntouchedKeeps DEF LoopInv
<1>5. ASSUME NEW p \in PD, NEW i \in UsedId, IrqAck(p, i)
      PROVE  \A r \in PD : PDInv(r)' /\ reply'[r] # r
  BY <1>4, <1>5 DEF IrqAck
<1>6. ASSUME NEW p \in PD, NEW i \in UsedId, IrqFire(p, i)
      PROVE  \A r \in PD : PDInv(r)' /\ reply'[r] # r
  BY <1>6, IrqSignals, SignalKeepsLoop
<1>7. CASE UNCHANGED vars
  BY <1>4, <1>7 DEF vars
<1> QED
  BY <1>1, <1>2, <1>3, <1>5, <1>6, <1>7 DEF Next, User

LEMMA LoopInvariance == ASSUME LastIdUnused PROVE Spec => []LoopInv
<1>1. Init => LoopInv
  BY InitIInv, InitPDInv DEF LoopInv
<1>2. LoopInv /\ [Next]_vars => LoopInv'
  BY NextKeepsLoop
<1> QED
  BY <1>1, <1>2, PTL DEF Spec

-----------------------------------------------------------------------------
(* The identifier given to protected and fault *)

LEMMA CallerIsNamed ==
  ASSUME LoopInv, NEW q \in PD, reply[q] # NoPD, badge[q] = call[reply[q]].badge
  PROVE  /\ CallerOf(q) = NameFor(badge[q], q, reply[q])
         /\ CallerOf(q) \in Names
         /\ CallerOf(q)[2] = q /\ CallerOf(q)[4] = reply[q]
<1>1. /\ reply[q] \in PD /\ Blocked(reply[q]) /\ call[reply[q]].to = q /\ reply[q] # q
  BY HeldIsBlocked DEF LoopInv
<1>2. BadgeNames(reply[q], q, badge[q])
  BY <1>1 DEF LoopInv, PDInv
<1>3. CallerOf(q) = NameFor(badge[q], q, reply[q])
  BY DEF CallerOf, NameFor
<1> QED
  BY <1>1, <1>2, <1>3, BadgeSays

\* Whatever the channels, the children and the interleaving, protected and fault are
\* called with the identifier the description gives the very PD they are called for, and
\* that PD is blocked in the reply object they will answer.  The last identifier must be
\* unused: with it a notification is taken for a fault.
THEOREM IdentifiersNameCallers == ASSUME LastIdUnused PROVE Spec => []IdentifierNamesCaller
<1>1. LoopInv => IdentifierNamesCaller
  <2> SUFFICES ASSUME LoopInv, NEW q \in PD, entry[q] \in {"protected", "fault"}
               PROVE  CallerOf(q) \in Names
    BY DEF IdentifierNamesCaller
  <2>1. reply[q] # NoPD /\ badge[q] = call[reply[q]].badge
    BY DEF LoopInv, PDInv, HeldWhileServed
  <2> QED
    BY <2>1, CallerIsNamed
<1> QED
  BY <1>1, LoopInvariance, PTL

-----------------------------------------------------------------------------
(* The notifications a step leaves owed *)

\* A PD whose badge and notification word a step leaves alone owes what it owed.
LEMMA OwesTheSame ==
  ASSUME NEW r \in PD, entry'[r] = entry[r], badge'[r] = badge[r], pending'[r] = pending[r],
         entry[r] = "dispatch" => state'[r] = state[r]
  PROVE  InHand(r)' = InHand(r) /\ Owed(r)' = Owed(r) /\ Again(r)' = Again(r)
<1>1. InHand(r)' = InHand(r)
  BY DEF InHand
<1> QED
  BY <1>1 DEF Owed, Again

\* A signal is owed from then on; the one it may owe twice is already owed.
LEMMA SignalOwes ==
  ASSUME LoopInv, NEW q \in PD, NEW i \in SignalId, Signal(q, NtfnBadge(i)), entry' = entry
  PROVE  /\ Owed(q)' = Owed(q) \cup {i}
         /\ Again(q)' = Again(q) \/ (i \in Owed(q) /\ Again(q)' = Again(q) \cup {i})
         /\ \A r \in PD \ {q} : Owed(r)' = Owed(r) /\ Again(r)' = Again(r)
<1>1. PDInv(q) /\ TypeOK
  BY DEF LoopInv, IInv
<1>2. ASSUME NEW r \in PD \ {q}
      PROVE  Owed(r)' = Owed(r) /\ Again(r)' = Again(r)
  <2>1. state'[r] = state[r] /\ badge'[r] = badge[r] /\ pending'[r] = pending[r]
    BY <1>1, SignalEffect
  <2> QED
    BY <2>1, OwesTheSame
<1>3. CASE state[q] = "receive"
  <2>1. /\ state'[q] = "running" /\ badge'[q] = {i} /\ pending' = pending
        /\ entry[q] = "dispatch"
    BY <1>1, <1>3, SignalEffect DEF PDInv, StopsInUserCode
  <2>2. EntryPoint({i}) = "notified"
    BY SignalBadges
  <2>3. InHand(q) = {} /\ InHand(q)' = {i}
    BY <1>3, <2>1, <2>2 DEF InHand
  <2> QED
    BY <1>2, <2>1, <2>3 DEF Owed, Again
<1>4. CASE state[q] # "receive"
  <2>1. state' = state /\ badge' = badge /\ pending'[q] = pending[q] \cup {i}
    BY <1>1, <1>4, SignalEffect
  <2>2. InHand(q)' = InHand(q)
    BY <2>1 DEF InHand
  <2> QED
    BY <1>2, <2>1, <2>2 DEF Owed, Again
<1> QED
  BY <1>3, <1>4

\* The badge of a call is nobody's notification.
LEMMA SendOwes ==
  ASSUME LoopInv, NEW p \in PD, NEW q \in PD, NEW b, BadgeNames(p, q, b), Send(p, q, b),
         InUserCode(p), entry' = entry, pending' = pending
  PROVE  \A r \in PD : Owed(r)' = Owed(r) /\ Again(r)' = Again(r)
<1> SUFFICES ASSUME NEW r \in PD
             PROVE  Owed(r)' = Owed(r) /\ Again(r)' = Again(r)
  OBVIOUS
<1>1. PDInv(r) /\ TypeOK /\ state[p] = "running" /\ entry[p] # "dispatch"
  BY DEF LoopInv, IInv, InUserCode
<1>2. CASE r = q /\ state[q] = "receive"
  <2>1. p # q /\ state'[q] = "running" /\ badge'[q] = b
    BY <1>1, <1>2, SendEffect
  <2>2. entry[q] = "dispatch"
    BY <1>1, <1>2 DEF PDInv, StopsInUserCode
  <2>3. EntryPoint(b) \in {"protected", "fault"}
    BY <2>1, BadgeSays
  <2>4. InHand(q) = {} /\ InHand(q)' = {}
    BY <1>2, <2>1, <2>2, <2>3 DEF InHand
  <2> QED
    BY <1>2, <2>4 DEF Owed, Again
<1>3. CASE ~(r = q /\ state[q] = "receive")
  <2>1. badge'[r] = badge[r] /\ (r # p => state'[r] = state[r])
    BY <1>1, <1>3, SendEffect
  <2> QED
    BY <1>1, <2>1, OwesTheSame
<1> QED
  BY <1>2, <1>3

\* Receiving moves the notification word into the badge, or a caller's badge over one
\* that was finished with.
LEMMA ReceiveOwes ==
  ASSUME LoopInv, NEW p \in PD, Receive(p)
  PROVE  \A r \in PD : Owed(r)' = Owed(r) /\ Again(r)' = Again(r)
<1> SUFFICES ASSUME NEW r \in PD
             PROVE  Owed(r)' = Owed(r) /\ Again(r)' = Again(r)
  OBVIOUS
<1>1. ReceiveEffect(p) /\ PDInv(p) /\ PDInv(r) /\ IInv
  BY ReceiveHasEffect DEF LoopInv
<1>2. CASE r # p
  <2>1. entry'[r] = entry[r] /\ badge'[r] = badge[r] /\ pending'[r] = pending[r]
    BY <1>1, <1>2 DEF ReceiveEffect
  <2>2. entry[r] = "dispatch" => state[r] \notin {"send", "reply"}
    BY <1>1 DEF PDInv, StopsInUserCode, UserEntry
  <2>3. r = reply[p] => state[r] = "reply"
    BY <1>1, HeldIsBlocked, SystemAssumption
  <2>4. entry[r] = "dispatch" => state'[r] = state[r]
    BY <1>1, <1>2, <2>2, <2>3 DEF ReceiveEffect
  <2> QED
    BY <2>1, <2>4, OwesTheSame
<1>3. CASE r = p
  <2>1. InHand(p) = {} /\ entry'[p] = "dispatch"
    BY <1>1 DEF ReceiveEffect, InHand
  <2>2. CASE pending[p] # {} /\ badge'[p] = pending[p] /\ pending'[p] = {} /\ state'[p] = "running"
    <3>1. EntryPoint(pending[p]) = "notified"
      BY <1>1, SignalBadges DEF PDInv
    <3>2. InHand(p)' = pending[p]
      BY <2>1, <2>2, <3>1 DEF InHand
    <3> QED
      BY <1>3, <2>1, <2>2, <3>2 DEF Owed, Again
  <2>3. CASE /\ pending[p] = {} /\ pending'[p] = {}
             /\ \E s \in PD \ {p} :
                  state[s] = "send" /\ call[s].to = p /\ badge'[p] = call[s].badge
    <3>1. PICK s \in PD \ {p} :
            state[s] = "send" /\ call[s].to = p /\ badge'[p] = call[s].badge
      BY <2>3
    <3>2. BadgeNames(s, p, badge'[p])
      BY <3>1 DEF LoopInv, PDInv, Blocked
    <3>3. EntryPoint(badge'[p]) \in {"protected", "fault"}
      BY <3>1, <3>2, BadgeSays
    <3>4. InHand(p)' = {}
      BY <2>1, <3>3 DEF InHand
    <3> QED
      BY <1>3, <2>1, <2>3, <3>4 DEF Owed, Again
  <2>4. CASE pending[p] = {} /\ pending'[p] = {} /\ state'[p] = "receive"
    <3>1. InHand(p)' = {}
      BY <2>1, <2>4 DEF InHand
    <3> QED
      BY <1>3, <2>1, <2>4, <3>1 DEF Owed, Again
  <2> QED
    BY <1>1, <2>2, <2>3, <2>4 DEF ReceiveEffect
<1> QED
  BY <1>2, <1>3

\* The step by which p starts notified with i, the next bit of its badge.
StartsNotified(p, i) ==
  /\ entry'[p] = "notified" /\ i = NotifiedChannel(badge'[p]) /\ i \in UsedId
  /\ i \in InHand(p) /\ InHand(p)' = InHand(p) \ {i} /\ pending'[p] = pending[p]

\* Dispatching takes one notification off what is owed, or the badge of a call.
LEMMA DispatchOwes ==
  ASSUME LoopInv, NEW p \in PD, Dispatch(p)
  PROVE  /\ \A r \in PD \ {p} : Owed(r)' = Owed(r) /\ Again(r)' = Again(r)
         /\ \/ /\ reply[p] = NoPD /\ \E i : StartsNotified(p, i)
            \/ /\ reply[p] # NoPD /\ Owed(p)' = Owed(p) /\ Again(p)' = Again(p)
<1>1. TypeOK
  BY DEF LoopInv, IInv
<1>2. /\ state[p] = "running" /\ entry[p] = "dispatch" /\ state' = state
      /\ entry' = [entry EXCEPT ![p] = EntryPoint(badge[p])]
      /\ UNCHANGED <<badge, pending>>
  BY DispatchEffect
<1>3. entry'[p] = EntryPoint(badge[p]) /\ \A r \in PD \ {p} : entry'[r] = entry[r]
  BY <1>1, <1>2 DEF TypeOK
<1>4. \A r \in PD \ {p} : Owed(r)' = Owed(r) /\ Again(r)' = Again(r)
  BY <1>2, <1>3, OwesTheSame
<1>5. CASE /\ reply[p] = NoPD /\ badge[p] # {} /\ badge[p] \subseteq SignalId
           /\ EntryPoint(badge[p]) = "notified"
  <2> DEFINE i == NotifiedChannel(badge[p])
  <2>1. i \in badge[p] /\ i \in UsedId
    BY <1>5, SignalBadges DEF SignalId
  <2>2. InHand(p) = badge[p] /\ InHand(p)' = badge[p] \ {i}
    BY <1>2, <1>3, <1>5 DEF InHand
  <2>3. StartsNotified(p, i)
    BY <1>2, <1>3, <1>5, <2>1, <2>2 DEF StartsNotified
  <2> QED
    BY <1>4, <1>5, <2>3
<1>6. CASE reply[p] # NoPD /\ EntryPoint(badge[p]) \in {"protected", "fault"}
  <2>1. InHand(p) = {} /\ InHand(p)' = {}
    BY <1>2, <1>3, <1>6 DEF InHand
  <2> QED
    BY <1>2, <1>4, <1>6, <2>1 DEF Owed, Again
<1> QED
  BY <1>5, <1>6, DispatchEffect

\* When notified returns, the next bit of the badge is notified at once, if there is one.
LEMMA NotifiedReturnOwes ==
  ASSUME LoopInv, NEW p \in PD, NotifiedReturns(p)
  PROVE  /\ entry[p] = "notified" /\ reply[p] = NoPD /\ haveReply[p] = FALSE
         /\ \A r \in PD \ {p} : Owed(r)' = Owed(r) /\ Again(r)' = Again(r)
         /\ \/ \E i : StartsNotified(p, i)
            \/ entry'[p] = "loop" /\ Owed(p)' = Owed(p) /\ Again(p)' = Again(p)
<1> DEFINE rest == badge[p] \ {NotifiedChannel(badge[p])}
<1>1. TypeOK /\ PDInv(p)
  BY DEF LoopInv, IInv
<1>2. /\ entry[p] = "notified" /\ badge' = [badge EXCEPT ![p] = rest]
      /\ entry' = [entry EXCEPT ![p] = IF rest = {} THEN "loop" ELSE "notified"]
      /\ UNCHANGED <<state, pending>>
  BY DEF NotifiedReturns
<1>3. rest \subseteq SignalId /\ reply[p] = NoPD /\ haveReply[p] = FALSE
  BY <1>1, <1>2 DEF PDInv, BadgeInHand, HeldWhileServed, TypeOK
<1>4. InHand(p) = rest
  BY <1>2 DEF InHand
<1> HIDE DEF rest
<1>5. /\ badge'[p] = rest /\ entry'[p] = IF rest = {} THEN "loop" ELSE "notified"
      /\ \A r \in PD \ {p} : entry'[r] = entry[r] /\ badge'[r] = badge[r]
  BY <1>1, <1>2 DEF TypeOK
<1>6. \A r \in PD \ {p} : Owed(r)' = Owed(r) /\ Again(r)' = Again(r)
  BY <1>2, <1>5, OwesTheSame
<1>7. CASE rest = {}
  <2>1. InHand(p)' = {}
    BY <1>5, <1>7 DEF InHand
  <2> QED
    BY <1>2, <1>3, <1>4, <1>5, <1>6, <1>7, <2>1 DEF Owed, Again
<1>8. CASE rest # {}
  <2> DEFINE i == NotifiedChannel(rest)
  <2>1. i \in rest /\ i \in UsedId
    BY <1>3, <1>8, SignalBadges DEF SignalId
  <2>2. InHand(p)' = rest \ {i}
    BY <1>5, <1>8 DEF InHand
  <2>3. StartsNotified(p, i)
    BY <1>2, <1>4, <1>5, <1>8, <2>1, <2>2 DEF StartsNotified
  <2> QED
    BY <1>2, <1>3, <1>6, <2>3
<1> QED
  BY <1>7, <1>8

\* The other returns concern no notification.
LEMMA ReturnOwes ==
  ASSUME LoopInv, NEW p \in PD,
         InitReturns(p) \/ \E answer \in BOOLEAN : HandlerReturns(p, answer)
  PROVE  \A r \in PD : Owed(r)' = Owed(r) /\ Again(r)' = Again(r)
<1> SUFFICES ASSUME NEW r \in PD
             PROVE  Owed(r)' = Owed(r) /\ Again(r)' = Again(r)
  OBVIOUS
<1>1. TypeOK
  BY DEF LoopInv, IInv
<1>2. /\ entry[p] \in {"init", "protected", "fault"} /\ entry' = [entry EXCEPT ![p] = "loop"]
      /\ UNCHANGED <<state, badge, pending>>
  BY DEF InitReturns, HandlerReturns
<1>3. CASE r # p
  BY <1>1, <1>2, <1>3, OwesTheSame DEF TypeOK
<1>4. CASE r = p
  <2>1. InHand(r) = {} /\ InHand(r)' = {}
    BY <1>1, <1>2, <1>4 DEF InHand, TypeOK
  <2> QED
    BY <1>2, <2>1 DEF Owed, Again
<1> QED
  BY <1>3, <1>4

\* What a step may do to the notifications owed.
KeptStep(p, i) ==
  /\ i \in Owed(p) => i \in Owed(p)' \/ InNotified(p, i)'
  /\ <<p, i>> \in masked' \ masked => i \in Owed(p)'

LEMMA StartKeeps ==
  ASSUME NEW p \in PD, NEW i, StartsNotified(p, i)
  PROVE  \A k \in Owed(p) : k \in Owed(p)' \/ InNotified(p, k)'
BY DEF StartsNotified, Owed, InNotified

LEMMA NextKeepsNotifications ==
  LastIdUnused /\ LoopInv /\ [Next]_vars => \A p \in PD, i \in UsedId : KeptStep(p, i)
<1> SUFFICES ASSUME LastIdUnused, LoopInv, [Next]_vars, NEW q \in PD, NEW k \in UsedId
             PROVE  KeptStep(q, k)
  OBVIOUS
<1>1. ASSUME Owed(q)' = Owed(q), masked' = masked
      PROVE  KeptStep(q, k)
  BY <1>1 DEF KeptStep
<1>2. ASSUME NEW p \in PD, Library(p)
      PROVE  KeptStep(q, k)
  <2>1. masked' = masked
    BY <1>2 DEF Library, Receive, Dispatch, InitReturns, NotifiedReturns, HandlerReturns
  <2>2. CASE Receive(p)
    BY <2>1, <2>2, <1>1, ReceiveOwes
  <2>3. CASE Dispatch(p)
    <3>1. CASE q = p /\ \E i : StartsNotified(p, i)
      BY <2>1, <3>1, StartKeeps DEF KeptStep
    <3>2. CASE Owed(q)' = Owed(q)
      BY <2>1, <3>2, <1>1
    <3> QED
      BY <2>3, <3>1, <3>2, DispatchOwes
  <2>4. CASE NotifiedReturns(p)
    <3>1. CASE q = p /\ \E i : StartsNotified(p, i)
      BY <2>1, <3>1, StartKeeps DEF KeptStep
    <3>2. CASE Owed(q)' = Owed(q)
      BY <2>1, <3>2, <1>1
    <3> QED
      BY <2>4, <3>1, <3>2, NotifiedReturnOwes
  <2>5. CASE InitReturns(p) \/ \E answer \in BOOLEAN : HandlerReturns(p, answer)
    BY <2>1, <2>5, <1>1, ReturnOwes
  <2> QED
    BY <1>2, <2>2, <2>3, <2>4, <2>5 DEF Library
<1>3. ASSUME NEW p \in PD, NEW i \in UsedId, Notify(p, i)
      PROVE  KeptStep(q, k)
  <2>1. masked' = masked /\ entry' = entry
    BY <1>3 DEF Notify
  <2>2. PICK s \in PD, j \in SignalId : Signal(s, NtfnBadge(j))
    BY <1>3, NotifySignals
  <2>3. Owed(s)' = Owed(s) \cup {j} /\ \A r \in PD \ {s} : Owed(r)' = Owed(r)
    BY <2>1, <2>2, SignalOwes
  <2> QED
    BY <2>1, <2>3 DEF KeptStep
<1>4. ASSUME NEW p \in PD, (\E i \in UsedId : PPCall(p, i)) \/ RootPPCall(p) \/ Fault(p)
      PROVE  KeptStep(q, k)
  <2>1. InUserCode(p) /\ masked' = masked /\ entry' = entry /\ pending' = pending
    BY <1>4, CallSends
  <2>2. PICK s \in PD : \E b : BadgeNames(p, s, b) /\ Send(p, s, b)
    BY <1>4, CallSends
  <2> QED
    BY <2>1, <2>2, <1>1, SendOwes
<1>5. ASSUME NEW p \in PD, NEW i \in UsedId, IrqAck(p, i)
      PROVE  KeptStep(q, k)
  <2>1. Owed(q)' = Owed(q)
    BY <1>5, OwesTheSame DEF IrqAck
  <2>2. masked' \subseteq masked
    BY <1>5 DEF IrqAck
  <2> QED
    BY <2>1, <2>2 DEF KeptStep
<1>6. ASSUME NEW p \in PD, NEW i \in UsedId, IrqFire(p, i)
      PROVE  KeptStep(q, k)
  <2>1. i \in SignalId /\ Signal(p, NtfnBadge(i)) /\ entry' = entry
    BY <1>6, IrqSignals
  <2>2. Owed(p)' = Owed(p) \cup {i} /\ \A r \in PD \ {p} : Owed(r)' = Owed(r)
    BY <2>1, SignalOwes
  <2>3. masked' = masked \cup {<<p, i>>}
    BY <1>6, IrqSignals
  <2> QED
    BY <2>2, <2>3 DEF KeptStep
<1>7. CASE UNCHANGED vars
  <2>1. Owed(q)' = Owed(q) /\ masked' = masked
    BY <1>7, OwesTheSame DEF vars
  <2> QED
    BY <2>1, <1>1
<1> QED
  BY <1>2, <1>3, <1>4, <1>5, <1>6, <1>7 DEF Next, User

\* No interleaving of signals, interrupts, receives, calls and the bit loop loses a
\* notification, for any number of PDs and channels: what is owed stays owed until
\* notified runs for it.  The last identifier must be unused.
THEOREM NotificationsAreKept == ASSUME LastIdUnused PROVE Spec => NotificationsKept
<1>1. LoopInv /\ [Next]_vars =>
        [\A p \in PD, i \in UsedId :
           /\ i \in Owed(p) => i \in Owed(p)' \/ InNotified(p, i)'
           /\ <<p, i>> \in masked' \ masked => i \in Owed(p)']_vars
  BY NextKeepsNotifications DEF KeptStep
<1> QED
  BY <1>1, LoopInvariance, PTL DEF Spec, NotificationsKept

-----------------------------------------------------------------------------
(* PDRuntime implements ChannelService: what a step does to the service's variables *)

\* The service sees no step that changes none of its variables.
LEMMA ServiceStutters ==
  ASSUME \A r \in PD : /\ Owed(r)' = Owed(r) /\ Again(r)' = Again(r)
                       /\ Doing(r)' = Doing(r) /\ WaitsFor(r)' = WaitsFor(r)
  PROVE  UNCHANGED Service!vars
BY DEF Service!vars

\* What a PD does for the service changes only with its place in the loop.
LEMMA DoesTheSame ==
  ASSUME NEW r \in PD, entry'[r] = entry[r], haveReply'[r] = haveReply[r],
         state'[r] = "inactive" <=> state[r] = "inactive",
         entry[r] # "dispatch" => badge'[r] = badge[r] /\ reply'[r] = reply[r]
  PROVE  Doing(r)' = Doing(r)
BY DEF Doing, Serving, CallerOf

\* A PD waits for the same answer unless a step blocks or frees it.
LEMMA WaitsTheSame ==
  ASSUME NEW r \in PD, Blocked(r)' <=> Blocked(r), Blocked(r) => call'[r] = call[r]
  PROVE  WaitsFor(r)' = WaitsFor(r)
BY DEF WaitsFor

\* A signal is the service's signal.
LEMMA SignalServes ==
  ASSUME LoopInv, NEW q \in PD, NEW i \in SignalId, Signal(q, NtfnBadge(i)),
         UNCHANGED <<entry, haveReply, reply, call>>
  PROVE  Service!Next
<1>1. TypeOK /\ \A r \in PD : PDInv(r)
  BY DEF LoopInv, IInv
<1>2. ASSUME NEW r \in PD
      PROVE  Doing(r)' = Doing(r) /\ WaitsFor(r)' = WaitsFor(r)
  <2>1. \/ state[r] = "receive" /\ state'[r] = "running"
        \/ state'[r] = state[r] /\ badge'[r] = badge[r]
    BY <1>1, SignalEffect
  <2>2. state[r] = "receive" => entry[r] = "dispatch"
    BY <1>1 DEF PDInv, StopsInUserCode
  <2>3. Doing(r)' = Doing(r)
    BY <2>1, <2>2, DoesTheSame
  <2>4. WaitsFor(r)' = WaitsFor(r)
    BY <2>1, WaitsTheSame DEF Blocked
  <2> QED
    BY <2>3, <2>4
<1>3. /\ Owed(q)' = Owed(q) \cup {i}
      /\ Again(q)' = Again(q) \/ (i \in Owed(q) /\ Again(q)' = Again(q) \cup {i})
      /\ \A r \in PD \ {q} : Owed(r)' = Owed(r) /\ Again(r)' = Again(r)
  BY SignalOwes
<1>4. Service!Signal(q, i)
  BY <1>2, <1>3 DEF Service!Signal
<1>5. i \in UsedId
  BY DEF SignalId
<1> QED
  BY <1>4, <1>5 DEF Service!Next

\* A protected call, a call of the root PD and a fault are the service's call.
LEMMA SendServes ==
  ASSUME LoopInv, NEW p \in PD, NEW q \in PD, NEW b, BadgeNames(p, q, b), Send(p, q, b),
         InUserCode(p), UNCHANGED <<entry, haveReply, pending>>
  PROVE  Service!Next
<1>1. /\ TypeOK /\ (\A r \in PD : PDInv(r)) /\ ReceiverHoldsNobody
      /\ state[p] = "running" /\ entry[p] # "dispatch"
  BY DEF LoopInv, IInv, InUserCode
<1>2. /\ call'[p].to = q
      /\ \A x \in PD \ {p} : call'[x] = call[x]
      /\ \/ /\ state[q] = "receive" /\ p # q
            /\ state'[p] = "reply" /\ state'[q] = "running"
            /\ \A x \in PD \ {p, q} : state'[x] = state[x]
            /\ \A x \in PD \ {q} : badge'[x] = badge[x] /\ reply'[x] = reply[x]
         \/ /\ state[q] # "receive" /\ state'[p] = "send"
            /\ badge' = badge /\ reply' = reply
            /\ \A x \in PD \ {p} : state'[x] = state[x]
  BY <1>1, SendEffect
<1>3. \A r \in PD : Owed(r)' = Owed(r) /\ Again(r)' = Again(r)
  BY SendOwes
<1>4. ASSUME NEW r \in PD
      PROVE  Doing(r)' = Doing(r)
  <2>1. state[r] = "receive" => entry[r] = "dispatch"
    BY <1>1 DEF PDInv, StopsInUserCode
  <2> QED
    BY <1>1, <1>2, <2>1, DoesTheSame
<1>5. WaitsFor(p) = NoPD /\ WaitsFor(p)' = q
  BY <1>1, <1>2 DEF WaitsFor, Blocked
<1>6. ASSUME NEW r \in PD \ {p}
      PROVE  WaitsFor(r)' = WaitsFor(r)
  BY <1>2, WaitsTheSame DEF Blocked
<1>7. Service!Call(p, q)
  BY <1>3, <1>4, <1>5, <1>6 DEF Service!Call
<1> QED
  BY <1>7 DEF Service!Next

\* The ReplyRecv of a PD that owes an answer is the service's answer; other receives the
\* service does not see.
LEMMA ReceiveServes ==
  ASSUME LoopInv, Withholds = {}, NEW p \in PD, Receive(p)
  PROVE  Service!Next \/ UNCHANGED Service!vars
<1>1. ReceiveEffect(p) /\ IInv /\ TypeOK /\ (\A r \in PD : PDInv(r)) /\ NoPD \notin PD
  BY ReceiveHasEffect, SystemAssumption DEF LoopInv, IInv
<1>2. \A r \in PD : Owed(r)' = Owed(r) /\ Again(r)' = Again(r)
  BY ReceiveOwes
<1>3. /\ entry[p] = "loop" /\ entry'[p] = "dispatch" /\ state[p] = "running"
      /\ haveReply[p] <=> reply[p] # NoPD
  BY <1>1 DEF ReceiveEffect, PDInv, HeldWhileServed, AllAnswered
<1>4. Doing(p)' = Service!Idle
  BY <1>3 DEF Doing, Serving, Service!Idle
<1>5. ASSUME NEW r \in PD \ {p}
      PROVE  Doing(r)' = Doing(r)
  <2>1. /\ entry'[r] = entry[r] /\ haveReply'[r] = haveReply[r]
        /\ badge'[r] = badge[r] /\ reply'[r] = reply[r]
    BY <1>1 DEF ReceiveEffect
  <2>2. state[r] # "inactive"
    BY <1>1 DEF PDInv, AllAnswered
  <2>3. r = reply[p] => state'[r] = "running"
    BY <1>1, <1>3 DEF ReceiveEffect
  <2>4. r # reply[p] => state'[r] \in {state[r], "reply"}
    BY <1>1 DEF ReceiveEffect
  <2> QED
    BY <2>1, <2>2, <2>3, <2>4, DoesTheSame
<1>6. ASSUME NEW r \in PD, r # reply[p]
      PROVE  WaitsFor(r)' = WaitsFor(r)
  <2>1. call'[r] = call[r]
    BY <1>1, <1>6 DEF ReceiveEffect
  <2>2. \/ state'[r] = state[r]
        \/ state[r] = "send" /\ state'[r] = "reply"
        \/ state[r] = "running" /\ state'[r] \in {"running", "receive"}
    BY <1>1, <1>6 DEF ReceiveEffect
  <2> QED
    BY <2>1, <2>2, WaitsTheSame DEF Blocked
<1>7. CASE reply[p] = NoPD
  <2>1. Doing(p) = Service!Idle
    BY <1>3, <1>7 DEF Doing, Serving, Service!Idle
  <2> QED
    BY <1>1, <1>2, <1>4, <1>5, <1>6, <1>7, <2>1, ServiceStutters
<1>8. CASE reply[p] # NoPD
  <2>1. PICK h \in PD : h = reply[p]
    BY <1>1, <1>8, HeldIsBlocked
  <2>2. Doing(p).caller = h
    BY <1>3, <1>8, <2>1 DEF Doing, Serving
  <2>3. state'[h] = "running"
    BY <1>1, <1>3, <1>8, <2>1 DEF ReceiveEffect
  <2>4. WaitsFor(h)' = NoPD
    BY <2>3 DEF WaitsFor, Blocked
  <2>5. [r \in PD |-> Doing(r)]' = [[r \in PD |-> Doing(r)] EXCEPT ![p] = Service!Idle]
    BY <1>4, <1>5
  <2>6. [r \in PD |-> WaitsFor(r)]' = [[r \in PD |-> WaitsFor(r)] EXCEPT ![h] = NoPD]
    BY <1>6, <2>1, <2>4
  <2>7. Service!Answer(p)
    BY <1>2, <1>8, <2>1, <2>2, <2>5, <2>6 DEF Service!Answer
  <2> QED
    BY <2>7 DEF Service!Next
<1> QED
  BY <1>7, <1>8

\* The start of notified, after a dispatch or straight after another notified.
LEMMA StartServes ==
  ASSUME NEW p \in PD, NEW i, StartsNotified(p, i), Doing(p).kind \in {"idle", "notified"},
         \A r \in PD \ {p} : /\ Owed(r)' = Owed(r) /\ Again(r)' = Again(r)
                             /\ Doing(r)' = Doing(r),
         \A r \in PD : WaitsFor(r)' = WaitsFor(r)
  PROVE  Service!Next
<1>1. Doing(p)' = Service!Notified(i)
  BY DEF StartsNotified, Doing, Service!Notified
<1>2. /\ i \in UsedId /\ i \in InHand(p) /\ InHand(p)' = InHand(p) \ {i}
      /\ pending'[p] = pending[p]
  BY DEF StartsNotified
<1>3. i \in Owed(p)
  BY <1>2 DEF Owed
<1>4. CASE i \in Again(p)
  <2>1. Owed(p)' = Owed(p) /\ Again(p)' = Again(p) \ {i}
    BY <1>2, <1>4 DEF Owed, Again
  <2> QED
    BY <1>1, <1>2, <1>3, <1>4, <2>1 DEF Service!Next, Service!Notify
<1>5. CASE i \notin Again(p)
  <2>1. Owed(p)' = Owed(p) \ {i} /\ Again(p)' = Again(p)
    BY <1>2, <1>5 DEF Owed, Again
  <2> QED
    BY <1>1, <1>2, <1>3, <1>5, <2>1 DEF Service!Next, Service!Notify
<1> QED
  BY <1>4, <1>5

\* A dispatch starts notified, or protected or fault under the name of the caller held.
LEMMA DispatchServes ==
  ASSUME LoopInv, Withholds = {}, NEW p \in PD, Dispatch(p)
  PROVE  Service!Next
<1>1. TypeOK /\ PDInv(p) /\ IInv
  BY DEF LoopInv, IInv
<1>2. /\ state[p] = "running" /\ entry[p] = "dispatch" /\ state' = state
      /\ entry' = [entry EXCEPT ![p] = EntryPoint(badge[p])]
      /\ UNCHANGED <<badge, haveReply, pending, reply, call>>
  BY DispatchEffect
<1>3. entry'[p] = EntryPoint(badge[p]) /\ \A r \in PD \ {p} : entry'[r] = entry[r]
  BY <1>1, <1>2 DEF TypeOK
<1>4. \A r \in PD \ {p} : Doing(r)' = Doing(r)
  BY <1>2, <1>3, DoesTheSame
<1>5. \A r \in PD : WaitsFor(r)' = WaitsFor(r)
  BY <1>2, WaitsTheSame DEF Blocked
<1>6. \A r \in PD \ {p} : Owed(r)' = Owed(r) /\ Again(r)' = Again(r)
  BY DispatchOwes
<1>7. Doing(p) = Service!Idle
  BY <1>2 DEF Doing, Serving, Service!Idle
<1>8. CASE \E i : StartsNotified(p, i)
  <2>1. Doing(p).kind = "idle"
    BY <1>7 DEF Service!Idle
  <2> QED
    BY <1>4, <1>5, <1>6, <1>8, <2>1, StartServes
<1>9. CASE reply[p] # NoPD /\ Owed(p)' = Owed(p) /\ Again(p)' = Again(p)
  <2>1. PICK h \in PD : h = reply[p] /\ WaitsFor(h) = p
    BY <1>1, <1>9, HeldIsBlocked DEF WaitsFor
  <2>2. badge[p] = call[reply[p]].badge /\ EntryPoint(badge[p]) \in {"protected", "fault"}
    BY <1>9, DispatchEffect
  <2>3. CallerOf(p) \in Names /\ CallerOf(p)[2] = p /\ CallerOf(p)[4] = h
    BY <1>9, <2>1, <2>2, CallerIsNamed
  <2>4. PICK k \in {"protected", "root", "fault"}, n \in UsedId :
          CallerOf(p) = <<k, p, n, h>>
    BY <2>3 DEF Names
  <2>5. CallerOf(p)' = CallerOf(p) /\ reply'[p] = h /\ state'[p] # "inactive"
    BY <1>2, <2>1 DEF CallerOf
  <2>6. Serving(p)' /\ entry'[p] # "notified"
    BY <1>2, <1>3, <2>2, <2>5 DEF Serving
  <2>7. Doing(p)' = [kind |-> k, id |-> n, caller |-> h]
    BY <2>4, <2>5, <2>6 DEF Doing
  <2>8. Service!Serve(p, h, k, n)
    BY <1>4, <1>5, <1>6, <1>7, <1>9, <2>1, <2>3, <2>4, <2>7 DEF Service!Serve, Service!Serving
  <2> QED
    BY <2>8 DEF Service!Next
<1> QED
  BY <1>8, <1>9, DispatchOwes

\* notified returns: the next notified starts, or the PD is done.
LEMMA NotifiedReturnServes ==
  ASSUME LoopInv, NEW p \in PD, NotifiedReturns(p)
  PROVE  Service!Next
<1>1. TypeOK
  BY DEF LoopInv, IInv
<1>2. /\ entry[p] = "notified" /\ UNCHANGED <<state, haveReply, reply, call>>
      /\ \A r \in PD \ {p} : entry'[r] = entry[r] /\ badge'[r] = badge[r]
  BY <1>1 DEF NotifiedReturns, TypeOK
<1>3. \A r \in PD \ {p} : Doing(r)' = Doing(r)
  BY <1>2, DoesTheSame
<1>4. \A r \in PD : WaitsFor(r)' = WaitsFor(r)
  BY <1>2, WaitsTheSame DEF Blocked
<1>5. Doing(p).kind = "notified"
  BY <1>2 DEF Doing
<1>6. /\ haveReply[p] = FALSE
      /\ \A r \in PD \ {p} : Owed(r)' = Owed(r) /\ Again(r)' = Again(r)
  BY NotifiedReturnOwes
<1>7. CASE \E i : StartsNotified(p, i)
  BY <1>3, <1>4, <1>5, <1>6, <1>7, StartServes
<1>8. CASE entry'[p] = "loop" /\ Owed(p)' = Owed(p) /\ Again(p)' = Again(p)
  <2>1. Doing(p)' = Service!Idle
    BY <1>2, <1>6, <1>8 DEF Doing, Serving, Service!Idle
  <2>2. Service!Finish(p)
    BY <1>3, <1>4, <1>5, <1>6, <1>8, <2>1 DEF Service!Finish
  <2> QED
    BY <2>2 DEF Service!Next
<1> QED
  BY <1>7, <1>8, NotifiedReturnOwes

\* The return of init, and of a handler whose answer is still to be sent, are not seen.
LEMMA ReturnStutters ==
  ASSUME LoopInv, Withholds = {}, NEW p \in PD,
         InitReturns(p) \/ \E answer \in BOOLEAN : HandlerReturns(p, answer)
  PROVE  UNCHANGED Service!vars
<1>1. TypeOK /\ PDInv(p)
  BY DEF LoopInv, IInv
<1>2. /\ UNCHANGED <<state, badge, pending, reply, call>> /\ state[p] = "running"
      /\ entry' = [entry EXCEPT ![p] = "loop"]
  BY DEF InitReturns, HandlerReturns
<1>3. \A r \in PD \ {p} : entry'[r] = entry[r] /\ haveReply'[r] = haveReply[r]
  BY <1>1 DEF InitReturns, HandlerReturns, TypeOK
<1>4. \A r \in PD \ {p} : Doing(r)' = Doing(r)
  BY <1>2, <1>3, DoesTheSame
<1>5. \A r \in PD : WaitsFor(r)' = WaitsFor(r)
  BY <1>2, WaitsTheSame DEF Blocked
<1>6. \A r \in PD : Owed(r)' = Owed(r) /\ Again(r)' = Again(r)
  BY ReturnOwes
<1>7. entry'[p] = "loop"
  BY <1>1, <1>2 DEF TypeOK
<1>8. CASE InitReturns(p)
  <2>1. entry[p] = "init" /\ haveReply[p] = FALSE /\ haveReply'[p] = FALSE
    BY <1>1, <1>8 DEF InitReturns, PDInv, HeldWhileServed, TypeOK
  <2>2. Doing(p)' = Doing(p)
    BY <1>7, <2>1 DEF Doing, Serving
  <2> QED
    BY <1>4, <1>5, <1>6, <2>2, ServiceStutters
<1>9. CASE \E answer \in BOOLEAN : HandlerReturns(p, answer)
  <2>1. entry[p] \in {"protected", "fault"} /\ haveReply'[p] = TRUE
    BY <1>1, <1>9 DEF HandlerReturns, TypeOK
  <2>2. Serving(p) /\ Serving(p)' /\ entry[p] # "notified" /\ entry'[p] # "notified"
    BY <1>2, <1>7, <2>1 DEF Serving
  <2>3. CallerOf(p)' = CallerOf(p)
    BY <1>2 DEF CallerOf
  <2>4. Doing(p)' = Doing(p)
    BY <1>2, <2>2, <2>3 DEF Doing
  <2> QED
    BY <1>4, <1>5, <1>6, <2>4, ServiceStutters
<1> QED
  BY <1>8, <1>9

-----------------------------------------------------------------------------
(* The refinement *)

LEMMA InitServes == Init => Service!Init
<1> SUFFICES ASSUME Init
             PROVE  Service!Init
  OBVIOUS
<1>1. ASSUME NEW p \in PD
      PROVE  /\ Owed(p) = {} /\ Again(p) = {} /\ Doing(p) = Service!Idle
             /\ WaitsFor(p) = NoPD
  <2>1. state[p] = "running" /\ entry[p] = "init" /\ pending[p] = {}
    BY DEF Init
  <2>2. InHand(p) = {}
    BY <2>1 DEF InHand
  <2> QED
    BY <2>1, <2>2 DEF Owed, Again, Doing, Serving, WaitsFor, Blocked, Service!Idle
<1> QED
  BY <1>1 DEF Service!Init

LEMMA NextServes ==
  LastIdUnused /\ Withholds = {} /\ LoopInv /\ [Next]_vars => [Service!Next]_(Service!vars)
<1> SUFFICES ASSUME LastIdUnused, Withholds = {}, LoopInv, [Next]_vars
             PROVE  Service!Next \/ UNCHANGED Service!vars
  OBVIOUS
<1>1. ASSUME NEW p \in PD, Library(p)
      PROVE  Service!Next \/ UNCHANGED Service!vars
  BY <1>1, ReceiveServes, DispatchServes, NotifiedReturnServes, ReturnStutters DEF Library
<1>2. ASSUME NEW p \in PD, NEW i \in UsedId, Notify(p, i)
      PROVE  Service!Next
  BY <1>2, NotifySignals, SignalServes
<1>3. ASSUME NEW p \in PD, (\E i \in UsedId : PPCall(p, i)) \/ RootPPCall(p) \/ Fault(p)
      PROVE  Service!Next
  BY <1>3, CallSends, SendServes
<1>4. ASSUME UNCHANGED <<state, entry, badge, haveReply, pending, reply, call>>
      PROVE  UNCHANGED Service!vars
  <2>1. ASSUME NEW r \in PD
        PROVE  /\ Owed(r)' = Owed(r) /\ Again(r)' = Again(r)
               /\ Doing(r)' = Doing(r) /\ WaitsFor(r)' = WaitsFor(r)
    BY <1>4, OwesTheSame, DoesTheSame, WaitsTheSame DEF Blocked
  <2> QED
    BY <2>1, ServiceStutters
<1>5. ASSUME NEW p \in PD, NEW i \in UsedId, IrqAck(p, i)
      PROVE  UNCHANGED Service!vars
  BY <1>4, <1>5 DEF IrqAck
<1>6. ASSUME NEW p \in PD, NEW i \in UsedId, IrqFire(p, i)
      PROVE  Service!Next
  BY <1>6, IrqSignals, SignalServes
<1>7. CASE UNCHANGED vars
  BY <1>4, <1>7 DEF vars
<1> QED
  BY <1>1, <1>2, <1>3, <1>5, <1>6, <1>7 DEF Next, User

\* The run-time is the service the manual describes, for every description whose last
\* identifier is unused and every program whose handlers answer: each step of a PD, of
\* the kernel or of a device is one step of the service, or none.
THEOREM RuntimeImplementsService ==
  ASSUME LastIdUnused, Withholds = {}
  PROVE  Spec => ImplementsService
<1>1. Init => Service!Init
  BY InitServes
<1>2. LoopInv /\ [Next]_vars => [Service!Next]_(Service!vars)
  BY NextServes
<1> QED
  BY <1>1, <1>2, LoopInvariance, PTL DEF Spec, ImplementsService, Service!Spec
=============================================================================

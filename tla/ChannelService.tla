--------------------------- MODULE ChannelService ---------------------------
(***************************************************************************)
(* What the platform promises the programmer of a protection domain (PD),  *)
(* with no kernel object in sight.  Every signal is followed by a call of  *)
(* `notified` with its identifier, signals of one identifier may share a   *)
(* call, and there is never a call without a signal.  A protected          *)
(* procedure call blocks the caller until the callee, having run           *)
(* `protected` (or `fault`) for that very caller, answers it.              *)
(* PDRuntime implements it.                                                *)
(***************************************************************************)
EXTENDS Integers

CONSTANTS
  PD,               \* the protection domains
  NoPD,             \* "nobody"
  Id,               \* channel identifiers and child numbers
  Names             \* the <<kind, q, id, p>> where id is q's name for p under that kind

VARIABLES
  owed,   \* owed[p]: the identifiers signalled to p whose `notified` has not run yet
  again,  \* again[p]: those of owed[p] whose `notified` is due twice
  doing,  \* doing[p]: the entry point p is in because of an event, or Idle
  waits   \* waits[p]: the PD whose answer p is blocked for, or NoPD

vars == <<owed, again, doing, waits>>

Idle == [kind |-> "idle", id |-> 0, caller |-> NoPD]
Notified(i) == [kind |-> "notified", id |-> i, caller |-> NoPD]
Serving(kind, i, p) == [kind |-> kind, id |-> i, caller |-> p]

Init ==
  /\ owed = [p \in PD |-> {}]
  /\ again = [p \in PD |-> {}]
  /\ doing = [p \in PD |-> Idle]
  /\ waits = [p \in PD |-> NoPD]

\* A notification or an interrupt.  A second one may or may not share the call that is
\* already due, a third one always shares.
Signal(p, i) ==
  /\ owed' = [owed EXCEPT ![p] = @ \cup {i}]
  /\ \/ UNCHANGED again
     \/ i \in owed[p] /\ again' = [again EXCEPT ![p] = @ \cup {i}]
  /\ UNCHANGED <<doing, waits>>

\* notified(i) starts, possibly straight after another notified returned.
Notify(p, i) ==
  /\ doing[p].kind \in {"idle", "notified"}
  /\ i \in owed[p]
  /\ IF i \in again[p]
     THEN again' = [again EXCEPT ![p] = @ \ {i}] /\ UNCHANGED owed
     ELSE owed' = [owed EXCEPT ![p] = @ \ {i}] /\ UNCHANGED again
  /\ doing' = [doing EXCEPT ![p] = Notified(i)]
  /\ UNCHANGED waits

Finish(p) ==
  /\ doing[p].kind = "notified"
  /\ doing' = [doing EXCEPT ![p] = Idle]
  /\ UNCHANGED <<owed, again, waits>>

\* p calls q, or faults and thereby calls q.
Call(p, q) ==
  /\ waits[p] = NoPD
  /\ waits' = [waits EXCEPT ![p] = q]
  /\ UNCHANGED <<owed, again, doing>>

\* q starts `protected` or `fault` for p, and is told its own name for p.
Serve(q, p, kind, i) ==
  /\ doing[q] = Idle
  /\ waits[p] = q
  /\ <<kind, q, i, p>> \in Names
  /\ doing' = [doing EXCEPT ![q] = Serving(kind, i, p)]
  /\ UNCHANGED <<owed, again, waits>>

\* Only the PD that served the call answers it, once, to the one who made it.
Answer(q) ==
  /\ doing[q].caller # NoPD
  /\ doing' = [doing EXCEPT ![q] = Idle]
  /\ waits' = [waits EXCEPT ![doing[q].caller] = NoPD]
  /\ UNCHANGED <<owed, again>>

Next ==
  \/ \E p \in PD, i \in Id : Signal(p, i) \/ Notify(p, i)
  \/ \E p \in PD : Finish(p) \/ Answer(p)
  \/ \E p, q \in PD : Call(p, q)
  \/ \E p, q \in PD, i \in Id, k \in {"protected", "root", "fault"} : Serve(q, p, k, i)

Spec == Init /\ [][Next]_vars
=============================================================================

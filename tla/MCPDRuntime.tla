----------------------------- MODULE MCPDRuntime -----------------------------
(* Instances of PDRuntime for TLC: small system descriptions and user programs. *)
EXTENDS PDRuntime, TLC

CONSTANTS app, cli, srv, drv

\* A server with a child (app), a client (cli) and a driver (drv) it calls itself.
\* app and cli compete for srv's endpoint; app has two interrupts.
TreePD == {app, cli, srv, drv}
TreePriority == (app :> 1) @@ (cli :> 1) @@ (srv :> 2) @@ (drv :> 3)
TreeParent == (app :> srv) @@ (cli :> NoPD) @@ (srv :> NoPD) @@ (drv :> NoPD)
TreePdId == [p \in TreePD |-> 0]
TreeChannel == {<<cli, 0, srv, 61>>, <<srv, 3, drv, 5>>}
TreeIrq == {<<app, 0>>, <<app, 7>>}
TreeNotifies == {<<srv, 61>>, <<drv, 5>>}
TreeCalls == {<<cli, 0>>, <<srv, 3>>}

\* The same description with less going on, for liveness and refinement.  Nothing
\* signals srv: a PD takes its notifications before any caller, so that signals without
\* end starve its callers.
OneIrq == {<<app, 7>>}
OutNotifies == {<<srv, 61>>}

\* Two PDs that provide a protected procedure to each other: xml2channel and the channel
\* loop of the tool accept it whatever their priorities.
PairPD == {app, srv}
PairPriority == (app :> 1) @@ (srv :> 2)
PairParent == [p \in PairPD |-> NoPD]
PairPdId == [p \in PairPD |-> 0]
PairChannel == {<<app, 0, srv, 1>>}
PairCalls == {<<app, 0>>, <<srv, 1>>}

\* The highest identifier that xml2channel accepts.
LastChannel == {<<app, 0, srv, 62>>}
LastNotifies == {<<app, 0>>}
=============================================================================

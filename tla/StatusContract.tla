--------------------------- MODULE StatusContract ---------------------------
(***************************************************************************)
(* What the master relies on when it reads the status of an AdvDeployment, *)
(* and what the worker that writes it has to keep: the contract between    *)
(* the two controllers. AdvWorker keeps it (StatusKeepsEdits); AppSetMaster *)
(* (Report) and AppSetAbs assume no more.                                  *)
(***************************************************************************)
EXTENDS Naturals

\* stepUpdateStatus: what a status may say of an AdvDeployment whose stored
\* generation is gen. Generations of workloads that are not all observed leave
\* it at the one before, and then it does not say Running.
MayReport(gen, obs, phase) ==
    /\ phase \in {"Installing", "Running"}
    /\ obs = gen \/ (obs + 1 = gen /\ phase = "Installing")
=============================================================================

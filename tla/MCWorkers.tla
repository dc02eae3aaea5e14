------------------------------ MODULE MCWorkers ------------------------------
(***************************************************************************)
(* An OpenShell task of the broker, the native worker of one binding, and  *)
(* the preparation of a runtime pair, in one instance for TLC.  The parts  *)
(* share no state: a behaviour is one of the part it begins with, and the  *)
(* others stay as they are.                                                *)
(***************************************************************************)
EXTENDS OpenShellBinding, NativeWorker, Provision

VARIABLE part   \* which part runs

taskVars == vars

\* One Pod stands for the two.
MCResources == <<"sandbox", "pod">>

PartsTypeOK ==
  /\ part = "task" => TypeOK
  /\ part = "worker" => WorkerTypeOK
  /\ part = "provision" => ProvisionTypeOK

PartsInit ==
  /\ part \in {"task", "worker", "provision"}
  /\ Init /\ WorkerInit /\ ProvisionInit
  /\ part # "provision" => filled = {}

PartsNext ==
  /\ UNCHANGED part
  /\ \/ part = "task" /\ Next /\ UNCHANGED <<workerVars, provisionVars>>
     \/ part = "worker" /\ WorkerNext /\ UNCHANGED <<taskVars, provisionVars>>
     \/ part = "provision" /\ ProvisionNext /\ UNCHANGED <<taskVars, workerVars>>

\* Nothing that fairness asks for is enabled in the first state.
PartsSpec ==
  /\ PartsInit /\ [][PartsNext]_<<taskVars, workerVars, provisionVars, part>>
  /\ Fairness
=============================================================================

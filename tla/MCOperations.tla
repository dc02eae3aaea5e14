---------------------------- MODULE MCOperations ----------------------------
(***************************************************************************)
(* Eleven parts around the runtimes, none of which reads the state of      *)
(* another, in one instance for TLC: a behaviour is one of the part it     *)
(* begins with, and the others stay as they are.                           *)
(***************************************************************************)
EXTENDS Accounts, ModelGuard, Packages, Jupyter, SDKChannel, Rollout,
        Copies, ClientLayer, ClientBoot, SignupPool, TLC

CONSTANTS l1, l2   \* two launchers of the model guard

VARIABLE part      \* which part runs

\* The launcher and a resume of the same task with another cap.
MCGuardCap == l1 :> 1 @@ l2 :> 2

OperationsTypeOK ==
  /\ part = "accounts" => AccountsTypeOK
  /\ part = "guard" => GuardTypeOK
  /\ part = "packages" => PackagesTypeOK
  /\ part = "jupyter" => JupyterTypeOK
  /\ part = "channel" => ChannelTypeOK
  /\ part = "rollout" => RolloutTypeOK
  /\ part \in {"promotion", "reconcile"} => CopiesTypeOK
  /\ part = "client" => ClientTypeOK
  /\ part = "boot" => BootTypeOK
  /\ part = "pool" => PoolTypeOK

(* One beginning of the copies will do where they do not run.              *)
Init ==
  /\ part \in {"accounts", "guard", "packages", "jupyter", "channel", "rollout",
              "promotion", "reconcile", "client", "boot", "pool"}
  /\ AccountsInit /\ GuardInit /\ PackagesInit /\ JupyterInit /\ ChannelInit
  /\ RolloutInit /\ CopiesInit /\ ClientInit /\ BootInit /\ PoolInit
  /\ part # "promotion" =>
       manifest = CHOOSE m \in [Jobs -> [Artifacts -> Contents]] : TRUE
  /\ part # "reconcile" =>
       /\ local = CHOOSE c \in [Files -> Contents] : TRUE
       /\ central = [f \in Files |-> NoCopy]

Next ==
  /\ UNCHANGED part
  /\ \/ /\ part = "accounts" /\ AccountsNext
        /\ UNCHANGED <<guardVars, packageVars, jupyterVars, channelVars,
                       rolloutVars, promotionVars, reconcileVars, clientVars,
                       bootVars, poolVars>>
     \/ /\ part = "guard" /\ GuardNext
        /\ UNCHANGED <<accountVars, packageVars, jupyterVars, channelVars,
                       rolloutVars, promotionVars, reconcileVars, clientVars,
                       bootVars, poolVars>>
     \/ /\ part = "packages" /\ PackagesNext
        /\ UNCHANGED <<accountVars, guardVars, jupyterVars, channelVars,
                       rolloutVars, promotionVars, reconcileVars, clientVars,
                       bootVars, poolVars>>
     \/ /\ part = "jupyter" /\ JupyterNext
        /\ UNCHANGED <<accountVars, guardVars, packageVars, channelVars,
                       rolloutVars, promotionVars, reconcileVars, clientVars,
                       bootVars, poolVars>>
     \/ /\ part = "channel" /\ ChannelNext
        /\ UNCHANGED <<accountVars, guardVars, packageVars, jupyterVars,
                       rolloutVars, promotionVars, reconcileVars, clientVars,
                       bootVars, poolVars>>
     \/ /\ part = "rollout" /\ RolloutNext
        /\ UNCHANGED <<accountVars, guardVars, packageVars, jupyterVars,
                       channelVars, promotionVars, reconcileVars, clientVars,
                       bootVars, poolVars>>
     \/ /\ part = "promotion" /\ PromotionNext
        /\ UNCHANGED <<accountVars, guardVars, packageVars, jupyterVars,
                       channelVars, rolloutVars, reconcileVars, clientVars,
                       bootVars, poolVars>>
     \/ /\ part = "reconcile" /\ ReconcileNext
        /\ UNCHANGED <<accountVars, guardVars, packageVars, jupyterVars,
                       channelVars, rolloutVars, promotionVars, clientVars,
                       bootVars, poolVars>>
     \/ /\ part = "client" /\ ClientNext
        /\ UNCHANGED <<accountVars, guardVars, packageVars, jupyterVars,
                       channelVars, rolloutVars, promotionVars, reconcileVars,
                       bootVars, poolVars>>
     \/ /\ part = "boot" /\ BootNext
        /\ UNCHANGED <<accountVars, guardVars, packageVars, jupyterVars,
                       channelVars, rolloutVars, promotionVars, reconcileVars,
                       clientVars, poolVars>>
     \/ /\ part = "pool" /\ PoolNext
        /\ UNCHANGED <<accountVars, guardVars, packageVars, jupyterVars,
                       channelVars, rolloutVars, promotionVars, reconcileVars,
                       clientVars, bootVars>>

vars == <<accountVars, guardVars, packageVars, jupyterVars, channelVars,
          rolloutVars, promotionVars, reconcileVars, clientVars, bootVars,
          poolVars, part>>

Spec == Init /\ [][Next]_vars
=============================================================================

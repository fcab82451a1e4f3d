------------------------------ MODULE Deployment ------------------------------
(***************************************************************************)
(* contracts/scripts/deploy.sh: the deployer deploys the three contracts   *)
(* and wires them together, one transaction per step; the script runs      *)
(* under `set -e`, so an interrupted one stays where it is.  The ids reach *)
(* the users' .env in the last step; from then on they call the contracts. *)
(***************************************************************************)
EXTENDS RetirementVerifier

CONSTANT Deployer  \* the account behind DEPLOYER_SECRET_KEY

VARIABLE step      \* the script's progress

deployVars == <<vars, step>>

Steps == <<"nullifier_registry", "credit_registry", "retirement_verifier",
           "set_verifier", "env", "done">>

DeployInit == Init /\ step = 1

At(name) == Steps[step] = name /\ step' = step + 1

(* Step 4: NullifierRegistry.initialize is passed the deployer's key. *)
InitializeNullifierRegistry ==
  /\ At("nullifier_registry")
  /\ NRInitialize(Deployer)

(* Step 5. *)
InitializeCreditRegistry ==
  /\ At("credit_registry")
  /\ CRInitialize(Deployer)

(* Step 6: the verification key and the two registries' ids. *)
InitializeRetirementVerifier ==
  /\ At("retirement_verifier")
  /\ Initialize

(* Step 6, end: the credit registry is told who may burn. *)
SetCreditVerifier ==
  /\ At("set_verifier")
  /\ SetVerifier(Self, Deployer)

(* Step 7: the ids are written to .env. *)
PublishIds ==
  /\ At("env")
  /\ UNCHANGED vars

(* The calls that need the published ids. *)
Use ==
  /\ Steps[step] = "done"
  /\ UNCHANGED step
  /\ \/ \E enabled \in BOOLEAN : SetTestMode(enabled)
     \/ \E to \in Account : IssueCredit(to, Deployer)
     \/ \E t \in 1..MaxCredits, from, to \in Account : TransferCredit(t, to, from)
     \/ \E n \in Nullifier, c \in Corridor, t \in 1..MaxCredits, owner \in Account :
          VerifyRetirement(n, c, t, owner, owner)
     \/ \E n \in Nullifier : DirectRecord(n, Deployer)

DeployNext ==
  \/ InitializeNullifierRegistry
  \/ InitializeCreditRegistry
  \/ InitializeRetirementVerifier
  \/ SetCreditVerifier
  \/ PublishIds
  \/ Use

DeploySpec == DeployInit /\ [][DeployNext]_deployVars

--------------------------------------------------------------------------------
(* Once deployed, in test mode, the holder of a live credit can retire it  *)
(* with a fresh nullifier: contracts/README.md ends its deploy order with  *)
(* NullifierRegistry.initialize(RetirementVerifier ID), for record answers *)
(* to that address alone.                                                  *)
DeployedRetires ==
  Steps[step] = "done" /\ testMode =>
    \A t \in DOMAIN credits, n \in Nullifier :
      ~credits[t].is_retired /\ n \notin used =>
        VerifyReturnsTrue(TRUE, n, t, credits[t].owner, credits[t].owner)
================================================================================

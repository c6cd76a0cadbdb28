---------------------- MODULE ManifestServiceConstants ----------------------
(***************************************************************************)
(* The parameters of ManifestService and what its proofs assume of them.   *)
(***************************************************************************)
EXTENDS Naturals

CONSTANTS
  Deployments,
  LeaseIDs,
  DeploymentOf,   \* the deployment of a lease
  Submits,       \* calls of Submit
  TargetOf,       \* the deployment of a request
  None

ASSUME DeploymentAssumption ==
  DeploymentOf \in [LeaseIDs -> Deployments] /\ TargetOf \in [Submits -> Deployments]

ASSUME NoneAssumption == None \notin LeaseIDs
=============================================================================

--------------------------- MODULE MCDeployment ---------------------------
(* Runs of the releases of MODULE MCReleases. *)
EXTENDS MCReleases, Deployment
=============================================================================

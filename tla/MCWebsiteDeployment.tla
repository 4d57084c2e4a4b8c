------------------------ MODULE MCWebsiteDeployment ------------------------
(***************************************************************************)
(* WebsiteDeployment for TLC: a handful of releases, the smallest legal    *)
(* retention.                                                              *)
(***************************************************************************)
EXTENDS WebsiteDeployment
=============================================================================

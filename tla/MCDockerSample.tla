--------------------------- MODULE MCDockerSample ---------------------------
(* Instances of DockerSample for TLC.                                      *)
EXTENDS DockerSample

CONSTANTS f1, f2, none
=============================================================================

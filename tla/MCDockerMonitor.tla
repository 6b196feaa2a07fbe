-------------------------- MODULE MCDockerMonitor ---------------------------
(* Instances of DockerMonitor for TLC.                                     *)
EXTENDS DockerMonitor

EveryOp == {"refresh", "action", "remove", "logs", "project", "startService", "stopService"}
=============================================================================

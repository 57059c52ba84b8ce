--------------------------- MODULE MCDockerReboot ---------------------------
EXTENDS DockerReboot
=============================================================================

---------------------------- MODULE MCCredentials ----------------------------
\* Instances of DeviceCredentials for TLC.
EXTENDS DeviceCredentials

NoFaults    == {}
LostAnswers == {"noAnswer"}
=============================================================================

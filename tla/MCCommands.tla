------------------------------ MODULE MCCommands ------------------------------
\* Instances of EndpointCommands for TLC.
EXTENDS EndpointCommands

Inventory == <<"INVENTORY_REFRESH">>
=============================================================================

------------------------- MODULE MCMachineTerminal -------------------------
EXTENDS MachineTerminal
=============================================================================

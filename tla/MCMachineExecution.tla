------------------------- MODULE MCMachineExecution -------------------------
EXTENDS MachineExecution
=============================================================================

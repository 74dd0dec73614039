------------------------------ MODULE MCIrqRace -----------------------------
EXTENDS IrqRace
=============================================================================

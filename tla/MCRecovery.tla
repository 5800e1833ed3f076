------------------------------ MODULE MCRecovery -----------------------------
EXTENDS Recovery
Calm == [delay |-> 1, cap |-> 2, max |-> 2, window |-> 4, strikes |-> 0]
Struck == [delay |-> 1, cap |-> 1, max |-> 1, window |-> 0, strikes |-> 1]
MCKnobs == {Calm, Struck}
=============================================================================

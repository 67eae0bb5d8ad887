---- MODULE MCSlots ----
EXTENDS Slots
SeatChanges == {-1, 1}
====

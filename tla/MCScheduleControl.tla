------------------------- MODULE MCScheduleControl -------------------------
EXTENDS ScheduleControl

\* One definition is due every minute, the other ones at minute 3.
DueMinutes == [d \in Definitions |->
    IF d = CHOOSE e \in Definitions : TRUE THEN Minutes \ {0} ELSE Minutes \cap {3}]
=============================================================================

--------------------------- MODULE MCScheduleLoop ---------------------------
\* ScheduleLoop for TLC: two DAGs, days of two ticks, and schedules for the
\* first of them or for none.
EXTENDS ScheduleLoop

CONSTANTS a, b

mcDags == {a, b}
mcCrons == {{0}, {}}

=============================================================================

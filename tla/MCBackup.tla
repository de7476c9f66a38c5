------------------------------- MODULE MCBackup -------------------------------
\* Four downloads for two turns and one place in the queue: two work, one waits and may leave before or
\* after it was given its turn, and the fourth is refused or takes a place that came free.
EXTENDS Backup
================================================================================

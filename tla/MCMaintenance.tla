--------------------------- MODULE MCMaintenance ----------------------------
\* An instance of Maintenance for TLC: a short-lived and longer-lived types.
EXTENDS Maintenance

CONSTANTS url

StaleDays == [i \in IOCs |-> IF i = url THEN 1 ELSE 2]
MinScore == [i \in IOCs |-> IF i = url THEN 1 ELSE MaxScore]
=============================================================================

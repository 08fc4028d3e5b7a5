----------------------------- MODULE MCIocLife ------------------------------
\* An instance of IocLife for TLC: every type is stale after a day.
EXTENDS IocLife

StaleDays == [i \in IOCs |-> 1]
MinScore == [i \in IOCs |-> 1]
=============================================================================

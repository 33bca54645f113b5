------------------------------ MODULE MCDeparture ------------------------------
\* Two passengers, one of them from the counter, two requests and a worker.
EXTENDS Departure
================================================================================

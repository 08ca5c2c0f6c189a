----------------------------- MODULE MCFlights ------------------------------
EXTENDS Flights

FullLogs == {[dated |-> TRUE, counter |-> TRUE, flight |-> TRUE]}

=============================================================================

---------------------------- MODULE MCComparison ----------------------------
EXTENDS Comparison

\* The main executable and a library above it.
MCImages == { [main |-> TRUE,  low |-> 4, high |-> 6],
              [main |-> FALSE, low |-> 7, high |-> 9] }

MCAddresses == {4, 6, 7}
=============================================================================

-------------------------- MODULE MCCustomerRefresh --------------------------
EXTENDS CustomerRefresh, TLC

\* Invocations are interchangeable; used in the safety run only.
Interchangeable == Permutations(Consumers)
=============================================================================

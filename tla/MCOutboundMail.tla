--------------------------- MODULE MCOutboundMail ---------------------------
EXTENDS OutboundMail, TLC

\* Invocations are interchangeable; used in the safety runs only.
Interchangeable == Permutations(Consumers)
=============================================================================

---------------------------- MODULE MCInboundMail ----------------------------
EXTENDS InboundMail, TLC

CONSTANTS d1, d2, support, sales

OneInbox == d1 :> support @@ d2 :> support
OneDelivery == d1 :> support
TwoInboxes == d1 :> support @@ d2 :> sales

\* Invocations are interchangeable; used in the safety runs only.
Interchangeable == Permutations(Consumers)
=============================================================================

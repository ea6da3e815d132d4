----------------------------- MODULE MCTdSync -----------------------------
EXTENDS TdSync

\* Constants of the instances that a cfg cannot write.
OneOrder == {1}
NoOrders == {}
=============================================================================

---------------------------- MODULE MCDataExchange ----------------------------
EXTENDS DataExchange, TLC

CONSTANTS o1, o2, b1

TwoObjects == {o1, o2}
OneBarcode == {b1}
OwnerOfAll == b1 :> o1
=============================================================================

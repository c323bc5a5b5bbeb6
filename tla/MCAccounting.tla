---------------------------- MODULE MCAccounting ----------------------------
EXTENDS Accounting

MCPrices == {2, 3, 7}
MCQuantities == 0..3
=============================================================================

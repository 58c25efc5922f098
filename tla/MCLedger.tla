------------------------------ MODULE MCLedger ------------------------------
EXTENDS Ledger
=============================================================================

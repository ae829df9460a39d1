------------------------------- MODULE MCLease -------------------------------
EXTENDS Lease
CONSTANTS o1, o2, o3
===============================================================================

----------------------------- MODULE MCSupervisor -----------------------------
EXTENDS Supervisor
CONSTANTS o1, o2, o3
===============================================================================

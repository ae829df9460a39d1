------------------------------ MODULE MCSessions ------------------------------
EXTENDS Sessions
CONSTANTS s1, s2, s3
===============================================================================

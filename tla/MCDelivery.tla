------------------------------ MODULE MCDelivery ------------------------------
EXTENDS Delivery
CONSTANTS th1, th2
===============================================================================

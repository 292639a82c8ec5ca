------------------------------ MODULE MCDelivery ------------------------------
EXTENDS Delivery
CONSTANTS r1, r2, i1
MCRequests == {r1, r2}
MCIds == {i1}
=============================================================================

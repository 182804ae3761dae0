--------------------------- MODULE MCTokenRotation ---------------------------
EXTENDS TokenRotation
===============================================================================

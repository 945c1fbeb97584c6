--------------------------- MODULE MCStaffSession ---------------------------
EXTENDS StaffSession

CONSTANTS s1, s2
=============================================================================

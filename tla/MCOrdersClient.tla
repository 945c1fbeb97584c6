--------------------------- MODULE MCOrdersClient ---------------------------
EXTENDS OrdersClient

CONSTANTS anna, guest, soup, t1
=============================================================================

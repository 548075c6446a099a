------------------------------- MODULE MCGuard -------------------------------
EXTENDS Guard
=============================================================================

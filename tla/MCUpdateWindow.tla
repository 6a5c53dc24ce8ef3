---------------------------- MODULE MCUpdateWindow ----------------------------
EXTENDS UpdateWindow
=============================================================================

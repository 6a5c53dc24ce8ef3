----------------------------- MODULE MCGuiProcess -----------------------------
(* Two processes, which is one more than there should be at a time.        *)
EXTENDS GuiProcess
=============================================================================

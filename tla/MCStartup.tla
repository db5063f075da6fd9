----------------------------- MODULE MCStartup -----------------------------
EXTENDS Startup

CONSTANTS rsp0, rsp1, val

MCSlots == <<rsp0, rsp1>>
=============================================================================

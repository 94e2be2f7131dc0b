----------------------------- MODULE MCSpiLink -----------------------------
(* Values for the parameters of SpiLink: the race windows of the driver.     *)
EXTENDS SpiLinkInv

NoWindow == {}
AllWindows == PollWindow \cup ArmWindow \cup FlagWindow \cup HandlerWindow
AllButArm     == AllWindows \ {"arm"}
AllButHandler == AllWindows \ HandlerWindow
=============================================================================

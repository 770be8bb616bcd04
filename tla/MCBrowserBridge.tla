--------------------------- MODULE MCBrowserBridge ---------------------------
(* Small instances of BrowserBridge.                                       *)
EXTENDS BrowserBridge, TLC
=============================================================================

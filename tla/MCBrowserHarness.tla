-------------------------- MODULE MCBrowserHarness --------------------------
(* Small instances of BrowserHarness for TLC. *)
EXTENDS BrowserHarness
=============================================================================

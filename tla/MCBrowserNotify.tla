-------------------------- MODULE MCBrowserNotify --------------------------
EXTENDS BrowserNotify
CONSTANTS k1, k2, t1, t2
=============================================================================

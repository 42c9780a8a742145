----------------------- MODULE MCBrowserPeerTransport -----------------------
(* Small instances of BrowserPeerTransport. *)
EXTENDS BrowserPeerTransport

=============================================================================

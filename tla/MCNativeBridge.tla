--------------------------- MODULE MCNativeBridge ---------------------------
(* Instances of NativeBridge for TLC.  Of the other names one is shorter    *)
(* than likeread's, one the longest that fits the buffer, one does not fit. *)
EXTENDS NativeBridge

MCPackages == {"maimai", "likeread", "settings", "webview"}

MCNameLength ==
  [p \in MCPackages |-> CASE p = "maimai" -> 1
                          [] p = "likeread" -> 2
                          [] p = "settings" -> 3
                          [] p = "webview" -> 5]
=============================================================================

---------------------------- MODULE MCRateLimiter ----------------------------
(***************************************************************************)
(* Two clients, each on a connection of its own or both behind one proxy.  *)
(***************************************************************************)
EXTENDS RateLimiter, TLC

CONSTANTS c1, c2, a1, a2

\* The backend's port is reached directly: RemoteAddr tells clients apart.
Direct == (c1 :> a1) @@ (c2 :> a2)

\* docker-compose with deploy/nginx.conf: every connection is the proxy's, and
\* with SetTrustedProxies(nil) ClientIP ignores X-Forwarded-For.
BehindProxy == [c \in Clients |-> a1]
=============================================================================

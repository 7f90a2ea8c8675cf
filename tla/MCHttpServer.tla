---------------------------- MODULE MCHttpServer ----------------------------
(* HttpServer for TLC: two handlers and two clients of /events.            *)
EXTENDS HttpServer

CONSTANTS t1, t2, e1, e2
=============================================================================

-------------------------- MODULE MCProviderSession -------------------------
(* One provider, the starting thread, a router, a poller and a health      *)
(* probe.                                                                  *)
EXTENDS ProviderSession
=============================================================================

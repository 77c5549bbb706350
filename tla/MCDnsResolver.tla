--------------------------- MODULE MCDnsResolver ----------------------------
(* The two threads that resolve names, and the two names they resolve.      *)
EXTENDS DnsResolver
=============================================================================

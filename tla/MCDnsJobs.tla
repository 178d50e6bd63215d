----------------------------- MODULE MCDnsJobs ------------------------------
(* Small instances of DnsJobs.                                                *)
EXTENDS DnsJobs

CONSTANTS a, b

\* Both records, in either order.
MCBatches == {<<a, b>>, <<b, a>>}
=============================================================================

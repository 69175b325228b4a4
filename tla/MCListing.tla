----------------------------- MODULE MCListing ------------------------------
(* Beside each row of a provider's table (equal rows coincide, so the run  *)
(* covers every collector of the table) a second collector of the provider *)
(* that shares with it what there is to share: R2 in Cloudflare, and the   *)
(* account diagnostic; the buckets in OCI.  The token sees no account,     *)
(* exactly one full page of them, or, with the two collectors of which     *)
(* one only prints the list, one account more.  Certificates, with the     *)
(* most places, only runs beside the diagnostic.  One zone.                *)
EXTENDS Listing, CollectorTable

mcSettings(mixes, accts) == [mix : mixes, visible : accts]
mcBeside(row, rows) == {[x |-> row, y |-> t] : t \in rows}
mcCloudflare(rows) ==
  {[d |-> AccountDiagnostic, x |-> R2Buckets, y |-> t] : t \in rows}

mcPage == {<<>>, <<"acct1", "acct2">>}
mcMore == {<<"acct1", "acct2", "acct3">>}

mcAll ==
  mcSettings(mcCloudflare(CloudflareCollectors \ {Certificates}), mcPage)
    \cup mcSettings(mcCloudflare({AccountAssets}), mcMore)
    \cup mcSettings({[d |-> AccountDiagnostic, x |-> Certificates]}, mcPage)
    \cup mcSettings(
           mcBeside(ObjectStorageBuckets, OciCollectors)
             \cup mcBeside(ListResource, {ListResource})
             \cup mcBeside(NetbirdAccounts, NetbirdCollectors)
             \cup mcBeside(TailnetDNS, TailscaleCollectors)
             \cup {[x |-> SearchAllResources]},
           {<<>>})
mcZones == <<"zone1">>
=============================================================================

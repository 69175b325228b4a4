--------------------------- MODULE CollectorTable ---------------------------
(***************************************************************************)
(* How every collector of every provider walks the API it inventories:     *)
(* what it iterates over, what it does when one of its requests fails, and *)
(* which failures it or its provider's wrapper keeps quiet about.  Listing *)
(* gives the table its behaviour.                                          *)
(*                                                                         *)
(* phases   what it iterates over, in order: "accounts", every account of  *)
(*          the list the collectors share; "zonelist", its own listing of  *)
(*          the zones; "zones", every zone of that; "namespace", the name  *)
(*          the bucket collectors share; "target", the one thing it was    *)
(*          started for (a zone, a compartment in a region, a tailnet...); *)
(*          "diagnosis", a look at the account list                        *)
(* asks     whether each place costs requests (the accounts collector only *)
(*          prints the shared list)                                        *)
(* paged    whether a place takes several requests; the listings that nest *)
(*          one request per item in another count as paged                 *)
(* failing  "return" at the first failure; "join" every place's failure    *)
(*          and go on; "joinLive", the same but without cancellations      *)
(* silent   the answers that leave no error behind: a service the account  *)
(*          has not "disabled", a resource the service account is          *)
(*          "refused", a document that is "absent", a page token that is   *)
(*          "stuck"                                                        *)
(*                                                                         *)
(* What an item is turned into (its name, tags, status) is not modelled.   *)
(***************************************************************************)

-----------------------------------------------------------------------------
(* Cloudflare.  Every collector runs under the wrapper of Provider.run,    *)
(* which drops the causes looksLikeServiceDisabled recognises.             *)

Cloudflare(phases) ==
  [phases |-> phases, asks |-> TRUE, paged |-> TRUE,
   failing |-> "return", silent |-> {"disabled"}]

PerAccount == Cloudflare(<<"accounts">>)
PerZone == Cloudflare(<<"target">>)

AccountAssets == [PerAccount EXCEPT !.asks = FALSE]
\* Not a collector but a goroutine of the same group: it looks whether there is
\* an account at all.  The wrapper is not around it.
AccountDiagnostic ==
  [AccountAssets EXCEPT !.phases = <<"diagnosis">>, !.silent = {}]
R2Buckets == PerAccount
KVNamespaces == PerAccount
WorkerScripts == PerAccount
D1Databases == PerAccount
PagesProjects == PerAccount
AccessApps == PerAccount
Tunnels == PerAccount
AccountRulesets == PerAccount

\* Packs of every zone, custom certificates of every zone, mTLS certificates
\* of every account.
Certificates ==
  [Cloudflare(<<"zonelist", "zones", "zones", "accounts">>)
     EXCEPT !.failing = "joinLive"]

DNSRecords == PerZone
PageRules == [PerZone EXCEPT !.paged = FALSE]
ZoneLoadBalancers == PerZone
ZoneRulesets == PerZone

CloudflareCollectors ==
  {AccountAssets, R2Buckets, KVNamespaces, WorkerScripts, D1Databases,
   PagesProjects, AccessApps, Tunnels, Certificates, AccountRulesets,
   DNSRecords, PageRules, ZoneLoadBalancers, ZoneRulesets}

-----------------------------------------------------------------------------
(* OCI.  One collector per region, compartment and type; the identity      *)
(* collectors once per compartment or once.  Nothing is kept quiet.        *)

InCompartment ==
  [phases |-> <<"target">>, asks |-> TRUE, paged |-> TRUE,
   failing |-> "return", silent |-> {}]
InTenancy == InCompartment

ComputeInstances == InCompartment
LoadBalancers == InCompartment
NetworkLoadBalancers == InCompartment
BlockVolumes == InCompartment
BootVolumes == InCompartment
VCNs == InCompartment
Subnets == InCompartment
NATGateways == InCompartment
InternetGateways == InCompartment
ServiceGateways == InCompartment
LocalPeeringGateways == InCompartment
DRGs == InCompartment
ObjectStorageBuckets ==
  [InCompartment EXCEPT !.phases = <<"namespace", "target">>]
AutonomousDatabases == InCompartment
DBSystems == InCompartment
Functions == InCompartment      \* one more listing per application
ContainerInstances == InCompartment
OKEClusters == InCompartment
Vaults == InCompartment
Policies == InCompartment
Users == InTenancy
Groups == InTenancy
DynamicGroups == InTenancy

OciCollectors ==
  {ComputeInstances, LoadBalancers, NetworkLoadBalancers, BlockVolumes,
   BootVolumes, VCNs, Subnets, NATGateways, InternetGateways,
   ServiceGateways, LocalPeeringGateways, DRGs, ObjectStorageBuckets,
   AutonomousDatabases, DBSystems, Functions, ContainerInstances,
   OKEClusters, Vaults, Policies, Users, Groups, DynamicGroups}

-----------------------------------------------------------------------------
(* Kubernetes: one collector per listable resource type.  Google Cloud:    *)
(* one search over everything.  NetBird and Tailscale: one document per    *)
(* resource type.  Discovery, which finds the types, is Kubernetes' lead   *)
(* in Collection, with one error where a partial discovery that leaves no  *)
(* type to list reports two; no property counts a provider's errors.       *)

ListResource ==
  [phases |-> <<"target">>, asks |-> TRUE, paged |-> TRUE,
   failing |-> "return", silent |-> {"refused"}]

SearchAllResources ==
  [phases |-> <<"target">>, asks |-> TRUE, paged |-> TRUE,
   failing |-> "return", silent |-> {"stuck"}]

Document ==
  [phases |-> <<"target">>, asks |-> TRUE, paged |-> FALSE,
   failing |-> "return", silent |-> {}]

\* Fetched once, by run before the fan-out; its failure is this collector's.
NetbirdAccounts == Document
Peers == Document
PeerGroups == Document
NetbirdPolicies == Document
Routes == Document
Networks == Document
Nameservers == Document
SetupKeys == Document
NetbirdUsers == Document
PostureChecks == Document

NetbirdCollectors ==
  {NetbirdAccounts, Peers, PeerGroups, NetbirdPolicies, Routes, Networks,
   Nameservers, SetupKeys, NetbirdUsers, PostureChecks}

Devices == Document
TailnetUsers == Document
Keys == Document
\* Three documents folded into one asset.
TailnetDNS ==
  [Document EXCEPT !.phases = <<"target", "target", "target">>,
                   !.failing = "join"]
TailnetACL == [Document EXCEPT !.silent = {"absent"}]

TailscaleCollectors == {Devices, TailnetUsers, Keys, TailnetDNS, TailnetACL}
=============================================================================

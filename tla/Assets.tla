------------------------------- MODULE Assets --------------------------------
(***************************************************************************)
(* The record every provider produces and everything after the collection  *)
(* reads: core.Asset, and the core.Edge the graph is made of.  A tag that   *)
(* holds a comma-joined list is a sequence here.  raw is the part of the    *)
(* upstream payload somebody reads, NoRaw when the audit ran without        *)
(* --include-raw.  Spellings of one hostname differ only as LowerCase and   *)
(* Undotted say.                                                            *)
(***************************************************************************)
EXTENDS Lists

CONSTANTS
  LowerCase,  \* the names with capitals |-> what strings.ToLower makes of them
  Undotted    \* the names with a final dot |-> the name without it

Mapped(f, s) == IF s \in DOMAIN f THEN f[s] ELSE s

\* a has the fields of an asset.
IsAsset(a) ==
  a = [provider |-> a.provider, account |-> a.account, region |-> a.region, type |-> a.type,
       id |-> a.id, name |-> a.name, status |-> a.status, tags |-> a.tags, raw |-> a.raw,
       created |-> a.created]

\* A value looked up in a Go map, or in an object of the payload: an absent
\* key reads as the zero value.
Get(f, key, zero) == IF key \in DOMAIN f THEN f[key] ELSE zero
Tag(a, key) == Get(a.tags, key, "")
TagList(a, key) == Get(a.tags, key, <<>>)

NoRaw == [k \in {} |-> {}]
HasRaw(a) == DOMAIN a.raw # {}

AsRef(a) ==
  [provider |-> a.provider, account |-> a.account, type |-> a.type, id |-> a.id]

\* Two references are to one node of the graph when provider and id agree.
refKey(ref) == <<ref.provider, ref.id>>
nodeKey(a) == refKey(AsRef(a))

TrafficEdgeKind(action) ==
  IF action \in {"drop", "deny", "reject"} THEN "traffic-deny" ELSE "traffic-allow"
=============================================================================

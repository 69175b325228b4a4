--------------------------------- MODULE Drift ---------------------------------
(***************************************************************************)
(* The comparison of two collections (internal/diff).                       *)
(***************************************************************************)
EXTENDS Assets

CONSTANT DerivedTags  \* the tags whose name begins with "cost."

\* An asset is the same one in both when provider and id agree; of several with
\* one key the last one counts.
keyed(assets) ==
  [k \in {nodeKey(a) : a \in ToSet(assets)} |->
     Last(Filter(assets, LAMBDA a : nodeKey(a) = k))]

\* The payload and the time of creation are not compared, nor what the cost
\* stage adds; an absent tag and an empty one are the same.
diffFields(before, after) ==
  LET Named(a) == [name |-> a.name, type |-> a.type, region |-> a.region,
                   account_id |-> a.account, status |-> a.status]
      tags == (DOMAIN before.tags \cup DOMAIN after.tags) \ DerivedTags
  IN {f \in DOMAIN Named(before) : Named(before)[f] # Named(after)[f]}
       \cup {k \in tags : Tag(before, k) # Tag(after, k)}

Compute(old, new) ==
  LET o == keyed(old)
      n == keyed(new)
  IN [added |-> DOMAIN n \ DOMAIN o,
      removed |-> DOMAIN o \ DOMAIN n,
      changed |-> {k \in DOMAIN o \cap DOMAIN n : diffFields(o[k], n[k]) # {}}]

NoDrift == [added |-> {}, removed |-> {}, changed |-> {}]
=============================================================================

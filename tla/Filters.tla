------------------------------- MODULE Filters -------------------------------
(***************************************************************************)
(* The --filter language (internal/filter).  A parsed clause names a field  *)
(* or a tag and holds glob patterns; here it holds the lower-case values    *)
(* its patterns match.  A filter is the set of its clauses.                 *)
(***************************************************************************)
EXTENDS Assets

Field(a, key) ==
  CASE key = "provider" -> a.provider
    [] key \in {"account", "account_id"} -> a.account
    [] key = "region" -> a.region
    [] key = "type" -> a.type
    [] key = "id" -> a.id
    [] key = "name" -> a.name
    [] key = "status" -> a.status

\* One of the patterns matches the value, or none of them when negated.
match(clause, a) ==
  LET value == IF clause.isTag THEN Tag(a, clause.key) ELSE Field(a, clause.key)
  IN (Mapped(LowerCase, value) \in clause.matches) # clause.negate

Match(filter, a) == \A clause \in filter : match(clause, a)

Slice(filter, assets) == Filter(assets, LAMBDA a : Match(filter, a))
=============================================================================

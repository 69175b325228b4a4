-------------------------------- MODULE Policy --------------------------------
(***************************************************************************)
(* The rules of `auditor check` (internal/policy).  A glob pattern is the   *)
(* set of the lower-case values it matches, and a list of patterns is a     *)
(* sequence of them.                                                        *)
(*                                                                         *)
(* rule:   name, severity, match, assert (no or one)                        *)
(* match:  fields |-> patterns, and tags |-> patterns                       *)
(* assert: required, forbidden, tags |-> patterns, status, names            *)
(***************************************************************************)
EXTENDS Filters

IsRule(r) ==
  r = [name |-> r.name, severity |-> r.severity, match |-> r.match, assert |-> r.assert]

severityRank == [info |-> 0, warning |-> 1, error |-> 2, critical |-> 3]

globAny(patterns, value) ==
  patterns = <<>> \/ \E p \in ToSet(patterns) : Mapped(LowerCase, value) \in p

-----------------------------------------------------------------------------
(* Rule files.                                                             *)

NoRules == << [name |-> "", severity |-> "invalid"] >>

emptyAssert(x) ==
  /\ x.required = {} /\ x.forbidden = {} /\ x.tags = NoRaw
  /\ x.status = <<>> /\ x.names = <<>>

ParseSeverity(text) ==
  CASE text = "" -> "warning" [] text = "warn" -> "warning" [] OTHER -> text

ValidRule(r) ==
  /\ r.name # "" /\ ParseSeverity(r.severity) \in DOMAIN severityRank
  /\ r.assert # <<>> => ~emptyAssert(r.assert[1])

DistinctNames(rules) == Cardinality({r.name : r \in ToSet(rules)}) = Len(rules)

\* A name may be given once over all the files.
loadRuleFiles(files) ==
  LET rules == FlattenSeq(files)
  IN IF /\ files # <<>> /\ <<>> \notin ToSet(files)
        /\ \A r \in ToSet(rules) : ValidRule(r)
        /\ DistinctNames(rules)
     THEN Map(rules, LAMBDA r : [r EXCEPT !.severity = ParseSeverity(@)])
     ELSE NoRules

-----------------------------------------------------------------------------
(* Evaluation.                                                             *)

\* An absent tag never matches, whatever the patterns are.
TagIs(a, key, patterns) == key \in DOMAIN a.tags /\ globAny(patterns, a.tags[key])

matches(m, a) ==
  /\ \A key \in DOMAIN m.fields : globAny(m.fields[key], Field(a, key))
  /\ \A key \in DOMAIN m.tags : TagIs(a, key, m.tags[key])

\* A rule without assertions forbids what it matches.
problems(rule, a) ==
  IF rule.assert = <<>> THEN {<<"forbidden pattern">>}
  ELSE LET x == rule.assert[1]
       IN {<<"missing", k>> : k \in x.required \ DOMAIN a.tags}
            \cup {<<"forbidden", k>> : k \in x.forbidden \cap DOMAIN a.tags}
            \cup {<<"tag", k>> : k \in {t \in DOMAIN x.tags : ~TagIs(a, t, x.tags[t])}}
            \cup {<<what>> : what \in {w \in {"status", "name"} :
                    IF w = "status" THEN ~globAny(x.status, a.status)
                    ELSE ~globAny(x.names, a.name)}}

\* In the order of the rules; in which order the assets come is left out.
Evaluate(rules, assets) ==
  Each(rules, LAMBDA rule :
    Map(Filter(assets, LAMBDA a : matches(rule.match, a) /\ problems(rule, a) # {}),
        LAMBDA a : [rule |-> rule.name, severity |-> rule.severity, asset |-> nodeKey(a),
                    problems |-> problems(rule, a)]))

WorstFinding(findings) == Max({-1} \cup {severityRank[f.severity] : f \in ToSet(findings)})
=============================================================================

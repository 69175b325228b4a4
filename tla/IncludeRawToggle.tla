-------------------------- MODULE IncludeRawToggle --------------------------
(***************************************************************************)
(* The server's one piece of mutable state that requests share: the        *)
(* IncludeRaw flag of its Config.  handleTopology, handleReach and         *)
(* handleInsights (src/internal/server) save it, set it, and restore it    *)
(* when they return; every audit request reads it while it configures its  *)
(* providers (applyProviderOptions).  net/http runs each handler in its    *)
(* own goroutine and nothing guards the field.                             *)
(***************************************************************************)
EXTENDS Naturals

CONSTANTS
  Graphs,      \* topology, reach and insights requests
  Audits,      \* audit and export requests
  Configured   \* --include-raw, as the operator set it

Requests == Graphs \cup Audits

VARIABLES
  includeRaw,  \* s.cfg.IncludeRaw
  pc,          \* per request
  prev,        \* the value a graph request saved
  sees         \* what a request's providers were told, or "nothing" yet

vars == <<includeRaw, pc, prev, sees>>

Init ==
  /\ includeRaw = Configured
  /\ pc = [r \in Requests |-> "arrive"]
  /\ prev = [r \in Graphs |-> Configured]
  /\ sees = [r \in Requests |-> "nothing"]

\* prev := s.cfg.IncludeRaw
Save(r) ==
  /\ pc[r] = "arrive" /\ r \in Graphs
  /\ prev' = [prev EXCEPT ![r] = includeRaw]
  /\ pc' = [pc EXCEPT ![r] = "set"]
  /\ UNCHANGED <<includeRaw, sees>>

\* s.cfg.IncludeRaw = true
Set(r) ==
  /\ pc[r] = "set"
  /\ includeRaw' = TRUE
  /\ pc' = [pc EXCEPT ![r] = "configure"]
  /\ UNCHANGED <<prev, sees>>

\* runProviders: applyProviderOptions reads the flag, then the audit runs.
Configure(r) ==
  /\ pc[r] = "configure" \/ (pc[r] = "arrive" /\ r \in Audits)
  /\ sees' = [sees EXCEPT ![r] = IF includeRaw THEN "raw" ELSE "plain"]
  /\ pc' = [pc EXCEPT ![r] = "collect"]
  /\ UNCHANGED <<includeRaw, prev>>

\* The handler returns; a graph handler's deferred function restores.
Return(r) ==
  /\ pc[r] = "collect"
  /\ includeRaw' = IF r \in Graphs THEN prev[r] ELSE includeRaw
  /\ pc' = [pc EXCEPT ![r] = "returned"]
  /\ UNCHANGED <<prev, sees>>

Next == \E r \in Requests : Save(r) \/ Set(r) \/ Configure(r) \/ Return(r)

Spec == Init /\ [][Next]_vars

-----------------------------------------------------------------------------
\* "s.cfg is shared, and a concurrent handler must not observe the toggle": an
\* audit request's providers are told what the operator configured.
ToggleIsUnobserved == \A r \in Audits : sees[r] = "raw" => Configured
=============================================================================

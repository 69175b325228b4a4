---------------------------- MODULE MCCollection ----------------------------
(***************************************************************************)
(* Two providers: `big` has a lead, a collector that needs the lead and an *)
(* independent one that may give up silently; `small` is a lead alone, the *)
(* shape of the GCP provider.  One collector runs at a time.               *)
(***************************************************************************)
EXTENDS Collection

CONSTANTS big, small, leadB, dep, opt, leadS, a1, a2

mcProviders  == {big, small}
mcCollectors == {leadB, dep, opt, leadS}
mcOwner == [c \in mcCollectors |-> IF c = leadS THEN small ELSE big]
mcLead == [p \in mcProviders |-> IF p = big THEN leadB ELSE leadS]
mcNeedsLead == {dep}
mcOptional == {opt}
mcAssets == {a1, a2}
mcItems == [c \in mcCollectors |->
              CASE c = dep -> {a1} [] c = opt -> {a2} [] OTHER -> {}]
mcErrCap == [p \in mcProviders |-> 1]
mcLimit == 1
=============================================================================

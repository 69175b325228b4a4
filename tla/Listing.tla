------------------------------- MODULE Listing -------------------------------
(***************************************************************************)
(* What the collectors of one provider do between being started by g.Go    *)
(* and returning: Collection takes from this only "sends some of its       *)
(* items, then returns with or without an error".  Each collector walks    *)
(* its phases as CollectorTable describes; the account-scoped ones of      *)
(* Cloudflare share one lazily fetched account list (listAccounts), OCI's  *)
(* bucket collectors one namespace; the wrapper around a collector decides *)
(* which of its failures are worth an error.                               *)
(*                                                                         *)
(* A place is <<phase number, element number>>; a position adds the number *)
(* of the request at that place.  The assets of a page are taken together  *)
(* with the answer that brought them.  The group's limit, the channels and *)
(* the readers are Collection's subject, not this module's.                *)
(***************************************************************************)
EXTENDS Lists

CONSTANTS
  Settings,  \* the audits to consider: the collectors that run together
             \* (name |-> row of the table) and the accounts the token can see
  PageSize,  \* accountsPageSize
  Zones,     \* the zones, as a sequence
  MaxCalls   \* the requests a paged place takes

ASSUME ListingAssumption ==
  /\ PageSize \in Nat \ {0} /\ MaxCalls \in Nat \ {0}
  /\ \A s \in Settings : IsInjective(s.visible)
  \* A row says which of the service's answers are kept quiet; the context's
  \* errors are not answers.
  /\ \A s \in Settings : \A c \in DOMAIN s.mix :
       s.mix[c].silent \subseteq {"disabled", "refused", "absent", "stuck"}

\* How a row may be made: the list of zones comes before the zones, a look at
\* the account list last; who only prints the list does nothing else; and what
\* ends a listing in the middle ends the collector.
ASSUME RowAssumption ==
  /\ Zones \in Seq(ToSet(Zones))
  /\ \A s \in Settings :
       /\ s.visible \in Seq(ToSet(s.visible))
       /\ \A c \in DOMAIN s.mix :
            LET row == s.mix[c]
                phases == row.phases
            IN /\ phases \in Seq(ToSet(phases)) /\ phases # <<>>
               /\ "zones" \in ToSet(phases) => phases[1] = "zonelist"
               /\ \A i \in DOMAIN phases :
                    phases[i] \in {"accounts", "diagnosis"} => i = Len(phases)
               /\ ~row.asks => Len(phases) = 1
               /\ "stuck" \in row.silent \/ "namespace" \in ToSet(phases)
                    => row.failing = "return"

VARIABLES
  mix,       \* the collectors of this provider; never changes
  visible,   \* the accounts the token can see; never changes
  runCtx,    \* "live", or the error requests fail with: "canceled", "expired"
  once,      \* p.accountsOnce: "no", "busy", "ok", or what p.accountsErr says
  page,      \* the page of accounts being asked for
  accounts,  \* p.accounts
  nsKnown,   \* whether p.nsName is set
  zs,        \* per collector, the zones its own listing returned
  pc,        \* per collector: "enter" a phase, "list" it, "return", "done"
  pos,       \* per collector, its position
  read,      \* per collector, the positions whose answer it has passed on
  causes,    \* per collector, <<place, answer>> of the failures it met
  shown      \* collectors whose error reached the error channel

config == <<mix, visible>>
shared == <<once, page, accounts, nsKnown>>
own == <<zs, pc, pos, read, causes, shown>>
listingVars == <<config, runCtx, shared, own>>

C == DOMAIN mix
Phase(c) == mix[c].phases[pos[c][1]]
Place(c) == <<pos[c][1], pos[c][2]>>
Calls(c) == IF mix[c].paged THEN MaxCalls ELSE 1

Elements(c) ==
  CASE Phase(c) = "accounts" -> accounts
    [] Phase(c) = "zones" -> zs[c]
    [] OTHER -> <<c>>

\* The service's n-th page of accounts.  Past the last page it repeats it.
LastPage == (Len(visible) + PageSize - 1) \div PageSize
AccountPage(n) ==
  LET k == IF n > LastPage THEN LastPage ELSE n
  IN IF visible = <<>> THEN <<>>
     ELSE SubSeq(visible, (k - 1) * PageSize + 1,
                 IF k = LastPage THEN Len(visible) ELSE k * PageSize)

CtxAnswers == IF runCtx = "live" THEN {} ELSE {runCtx}
BadAnswers(c) == (mix[c].silent \ {"stuck"}) \cup {"failed"} \cup CtxAnswers

ListingTypeOK ==
  /\ \E s \in Settings : mix = s.mix /\ visible = s.visible
  /\ runCtx \in {"live", "canceled", "expired"}
  /\ once \in {"no", "busy", "ok", "failed", "canceled", "expired"}
  /\ page \in 1..(LastPage + 1)
  /\ nsKnown \in BOOLEAN
  /\ pc \in [C -> {"enter", "list", "return", "done"}]
  /\ DOMAIN pos = C
  /\ \A c \in C : pos[c] \in (DOMAIN mix[c].phases) \X (Nat \ {0}) \X (1..Calls(c))
  /\ shown \subseteq C

ListingInit ==
  /\ \E s \in Settings : mix = s.mix /\ visible = s.visible
  /\ runCtx = "live"
  /\ once = "no" /\ page = 1 /\ accounts = <<>>
  /\ nsKnown = FALSE
  /\ zs = [c \in C |-> <<>>]
  /\ pc = [c \in C |-> "enter"]
  /\ pos = [c \in C |-> <<1, 1, 1>>]
  /\ read = [c \in C |-> {}]
  /\ causes = [c \in C |-> {}]
  /\ shown = {}

CtxEnds(why) ==
  /\ runCtx = "live"
  /\ runCtx' = why
  /\ UNCHANGED <<config, shared, own>>

-----------------------------------------------------------------------------
(* Moving on.                                                              *)

Return(c) == pc' = [pc EXCEPT ![c] = "return"] /\ UNCHANGED pos

NextPhase(c) ==
  LET i == pos[c][1]
  IN IF i = Len(mix[c].phases)
     THEN Return(c)
     ELSE /\ pos' = [pos EXCEPT ![c] = <<i + 1, 1, 1>>]
          /\ pc' = [pc EXCEPT ![c] = "enter"]

\* certificates looks at the context before every place.
GivesUp(c) == mix[c].failing = "joinLive" /\ runCtx # "live"

\* Mutant of NextPlace: the loop leaves out the last element.
NextPlaceShort(c) ==
  IF pos[c][2] < Len(Elements(c)) - 1
  THEN pos' = [pos EXCEPT ![c] = <<@[1], @[2] + 1, 1>>] /\ UNCHANGED pc
  ELSE NextPhase(c)

NextPlace(c) ==
  IF pos[c][2] < Len(Elements(c)) /\ ~GivesUp(c)
  THEN pos' = [pos EXCEPT ![c] = <<@[1], @[2] + 1, 1>>] /\ UNCHANGED pc
  ELSE NextPhase(c)

\* The failure is kept with its place; certificates drops a cancellation.
Record(c, answer) ==
  causes' = IF mix[c].failing = "joinLive" /\ answer = "canceled"
            THEN causes
            ELSE [causes EXCEPT ![c] = @ \cup {<<Place(c), answer>>}]

-----------------------------------------------------------------------------
(* The account list.  The first collector that needs it fetches it, the    *)
(* others wait in the same sync.Once; what it left behind is final.        *)

NeedsAccounts(c) == pc[c] = "enter" /\ Phase(c) \in {"accounts", "diagnosis"}

BeginAccounts(c) ==
  /\ NeedsAccounts(c) /\ once = "no"
  /\ once' = "busy"
  /\ UNCHANGED <<config, runCtx, page, accounts, nsKnown, own>>

\* Mutant of TakeAccountsPage: a full page counts as a short one (<= for <).
TakeOnePage ==
  LET result == AccountPage(page)
      added == Filter(result, LAMBDA a : a \notin ToSet(accounts))
      last == Len(result) <= PageSize \/ added = <<>>
  IN /\ once = "busy"
     /\ accounts' = accounts \o added
     /\ once' = IF last THEN "ok" ELSE "busy"
     /\ page' = IF last \/ page > LastPage THEN page ELSE page + 1
     /\ UNCHANGED <<config, runCtx, nsKnown, own>>

\* Mutant of TakeAccountsPage: no guard against the repeated last page.
TakeUntilShort ==
  LET result == AccountPage(page)
      added == Filter(result, LAMBDA a : a \notin ToSet(accounts))
      last == Len(result) < PageSize
  IN /\ once = "busy"
     /\ accounts' = accounts \o added
     /\ once' = IF last THEN "ok" ELSE "busy"
     /\ page' = IF last \/ page > LastPage THEN page ELSE page + 1
     /\ UNCHANGED <<config, runCtx, nsKnown, own>>

\* One page: unseen accounts are appended; an empty page, a short page and a
\* page with nothing new are the last.  All pages past the last are alike, so
\* the page number stops there.
TakeAccountsPage ==
  LET result == AccountPage(page)
      added == Filter(result, LAMBDA a : a \notin ToSet(accounts))
      last == Len(result) < PageSize \/ added = <<>>
  IN /\ once = "busy"
     /\ accounts' = accounts \o added
     /\ once' = IF last THEN "ok" ELSE "busy"
     /\ page' = IF last \/ page > LastPage THEN page ELSE page + 1
     /\ UNCHANGED <<config, runCtx, nsKnown, own>>

FailAccounts(answer) ==
  /\ once = "busy"
  /\ answer \in {"failed"} \cup CtxAnswers
  /\ once' = answer
  /\ UNCHANGED <<config, runCtx, page, accounts, nsKnown, own>>

AccountsReady(c) == NeedsAccounts(c) /\ once = "ok"
AccountsLost(c) == NeedsAccounts(c) /\ once \notin {"no", "busy", "ok"}

StartAccounts(c) ==
  /\ AccountsReady(c) /\ Phase(c) = "accounts" /\ mix[c].asks
  /\ IF accounts = <<>> \/ GivesUp(c)
     THEN NextPhase(c)
     ELSE pc' = [pc EXCEPT ![c] = "list"] /\ UNCHANGED pos
  /\ UNCHANGED <<config, runCtx, shared, zs, read, causes, shown>>

\* The first n accounts of the list, which are places of its only phase.
FirstAccounts(c, n) == {<<1, j, k>> : j \in 1..n, k \in 1..Calls(c)}

\* collectAccounts prints the list; the context may end on the way.
PrintAccounts(c) ==
  /\ AccountsReady(c) /\ Phase(c) = "accounts" /\ ~mix[c].asks
  /\ \E n \in 0..Len(accounts) :
       /\ runCtx = "live" => n = Len(accounts)
       /\ read' = [read EXCEPT ![c] = FirstAccounts(c, n)]
  /\ Return(c)
  /\ UNCHANGED <<config, runCtx, shared, zs, causes, shown>>

\* Mutant of Diagnose: an empty list is taken for success.
DiagnoseNothing(c) ==
  /\ AccountsReady(c) /\ Phase(c) = "diagnosis"
  /\ Return(c)
  /\ UNCHANGED <<config, runCtx, shared, zs, read, causes, shown>>

\* The diagnostic only looks whether there is an account at all.
Diagnose(c) ==
  /\ AccountsReady(c) /\ Phase(c) = "diagnosis"
  /\ IF accounts = <<>> THEN Record(c, "none") ELSE UNCHANGED causes
  /\ Return(c)
  /\ UNCHANGED <<config, runCtx, shared, zs, read, shown>>

LoseAccounts(c) ==
  /\ AccountsLost(c)
  /\ Record(c, once)
  /\ Return(c)    \* "accounts" is every collector's last phase
  /\ UNCHANGED <<config, runCtx, shared, zs, read, shown>>

-----------------------------------------------------------------------------
(* The other preliminaries.                                                *)

\* certificates lists the zones itself and works with what it got.
ListZones(c) ==
  /\ pc[c] = "enter" /\ Phase(c) = "zonelist"
  /\ \/ /\ zs' = [zs EXCEPT ![c] = Zones]
        /\ UNCHANGED causes
     \/ \E n \in 0..Len(Zones), answer \in {"failed"} \cup CtxAnswers :
          /\ zs' = [zs EXCEPT ![c] = SubSeq(Zones, 1, n)]
          /\ Record(c, answer)
  /\ NextPhase(c)
  /\ UNCHANGED <<config, runCtx, shared, read, shown>>

\* objectStorageNamespace, under its mutex: only success is kept.
UseNamespace(c) ==
  /\ pc[c] = "enter" /\ Phase(c) = "namespace"
  /\ nsKnown' = TRUE
  /\ NextPhase(c)
  /\ UNCHANGED <<config, runCtx, once, page, accounts, zs, read, causes, shown>>

MissNamespace(c) ==
  /\ pc[c] = "enter" /\ Phase(c) = "namespace" /\ ~nsKnown
  /\ \E answer \in BadAnswers(c) : Record(c, answer)
  /\ Return(c)
  /\ UNCHANGED <<config, runCtx, shared, zs, read, shown>>

StartPlaces(c) ==
  /\ pc[c] = "enter" /\ Phase(c) \in {"zones", "target"}
  /\ IF Elements(c) = <<>> \/ GivesUp(c)
     THEN NextPhase(c)
     ELSE pc' = [pc EXCEPT ![c] = "list"] /\ UNCHANGED pos
  /\ UNCHANGED <<config, runCtx, shared, zs, read, causes, shown>>

-----------------------------------------------------------------------------
(* Listing one place.                                                      *)

\* Mutant of Answer: the listing asks once more after its last page.
AnswerTooFar(c) ==
  /\ pc[c] = "list"
  /\ read' = [read EXCEPT ![c] = @ \cup {pos[c]}]
  /\ IF pos[c][3] <= Calls(c)
     THEN pos' = [pos EXCEPT ![c][3] = @ + 1] /\ UNCHANGED pc
     ELSE NextPlace(c)
  /\ UNCHANGED <<config, runCtx, shared, zs, causes, shown>>

Answer(c) ==
  /\ pc[c] = "list"
  /\ read' = [read EXCEPT ![c] = @ \cup {pos[c]}]
  /\ IF pos[c][3] < Calls(c)
     THEN pos' = [pos EXCEPT ![c][3] = @ + 1] /\ UNCHANGED pc
     ELSE NextPlace(c)
  /\ UNCHANGED <<config, runCtx, shared, zs, causes, shown>>

\* A page whose token is the one it was asked with: the listing ends.
AnswerStuck(c) ==
  /\ pc[c] = "list" /\ "stuck" \in mix[c].silent /\ pos[c][3] < Calls(c)
  /\ read' = [read EXCEPT ![c] = @ \cup {pos[c]}]
  /\ Record(c, "stuck")
  /\ Return(c)
  /\ UNCHANGED <<config, runCtx, shared, zs, shown>>

FailCall(c) ==
  /\ pc[c] = "list"
  /\ \E answer \in BadAnswers(c) : Record(c, answer)
  /\ IF mix[c].failing = "return" THEN Return(c) ELSE NextPlace(c)
  /\ UNCHANGED <<config, runCtx, shared, zs, read, shown>>

\* sendAsset finds the context over in the middle of a page.  certificates
\* gives up the family it is in, the others return.
StopSending(c) ==
  /\ pc[c] = "list" /\ runCtx # "live" /\ mix[c].failing # "join"
  /\ IF mix[c].failing = "joinLive" THEN NextPhase(c) ELSE Return(c)
  /\ UNCHANGED <<config, runCtx, shared, zs, read, causes, shown>>

-----------------------------------------------------------------------------
(* The wrapper.                                                            *)

\* Mutant of Surfacing: one quiet cause silences the whole joined error.
SurfacingAllOrNothing(c) ==
  LET kinds == {x[2] : x \in causes[c]}
  IN IF kinds \cap ({"canceled"} \cup mix[c].silent) # {} THEN {} ELSE kinds

\* What is left of the returned error: nothing if it is a cancellation, and
\* without the causes that are kept quiet.
Surfacing(c) ==
  LET kinds == {x[2] : x \in causes[c]}
  IN IF "canceled" \in kinds THEN {} ELSE kinds \ mix[c].silent

Settle(c) ==
  /\ pc[c] = "return"
  /\ \/ Surfacing(c) = {} /\ UNCHANGED shown
     \/ Surfacing(c) # {} /\ shown' = shown \cup {c}
     \/ Surfacing(c) # {} /\ runCtx # "live" /\ UNCHANGED shown
  /\ pc' = [pc EXCEPT ![c] = "done"]
  /\ UNCHANGED <<config, runCtx, shared, zs, pos, read, causes>>

-----------------------------------------------------------------------------
FetchAccounts ==
  TakeAccountsPage \/ \E a \in {"failed", "canceled", "expired"} : FailAccounts(a)

Collect(c) ==
  \/ BeginAccounts(c) \/ StartAccounts(c) \/ PrintAccounts(c)
  \/ Diagnose(c) \/ LoseAccounts(c)
  \/ ListZones(c) \/ UseNamespace(c) \/ MissNamespace(c) \/ StartPlaces(c)
  \/ Answer(c) \/ AnswerStuck(c) \/ FailCall(c) \/ StopSending(c)
  \/ Settle(c)

AllDone == \A c \in C : pc[c] = "done"

ListingNext ==
  \/ FetchAccounts
  \/ \E c \in C : Collect(c)
  \/ \E why \in {"canceled", "expired"} : CtxEnds(why)

\* Goroutines run, and a request is answered.  No failure is assumed: a loop
\* that only a failing request would leave counts as one that does not end.
ListingSpec ==
  /\ ListingInit /\ [][ListingNext]_listingVars
  /\ WF_listingVars(TakeAccountsPage)
  /\ WF_listingVars(\E c \in C : Collect(c))

-----------------------------------------------------------------------------
(* Properties.                                                             *)

\* Every place a collector has to list, whether or not it came to it.
Owed(c) ==
  UNION {LET n == CASE mix[c].phases[i] = "accounts" -> Len(visible)
                    [] mix[c].phases[i] = "zones" -> Len(Zones)
                    [] mix[c].phases[i] = "target" -> 1
                    [] OTHER -> 0
         IN {<<i, j>> : j \in 1..n} : i \in DOMAIN mix[c].phases}

Whole(c, p) == \A k \in 1..Calls(c) : <<p[1], p[2], k>> \in read[c]
Before(p, q) == p[1] < q[1] \/ (p[1] = q[1] /\ p[2] < q[2])

\* A collector that has returned under a live context and reported nothing.
Silent(c) == pc[c] = "done" /\ runCtx = "live" /\ c \notin shown

\* What is missing from an inventory without an error is missing for a reason
\* the collector is meant to be quiet about: at the very place, or, where the
\* first failure ends the listing, at an earlier one.
SilenceIsJustified ==
  \A c \in C : Silent(c) =>
    \A p \in Owed(c) :
      \/ Whole(c, p)
      \/ \E x \in causes[c] :
           /\ x[2] \in mix[c].silent
           /\ x[1] = p \/ (mix[c].failing = "return" /\ Before(x[1], p))

\* A failure worth an error gets one, also when it is joined with others that
\* are kept quiet or met before or after them.
RealFailureSurfaces ==
  \A c \in C : Silent(c) => \A x \in causes[c] : x[2] \in mix[c].silent

\* The shared list holds every account the token can see, once, although the
\* service repeats its last page for ever.
AccountListIsWhole == once = "ok" => accounts = visible

\* An audit that found no account at all says so: the account-scoped services
\* are then all missing.
NoAccountsIsExplained ==
  AllDone /\ runCtx = "live" /\ accounts = <<>> =>
    \A c \in C : Phase(c) = "diagnosis" => c \in shown

\* Every collector returns, whatever the service answers.
EveryCollectorReturns == <>AllDone

\* collectR2 and the other account-scoped collectors promise the resources of
\* "every account the token can see": what one account lacks is no reason for
\* another to be missing without an error.
EveryAccountIsListed ==
  \A c \in C : Silent(c) /\ mix[c].phases = <<"accounts">> =>
    \A p \in Owed(c) : Whole(c, p) \/ \E x \in causes[c] : x[1] = p
=============================================================================

------------------------------- MODULE Pricing -------------------------------
(***************************************************************************)
(* The price book (internal/pricing): documents merged into one book, its   *)
(* validation, and the refresh from the public price feed.  Amounts are     *)
(* whole numbers.  A note is TRUE or FALSE: written or not.                 *)
(*                                                                         *)
(* rate:     id, book, sku, unit, amount, currency, tiered                  *)
(* shape:    ocpu_rate, memory_rate, flexible, default_ocpu,                *)
(*           default_memory_gb, note                                       *)
(* rule:     type, basis, note, shape_from, shape_table, terms, condition,  *)
(*           else_basis, else_note, zero_when_status, zero_note             *)
(* term:     rate, from_shape, optional, quantity                           *)
(* quantity: a sequence of one or two factors (the second multiplies), each *)
(*           with tag, raw, shape, default, literal                         *)
(* Optional parts are sequences of no or one element.                       *)
(***************************************************************************)
EXTENDS Assets

SchemaVersion == 1
DefaultCurrency == "USD"
DefaultHoursPerMonth == 730

InvalidBook == [invalid |-> TRUE]
IsBook(b) == "invalid" \notin DOMAIN b

\* The amounts, sizes and quantities of a book are numbers, its terms are lists.
HoldsNumbers(b) ==
  /\ b.hours \in Int
  /\ \A id \in DOMAIN b.rates : b.rates[id].amount \in Int
  /\ \A table \in DOMAIN b.shapes : \A name \in DOMAIN b.shapes[table] :
       {b.shapes[table][name].default_ocpu, b.shapes[table][name].default_memory_gb} \subseteq Int
  /\ \A type \in DOMAIN b.rules :
       /\ IsList(b.rules[type].terms)
       /\ \A t \in ToSet(b.rules[type].terms) :
            /\ IsList(t.quantity)
            /\ \A q \in ToSet(t.quantity) : q.default \in Seq(Int) /\ q.literal \in Seq(Int)

\* f with the keys of g overridden by it.
Overridden(f, g) ==
  [k \in DOMAIN f \cup DOMAIN g |-> IF k \in DOMAIN g THEN g[k] ELSE f[k]]

Indexed(s, Key(_)) ==
  [k \in {Key(x) : x \in ToSet(s)} |-> CHOOSE x \in ToSet(s) : Key(x) = k]

Empty == [k \in {} |-> {}]

-----------------------------------------------------------------------------
(* Load.                                                                   *)

checkDuplicates(doc) ==
  LET Distinct(s, Key(_)) == Cardinality({Key(x) : x \in ToSet(s)}) = Len(s)
  IN /\ Distinct(doc.rates, LAMBDA r : r.id)
     /\ Distinct(doc.rules, LAMBDA r : r.type)
     /\ Distinct(doc.books, LAMBDA s : s.id)

\* Later documents win by rate id, rule type, book id and shape name.
merge(b, doc) ==
  [currency |-> IF doc.currency # "" THEN doc.currency ELSE b.currency,
   hours |-> IF doc.hours # 0 THEN doc.hours ELSE b.hours,
   books |-> Overridden(b.books, Indexed(doc.books, LAMBDA s : s.id)),
   rates |-> Overridden(b.rates, Indexed(doc.rates, LAMBDA r : r.id)),
   rules |-> Overridden(b.rules, Indexed(doc.rules, LAMBDA r : r.type)),
   shapes |-> [t \in DOMAIN b.shapes \cup DOMAIN doc.shapes |->
                 Overridden(Get(b.shapes, t, Empty), Get(doc.shapes, t, Empty))]]

MonthlyAmount(b, rate) ==
  IF rate.unit = "hour" THEN rate.amount * b.hours ELSE rate.amount

CurrencyOf(b, rate) == IF rate.currency # "" THEN rate.currency ELSE b.currency

RateID(shape, field) ==
  CASE field = "ocpu_rate" -> shape.ocpu_rate
    [] field = "memory_rate" -> shape.memory_rate
    [] OTHER -> ""

\* A default of zero is none.
DefaultQuantity(shape, field) ==
  LET n == CASE field = "default_ocpu" -> shape.default_ocpu
             [] field = "default_memory_gb" -> shape.default_memory_gb
             [] OTHER -> 0
  IN IF n > 0 THEN <<n>> ELSE <<>>

validateRate(b, r) ==
  /\ r.id # "" /\ r.book \in DOMAIN b.books
  /\ r.unit \in {"hour", "month"}
  /\ r.amount > 0

validateShape(b, s) ==
  /\ {s.ocpu_rate, s.memory_rate} \ {""} \subseteq DOMAIN b.rates
  /\ s.flexible => s.ocpu_rate # "" /\ s.memory_rate # ""
  /\ s.ocpu_rate = "" => s.note

validateTerm(b, r, t) ==
  /\ (t.rate = "") # (t.from_shape = "")
  /\ t.quantity # <<>>
  /\ IF t.rate # "" THEN t.rate \in DOMAIN b.rates /\ ~t.optional
     ELSE /\ r.shape_from # <<>> /\ t.from_shape \in {"ocpu_rate", "memory_rate"}
          /\ ~t.optional =>
               \A name \in DOMAIN b.shapes[r.shape_table] :
                 LET s == b.shapes[r.shape_table][name]
                 IN (s.note /\ s.ocpu_rate = "") \/ RateID(s, t.from_shape) # ""
          /\ t.quantity[1].shape \in {"", "default_ocpu", "default_memory_gb"}

Declared(rule) == rule.basis # ""

validateRule(b, r) ==
  /\ r.type # ""
  /\ IF Declared(r)
     THEN r.basis \in {"unpriceable", "unknown"} /\ r.note /\ r.terms = <<>>
     ELSE /\ r.terms # <<>>
          /\ r.condition # <<>> =>
               r.condition[1].tag # "" /\ r.else_basis \in {"unknown", "unpriceable"} /\ r.else_note
          /\ r.zero_when_status # {} => r.zero_note
          /\ r.shape_from # <<>> =>
               /\ r.shape_from[1].tag # "" \/ r.shape_from[1].raw # ""
               /\ r.shape_table \in DOMAIN b.shapes
          /\ \A t \in ToSet(r.terms) : validateTerm(b, r, t)

Validate(b) ==
  /\ b.hours > 0
  /\ \A id \in DOMAIN b.rates : validateRate(b, b.rates[id])
  /\ \A t \in DOMAIN b.shapes : \A n \in DOMAIN b.shapes[t] : validateShape(b, b.shapes[t][n])
  /\ \A t \in DOMAIN b.rules : validateRule(b, b.rules[t])

Load(docs) ==
  LET none == [currency |-> "", hours |-> 0, books |-> Empty, rates |-> Empty,
               rules |-> Empty, shapes |-> Empty]
      merged == FoldLeft(merge, none, docs)
      b == [merged EXCEPT !.currency = IF @ = "" THEN DefaultCurrency ELSE @,
                          !.hours = IF @ = 0 THEN DefaultHoursPerMonth ELSE @]
  IN IF (\A d \in ToSet(docs) : d.version = SchemaVersion /\ checkDuplicates(d)) /\ Validate(b)
     THEN b ELSE InvalidBook

\* A condition holds of a tag that is present, and not empty or equal to a value.
ConditionMatches(c, a) ==
  /\ c.tag \in DOMAIN a.tags
  /\ IF c.non_empty THEN a.tags[c.tag] # "" ELSE a.tags[c.tag] = c.equals

ZerosAt(rule, status) == Mapped(LowerCase, status) \in rule.zero_when_status

\* The books older than the limit, or with a vintage that cannot be read (0).
Stale(b, now, maxAge) ==
  {id \in DOMAIN b.books : b.books[id].vintage = 0 \/ now - b.books[id].vintage > maxAge}

-----------------------------------------------------------------------------
(* The refresh.  A feed has lastUpdated (0 when missing) and products: part *)
(* number |-> prices, each with currency, model, value and rangeMin.  A     *)
(* download or a cached copy that is not there is <<>>.                     *)

ParseOCIFeed(feed) == DOMAIN feed.products # {} /\ feed.lastUpdated # 0

PayAsYouGo(prices, currency) ==
  Filter(prices, LAMBDA p : p.currency = currency /\ p.model = "PAY_AS_YOU_GO")

\* The price of the next unit: of the tier that starts highest.
MarginalPrice(prices, currency) ==
  LET tiers == PayAsYouGo(prices, currency)
      top == CHOOSE i \in DOMAIN tiers :
               /\ \A j \in DOMAIN tiers : tiers[j].rangeMin <= tiers[i].rangeMin
               /\ \A j \in 1..(i - 1) : tiers[j].rangeMin < tiers[i].rangeMin
  IN tiers[top]

\* Every rate of the book that names a part number, or none at all.
Reprice(b, bookID, feed) ==
  LET ours == {id \in DOMAIN b.rates : b.rates[id].book = bookID /\ b.rates[id].sku # ""}
      Prices(id) == PayAsYouGo(Get(feed.products, b.rates[id].sku, <<>>),
                               CurrencyOf(b, b.rates[id]))
      repriced ==
        [b EXCEPT
           !.rates = [id \in DOMAIN @ |->
             IF id \notin ours THEN @[id]
             ELSE [@[id] EXCEPT
                     !.amount = MarginalPrice(Prices(id), CurrencyOf(b, b.rates[id])).value,
                     !.tiered = Len(Prices(id)) > 1]],
           !.books = [id \in DOMAIN @ |->
             IF id = bookID THEN [@[id] EXCEPT !.vintage = feed.lastUpdated] ELSE @[id]]]
  IN IF \E id \in ours : Prices(id) = <<>> THEN InvalidBook
     ELSE IF Validate(repriced) THEN repriced ELSE InvalidBook

\* The download, then the cached copy: the first that parses is used.
Refresh(base, downloaded, cached) ==
  LET usable == Filter(downloaded \o cached, ParseOCIFeed)
      Preferred(b) == IF IsBook(b) THEN b ELSE base
  IN IF usable = <<>> THEN base ELSE Preferred(Reprice(base, "oci", usable[1]))

\* The book of a run.  A --hours-per-month of 0 leaves the book's own.
loadPriceBook(docs, refresh, downloaded, hours) ==
  LET Refreshed(b) == IF IsBook(b) /\ refresh THEN Refresh(b, downloaded, <<>>) ELSE b
      Counted(b) == IF ~IsBook(b) \/ hours < 0 THEN InvalidBook
                    ELSE IF hours > 0 THEN [b EXCEPT !.hours = hours] ELSE b
  IN Counted(Refreshed(Load(docs)))
=============================================================================

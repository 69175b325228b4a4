------------------------------- MODULE Lists --------------------------------
(***************************************************************************)
(* The loops over slices that the code is written in: what a loop keeps,    *)
(* makes of every element, appends or adds up.  The recursions are          *)
(* functions, so that Lists_proofs can say what they compute.               *)
(***************************************************************************)
EXTENDS Integers, Sequences, FiniteSets, SequencesExt, FiniteSetsExt

\* s is a list, of whatever it holds.
IsList(s) == s \in Seq(ToSet(s))

\* What s holds at the positions in I, in their order.
At(s, I) ==
  LET picked[i \in 0..Len(s)] ==
        IF i = 0 THEN <<>>
        ELSE IF i \in I THEN Append(picked[i - 1], s[i]) ELSE picked[i - 1]
  IN picked[Len(s)]

\* The elements that pass the test.
Filter(s, Test(_)) == At(s, {i \in DOMAIN s : Test(s[i])})

\* The concatenation changes nothing: it makes TLC evaluate the list at once.
Map(s, Op(_)) == [i \in DOMAIN s |-> Op(s[i])] \o <<>>

\* What is appended for each element, one after the other.
Each(s, Op(_)) == FlattenSeq(Map(s, Op))

\* Of the elements with one key, the first.
FirstOfEach(s, Key(_)) ==
  At(s, {i \in DOMAIN s : \A j \in 1..(i - 1) : Key(s[j]) # Key(s[i])})

Total(t) ==
  LET upTo[i \in 0..Len(t)] == IF i = 0 THEN 0 ELSE upTo[i - 1] + t[i] IN upTo[Len(t)]
SumOf(s, Op(_)) == Total(Map(s, Op))

Multiplied(t) ==
  LET upTo[i \in 0..Len(t)] == IF i = 0 THEN 1 ELSE upTo[i - 1] * t[i] IN upTo[Len(t)]
=============================================================================

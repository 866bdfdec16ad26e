---------------------------- MODULE SourceJournal ----------------------------
(***************************************************************************)
(* What a registered source promises: the copy is a chain that starts at   *)
(* the beginning of the source's journal and only ever grows at its end.   *)
(***************************************************************************)
EXTENDS Integers, Sequences

CONSTANTS
  Records,   \* the records a source may send
  PrevOf,    \* PrevOf[r]: the record whose hash r continues, or None
  IdOf,      \* IdOf[r]: the identity r claims
  None       \* no record

VARIABLE copy

Last(log) == IF log = <<>> THEN None ELSE log[Len(log)]

\* Extended by one record that continues the chain under a new identity.
Extends1(log, r) ==
  /\ PrevOf[r] = Last(log)
  /\ \A i \in DOMAIN log : IdOf[log[i]] # IdOf[r]

IsChain(log) ==
  \A i \in DOMAIN log : Extends1(SubSeq(log, 1, i - 1), log[i])

Init == copy = <<>>
Next ==
  /\ Len(copy') > Len(copy) /\ SubSeq(copy', 1, Len(copy)) = copy
  /\ IsChain(copy')
Spec == Init /\ [][Next]_copy
==============================================================================

---------------------------- MODULE CdrAlignment ----------------------------
(***************************************************************************)
(* Alignment arithmetic shared by every module that lays out CDR bytes.    *)
(***************************************************************************)
EXTENDS Naturals, Sequences

Alignments == {1, 2, 4, 8}

\* The padding before an item that starts at or after o and is aligned to a.
Padding(o, a) == (a - (o % a)) % a

Padded(o, a) == o + Padding(o, a)

\* A read: where it starts, how many bytes it takes, what it is aligned to.
Span == [from : Nat, size : Nat, align : Alignments]

\* Where the i-th of a sequence of reads ends; the first starts from 0.
EndOf(ss, i) == IF i = 0 THEN 0 ELSE ss[i].from + ss[i].size

\* Each read starts at the first place after the one before it that has its
\* alignment: no byte is taken twice and none but padding is skipped.
Contiguous(ss) ==
  \A i \in DOMAIN ss : ss[i].from = Padded(EndOf(ss, i - 1), ss[i].align)

=============================================================================

-------------------------------- MODULE Case --------------------------------
(* The input a pure algorithm is checked on: one state per input, tagged by  *)
(* the algorithm it is for; and the shapes and positions they share.         *)
EXTENDS Integers, Sequences, FiniteSetsExt, SequencesExt

VARIABLE input

NoInput == [kind |-> "none"]

\* What the first n numbers of a sequence add up to, and all of them; and
\* how many elements an array of the first n dimensions has, and of all.
Sums(s) == LET sum[n \in 0 .. Len(s)] == IF n = 0 THEN 0 ELSE sum[n - 1] + s[n] IN sum
Total(s) == Sums(s)[Len(s)]
Sizes(shape) == LET size[n \in 0 .. Len(shape)] == IF n = 0 THEN 1 ELSE size[n - 1] * shape[n] IN size
Product(shape) == Sizes(shape)[Len(shape)]

\* The coordinates of an array, and where one is in row-major order.
Coords(shape) == {c \in [DOMAIN shape -> 0 .. Max({1} \cup ToSet(shape)) - 1] :
                    \A d \in DOMAIN shape : c[d] < shape[d]}
Places(shape, c) ==
  LET place[d \in 0 .. Len(shape)] == IF d = 0 THEN 0 ELSE place[d - 1] * shape[d] + c[d] IN place
RowMajor(shape, c) == Places(shape, c)[Len(shape)]

Has(seq, x) == \E i \in DOMAIN seq : seq[i] = x
At(seq, x) == CHOOSE i \in DOMAIN seq : seq[i] = x
Upto(n) == [i \in 1 .. n |-> i - 1]
=============================================================================

---------------------------- MODULE MCPreparation ----------------------------
(***************************************************************************)
(* Preparation with the lists of the code, and addresses at the edges of   *)
(* the ranges.                                                             *)
(***************************************************************************)
EXTENDS Preparation

Six(first, last) ==
    [i \in 1..16 |-> IF i <= Len(first) THEN first[i]
                     ELSE IF i > 16 - Len(last) THEN last[i - 16 + Len(last)] ELSE 0]
Four(a, p)      == [family |-> "v4", address |-> a, prefix |-> p]
Range6(first, p) == [family |-> "v6", address |-> Six(first, <<>>), prefix |-> p]

MCFixed == <<
    Four(<<127, 0, 0, 0>>, 8), [family |-> "v6", address |-> Six(<<>>, <<1>>), prefix |-> 128],
    Four(<<10, 0, 0, 0>>, 8), Four(<<172, 16, 0, 0>>, 12), Four(<<192, 168, 0, 0>>, 16),
    Four(<<100, 64, 0, 0>>, 10), Four(<<169, 254, 0, 0>>, 16), Range6(<<254, 128>>, 10),
    Range6(<<252>>, 7), Four(<<224, 0, 0, 0>>, 4), Range6(<<255>>, 8),
    Four(<<255, 255, 255, 255>>, 32) >>
MCTun == Four(<<198, 18, 0, 0>>, 15)

Entry(f, a) == [family |-> f, address |-> a, up |-> TRUE, excluded |-> FALSE]
Global == Six(<<32, 1, 13, 184>>, <<1>>)

\* Outside and at both ends of the TUN space and of a fixed range, unspecified, and skipped ones.
MCInterfaces ==
    {Entry("v4", a) : a \in {<<198, 17, 255, 255>>, <<198, 18, 0, 0>>, <<198, 19, 255, 255>>,
        <<198, 20, 0, 0>>, <<172, 31, 255, 255>>, <<172, 32, 0, 0>>, <<0, 0, 0, 0>>, <<10, 1, 2, 3>>}}
    \cup {Entry("v6", a) : a \in {Global, Six(<<254, 191>>, <<255>>), Six(<<254, 192>>, <<1>>),
        Six(<<>>, <<>>)}}
    \cup {[Entry("v4", <<203, 0, 113, 5>>) EXCEPT !.up = FALSE],
          [Entry("v4", <<203, 0, 113, 5>>) EXCEPT !.excluded = TRUE],
          [Entry("v4", <<172, 32, 0, 0>>) EXCEPT !.family = "packet"]}
    \* The same address on a second interface.
    \cup {Entry("v6", Global) @@ [second |-> TRUE]}

MCUpstreams == {Four(<<203, 0, 113, 9>>, 32), Four(<<10, 0, 0, 7>>, 32), Four(<<198, 18, 0, 9>>, 32),
    Four(<<172, 32, 0, 0>>, 32), Four(<<0, 0, 0, 0>>, 32), Four(<<255, 255, 255, 255>>, 32)}
=============================================================================

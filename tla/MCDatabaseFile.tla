---------------------------- MODULE MCDatabaseFile ----------------------------
(* The inputs: a series without tags and one with two, timestamps of both    *)
(* signs, and a third log record that is one tag larger than fits.           *)
EXTENDS DatabaseFile

Tag(c) == [key |-> <<c>>, value |-> <<>>]
Plain  == [measurement |-> <<2>>, tags |-> <<>>]
Tagged(n) == [measurement |-> <<2>>, tags |-> [i \in 1..n |-> Tag(i)]]
At(t, n) == [timestamp |-> t, value |-> n]

MCInputs ==
    [wal |-> <<[series |-> Plain, sample |-> At(-1, 1)],
               [series |-> Tagged(2), sample |-> At(3, 2)],
               [series |-> Tagged(3), sample |-> At(3, 3)]>>,
     segment |-> <<<<[series |-> Plain, samples |-> <<At(-1, 1)>>]>>,
                   <<[series |-> Plain, samples |-> <<At(-1, 2), At(3, 2)>>],
                     [series |-> Tagged(1), samples |-> <<At(0, 2)>>]>>,
                   <<[series |-> Tagged(2), samples |-> <<At(-1, 3), At(3, 3)>>]>>>>,
     manifest |-> [n \in 1..3 |-> [generation |-> n, logical_sample_count |-> n,
                                   segment_files |-> [i \in 1..n |-> <<i, Extension>>]]]]

\* One flipped bit, and bursts up to the width of the checksum.
MCBursts == {<<1>>, <<1, 1>>, <<1, 0, 1>>, <<1, 1, 1, 1>>, <<1, 0, 0, 1, 0, 1>>, <<1, 1, 1, 1, 1, 1>>}

=============================================================================

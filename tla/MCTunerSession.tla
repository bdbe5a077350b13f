--------------------------- MODULE MCTunerSession ---------------------------
\* Two small ranges, the second of two AM bands, as that of the code is; 5 is in none.
\* The delays are in ticks of 50 ms; the 5 ms of config are one tick and the 1 s of
\* metadataCheck is shortened: only the order matters.
EXTENDS TunerSession

SmallRanges == {[lower |-> 10, upper |-> 13, spacing |-> 2],
                [lower |-> 1, upper |-> 2, spacing |-> 1]}

SmallGetBand == [f \in Freqs |-> IF f = 1 THEN "AM_MW" ELSE IF f = 2 THEN "AM_SW"
                                 ELSE IF f = 5 THEN "UNKNOWN" ELSE "FM"]

SmallDelays == [band |-> 1, step |-> 2, tune |-> 3, seek |-> 4, metadata |-> 5]

=============================================================================

------------------------------ MODULE StreamMC ------------------------------
(* Instances of Stream for TLC.                                              *)
EXTENDS Stream

\* A stream of StreamSize bytes cut every way into frames of MinLen to MaxLen
\* bytes; the frame that ends the stream has the FIN bit.
CONSTANTS StreamSize, MinLen, MaxLen
MCSegments ==
    {[offset |-> o, len |-> n, fin |-> (o + n = StreamSize)] :
        o \in 0 .. StreamSize, n \in MinLen .. MaxLen}
MCFrames == {f \in MCSegments : f.offset + f.len <= StreamSize}
=============================================================================

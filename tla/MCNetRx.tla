------------------------------ MODULE MCNetRx ------------------------------
(* A stream for NetRx: a packet for somebody else, one of two pages with GSO information
   that is cut in two and may be split over two runs of the DPC, and a page that the
   backend failed to copy. *)
EXTENDS NetRx, TLC

MCStream == <<[len |-> <<2>>, mss |-> 0, accept |-> FALSE, bad |-> FALSE],
              [len |-> <<3, 2>>, mss |-> 2, accept |-> TRUE, bad |-> FALSE],
              [len |-> <<2>>, mss |-> 0, accept |-> TRUE, bad |-> TRUE]>>
=============================================================================

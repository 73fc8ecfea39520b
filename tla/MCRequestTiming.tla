--------------------------- MODULE MCRequestTiming ---------------------------
EXTENDS RequestTiming

CONSTANTS c1, c2

\* A request whose calls overlap; then streamed and plain runs of the sampler,
\* with windows that find the channel full and reads and writes that fail, and
\* one whose second event cannot be read after the first was.
AllCalls == {c1, c2}
Limits(requests, sent, counts, ticks, flushed, failed, stream) ==
  [requests |-> requests, windows |-> sent, counts |-> counts, ticks |-> ticks,
   flushes |-> flushed, failures |-> failed, stream |-> stream]
SomeInstances ==
  {[calls |-> AllCalls,  limits |-> Limits(1, 0, 0, 0, 0, 0, FALSE)],
   [calls |-> {c1},      limits |-> Limits(1, 1, 0, 1, 0, 0, FALSE)],
   [calls |-> {},        limits |-> Limits(1, 1, 0, 2, 2, 1, TRUE)],
   [calls |-> {},        limits |-> Limits(2, 3, 0, 2, 1, 0, TRUE)],
   [calls |-> {},        limits |-> Limits(0, 0, 2, 1, 0, 2, FALSE)]}
=============================================================================

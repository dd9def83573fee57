--------------------------- MODULE MCQueueProtocol ---------------------------
(* QueueProtocol on a small instance. *)
EXTENDS QueueProtocol, TLC

\* Authors' clocks differ: the second event is dated before the first, and the
\* third like the first.
Stamps == <<2, 1, 2>>

\* Channels are interchangeable.
Sym == Permutations(Channel)
=============================================================================

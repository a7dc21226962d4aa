--------------------------- MODULE MCLiveCapture ----------------------------
(***************************************************************************)
(* Model-checking instance of LiveCapture.                                 *)
(***************************************************************************)
EXTENDS LiveCapture, TLC

\* Channels are interchangeable.
ChannelSymmetry == Permutations(Channels)

\* What the re-read after a crash is documented to cost: nothing. No content
\* is ever counted more often than the log recorded it (LLD.md, 7.4).
NoOccurrenceCountedTwice ==
    \A h \in Hashes : Cardinality(Occurrences(nodes, h))
                         <= Cardinality(Below([c \in Channels |-> MaxRecords], h))

\* Re-reading after an interruption adds no second node for a record
\* identity: an undated event has one node.
NoDuplicateNode ==
    \A j, k \in DOMAIN nodes : nodes[j].id = nodes[k].id => j = k

\* A pause takes effect: the sink reaches its pause boundary unless the run
\* is resumed or ends first.
PauseTakesEffect ==
    paused ~> (pc = "wait" \/ ~paused)

\* A cancelled run always unwinds, from a pause and from a quiet channel too.
CancelUnwinds == cancelled ~> pc = "idle"
=============================================================================

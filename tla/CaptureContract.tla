--------------------------- MODULE CaptureContract ---------------------------
(***************************************************************************)
(* What live capture promises, with no pipeline in it: records appear in   *)
(* the channels, their contents are kept, and the durable bookmark of a    *)
(* channel may be moved, forwards or backwards, to any position all of     *)
(* whose readable records are kept already.                                *)
(***************************************************************************)
EXTENDS Naturals, Sequences

CONSTANTS Channels, Hashes, Unreadable

VARIABLES
    log,    \* the records of each channel
    kept,   \* contents of the events durably stored
    mark    \* the durable bookmark of each channel

Init ==
    /\ log = [c \in Channels |-> <<>>]
    /\ kept = {}
    /\ mark = [c \in Channels |-> 0]

\* All readable records of channel c up to n are kept.
Covered(c, n) ==
    \A i \in 1 .. Len(log[c]) :
        i <= n /\ log[c][i] # Unreadable => log[c][i] \in kept

Record ==
    /\ \E c \in Channels, r \in Hashes \cup {Unreadable} :
          log' = [log EXCEPT ![c] = Append(@, r)]
    /\ UNCHANGED <<kept, mark>>

\* Contents are kept once they were recorded, and never dropped.
Keep ==
    /\ kept \subseteq kept'
    /\ kept' \subseteq
          kept \cup UNION {{log[c][i] : i \in 1 .. Len(log[c])} : c \in Channels}
    /\ UNCHANGED <<log, mark>>

MoveMark ==
    /\ mark' \in [Channels -> Nat]
    /\ \A c \in Channels : mark'[c] <= Len(log[c]) /\ Covered(c, mark'[c])
    /\ UNCHANGED <<log, kept>>

Next == Record \/ Keep \/ MoveMark

Spec == Init /\ [][Next]_<<log, kept, mark>>
=============================================================================

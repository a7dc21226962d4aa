---------------------------- MODULE MCRuleRegistry ----------------------------
(* The goroutines that serve bindings are interchangeable. *)
EXTENDS RuleRegistry, TLC

CallerSymmetry == Permutations(Callers)

-----------------------------------------------------------------------------
(* What the code does not keep (README, Known divergences): each is violated  *)
(* within the bounds of this module's configurations.                         *)

\* The registry is safe for concurrent use (registry.go): once no call is
\* running, it holds what the directory holds.
CallersAgreeWithDisk ==
    Quiet /\ faults = 0 => valid = Loaded(files, enabled) /\ state = enabled

\* A rule that exists twice is reported by the scan (save.go).
TwiceIsReported ==
    Quiet => \A i, j \in Ids :
                i # j /\ IsUser(valid[i]) /\ IsUser(valid[j]) => valid[i].text.rule # valid[j].text.rule

\* A rule switched off stays off, also when a rename is cut short.
OffSurvivesCrash ==
    Quiet /\ together = "never" /\ faults = 0 =>
        \A id \in Ids : IsUser(valid[id]) /\ valid[id].text.rule \in off \ copied => ~valid[id].on

\* A file that holds a rule is only written over by a call about that rule.
FilesKeepTheirRule ==
    [][Apart => \A f \in Files : IsRule(files[f]) /\ files'[f] # files[f] =>
          \E c \in Callers : \/ IsUser(job[c].old) /\ job[c].old.text.rule = files[f].rule
                             \/ job[c].replace = f]_vars

\* An explicitly disabled rule stays disabled through a rename (save.go): not the copy of it
\* that an earlier edit has left behind, once the other one is renamed.
OffThroughCopies ==
    Quiet /\ Orderly =>
        \A id \in Ids : IsUser(valid[id]) /\ valid[id].text.rule \in off => ~valid[id].on

\* A save that succeeds returns the rule it saved.
SaveAlwaysLoads ==
    Apart => \A c \in Callers : pc[c] = "found" => valid[job[c].text.id].text = job[c].text
=============================================================================

---------------------------- MODULE CaseIntegrity ----------------------------
(* The case check (backend/caseintegrity) beside the calls of CaseFiles: it    *)
(* takes no lock, each detector reads a store or two one after the other, and  *)
(* the case changes between the reads. What it reports is compared with what   *)
(* was wrong with the case while it ran.                                       *)
EXTENDS CaseFiles

CONSTANT Rules       \* the enabled rules, by the events they match: [step, keyed]

VARIABLES check,     \* the check: its next read, what it has read, reported and could not read
          ever,      \* what has been wrong at some time since the check began
          always,    \* what has been wrong all that time
          during     \* what has been taken or brought in that misleads a detector, by its problem

checkVars == <<caseVars, check, ever, always, during>>

\* What a read of the events says of the case, in place of the events themselves.
Inventory == [channels |-> {e.hash : e \in events},
              covered  |-> {e.hash : e \in {x \in events : x.current}},
              outdated |-> \E e \in events : ~e.current,
              refs     |-> {e.ref : e \in events}]
\* The log goes on behind the last record an event points at.
TailBehind(refs) == log > 0 /\ \A ref \in refs : ref < log
LaidOut == {g \in GraphIds : layouts[g] # {}}

-----------------------------------------------------------------------------
(* What can be wrong with the case, as it is now.                              *)

\* A rule cannot fire without events of its step, nor match on a key no event carries.
Inert(r) == r.step \notin Inventory.channels
Keyless(r, inv) == r.keyed /\ inv.covered = {}

\* A problem is its code and the thing it is about, 0 for the case.
If(cond, code) == IF cond THEN {<<code, 0>>} ELSE {}
Of(code, things) == {<<code, x>> : x \in things}

\* Findings kept under the hashes of an older build are a problem of their own.
Problems(stale) ==
    Of("unindexed", {r.id : r \in {x \in rels : ~x.indexed}})
    \cup Of("dangling", {r.id : r \in {x \in rels : ~({x.from, x.to} \subseteq Ids)}})
    \cup Of("orphanFindings", IF stale THEN {} ELSE DOMAIN finds \ Inventory.channels)
    \cup If(stale /\ DOMAIN finds # {}, "staleFindings")
    \cup Of("orphanGraph", {r.graph : r \in rels} \ graphs)
    \cup Of("emptyGraph", graphs \ {r.graph : r \in rels})
    \cup Of("orphanLayout", LaidOut \ graphs)
    \cup If(TailBehind(Inventory.refs), "payloadTail")
    \cup If(Inventory.outdated, "staleProjection")
    \cup Of("missingChannel", {r \in Rules : r.step \notin Inventory.channels})
    \cup Of("ruleInert", {r \in Rules : Inert(r)})
    \cup Of("ruleBlocked", {r \in Rules : ~Inert(r) /\ Keyless(r, Inventory)})

-----------------------------------------------------------------------------
(* The check, one read of a store a step.                                      *)

\* stale: the findings are an older build's; inv: the inventory, or none; unmeasured: the log's
\* used part could not be read; uncounted: the steps whose events could not be counted.
Idle == [at |-> "idle", stale |-> FALSE, inv |-> {}, set |-> {}, found |-> {}, failed |-> {},
         unmeasured |-> FALSE, uncounted |-> {}]

\* The stages, in the order Run takes them; a detector with two reads has two.
Then == [used |-> "size", size |-> "inventory", inventory |-> "edges", edges |-> "index",
         index |-> "relations", relations |-> "endpoints", endpoints |-> "keys", keys |-> "hashes",
         hashes |-> "counts", counts |-> "registered", registered |-> "files", files |-> "owners",
         owners |-> "rules", rules |-> "done"]

\* The check goes on to the next read, remembers what it has read, and reports.
Reads(at, set, found) ==
    /\ check.at = at
    /\ check' = [check EXCEPT !.at = Then[at], !.set = set, !.found = @ \cup found]

StartCheck ==
    /\ check.at = "idle"
    /\ \E stale \in BOOLEAN :
          /\ check' = [Idle EXCEPT !.at = "used", !.stale = stale]
          /\ LET wrong == Problems(stale) IN ever' = wrong /\ always' = wrong
    /\ during' = {}

\* The end of the log's used part, its size, and the inventory are three reads.
ReadUsed == Reads("used", Inventory.refs, {})
ReadSize == Reads("size", {}, If(TailBehind(check.set), "payloadTail"))
ReadInventory ==
    /\ check.at = "inventory"
    /\ check' = [check EXCEPT !.at = Then[@], !.inv = {Inventory}]
ReadEdges == Reads("edges", {r.id : r \in rels}, {})
ReadIndex ==
    Reads("index", {}, Of("unindexed", check.set \ {r.id : r \in {x \in rels : x.indexed}}))
ReadRelations == Reads("relations", rels, {})
ReadEndpoints ==
    Reads("endpoints", {},
          Of("dangling", {r.id : r \in {x \in check.set : ~({x.from, x.to} \subseteq Ids)}}))
ReadKeys == DOMAIN finds # {} /\ ~check.stale /\ Reads("keys", DOMAIN finds, {})
\* No hash is looked up for no findings, or for an older build's.
KeysSettle ==
    /\ check.at = "keys" /\ (DOMAIN finds = {} \/ check.stale)
    /\ check' = [check EXCEPT !.at = "counts", !.set = {},
                              !.found = @ \cup If(DOMAIN finds # {}, "staleFindings")]
\* Mutant: the events are looked up by their correlation keys, which not all of them have.
HashesOfIndexed == Reads("hashes", {}, Of("orphanFindings", check.set \ Inventory.covered))
ReadHashes == Reads("hashes", {}, Of("orphanFindings", check.set \ Inventory.channels))
ReadCounts == Reads("counts", {r.graph : r \in rels}, {})
ReadRegistered ==
    Reads("registered", {}, Of("orphanGraph", check.set \ graphs)
                            \cup Of("emptyGraph", graphs \ check.set))
ReadFiles == Reads("files", LaidOut, {})
ReadOwners == Reads("owners", {}, Of("orphanLayout", check.set \ graphs))
\* The rules are judged by the events there are now and the inventory there was, if any. A step
\* whose events cannot be counted passes for one that has some, and the report says so.
ReadRules(uncounted) ==
    LET inert == {r \in Rules : r.step \notin uncounted /\ Inert(r)}
    IN /\ check.at = "rules"
       /\ check' =
             [check EXCEPT !.at = Then[@], !.set = {}, !.uncounted = uncounted,
                !.found = @ \cup If(\E i \in check.inv : i.outdated, "staleProjection")
                            \cup Of("missingChannel", {r \in Rules : \E i \in check.inv : r.step \notin i.channels})
                            \cup Of("ruleInert", inert)
                            \cup Of("ruleBlocked", {r \in Rules \ inert : \E i \in check.inv : Keyless(r, i)})]

\* A read that fails ends its detector, and the report says so.
Skips == [inventory |-> "edges", edges |-> "relations", index |-> "relations", relations |-> "keys",
          endpoints |-> "keys", hashes |-> "counts", counts |-> "files", files |-> "rules"]
\* Mutant: the report does not say what could not be checked.
FailsUnsaid ==
    /\ check.at \in DOMAIN Skips
    /\ check' = [check EXCEPT !.at = Skips[@], !.set = {}]
ReadFails ==
    /\ check.at \in DOMAIN Skips
    /\ check' = [check EXCEPT !.at = Skips[@], !.set = {}, !.failed = @ \cup {Skips[check.at]}]
\* But not if it is the read that tells how much of the log is used.
UsedFails ==
    /\ check.at = "used"
    /\ check' = [check EXCEPT !.at = "inventory", !.unmeasured = TRUE]
CountsFail == \E uncounted \in SUBSET {r.step : r \in Rules} \ {{}} : ReadRules(uncounted)

CheckStep ==
    \/ ReadUsed \/ ReadSize \/ ReadInventory \/ ReadEdges \/ ReadIndex \/ ReadRelations
    \/ ReadEndpoints \/ ReadKeys \/ KeysSettle \/ ReadHashes \/ ReadCounts \/ ReadRegistered
    \/ ReadFiles \/ ReadOwners \/ ReadRules({})

-----------------------------------------------------------------------------
Running == check.at \notin {"idle", "done"}

\* What the step takes from the case or brings into it.
Changes ==
    {what \in {"eventDeleted", "eventStored", "relationDeleted", "findingRemoved", "graphUnregistered"} :
        CASE what = "eventDeleted"      -> \E e \in events : ~\E d \in events' : d.id = e.id /\ d.hash = e.hash
          [] what = "eventStored"       -> ~(Ids' \subseteq Ids)
          [] what = "relationDeleted"   -> \E r \in rels : r.id \notin {x.id : x \in rels'}
          [] what = "findingRemoved"    -> ~(DOMAIN finds \subseteq DOMAIN finds')
          [] what = "graphUnregistered" -> ~(graphs \subseteq graphs')}
\* What a detector takes for damage, when all of it happens before one of these reads: a relation
\* is deleted; an event with its relations; a finding and then its event; a graph's relations and
\* the graph; a rule's events come after the inventory.
AfterInventory == DOMAIN Then \ {"used", "size", "inventory"}
Mistaken ==
    [unindexed      |-> [before |-> {"index"}, changes |-> {"relationDeleted"}],
     dangling       |-> [before |-> {"endpoints"}, changes |-> {"eventDeleted"}],
     orphanFindings |-> [before |-> {"hashes"}, changes |-> {"findingRemoved", "eventDeleted"}],
     orphanGraph    |-> [before |-> {"registered"}, changes |-> {"relationDeleted", "graphUnregistered"}],
     ruleBlocked    |-> [before |-> AfterInventory, changes |-> {"eventStored"}]]
Misleads ==
    UNION {{<<code, what>> : what \in Changes \cap Mistaken[code].changes}
              : code \in {c \in DOMAIN Mistaken : check.at \in Mistaken[c].before}}
Watch ==
    IF Running
    THEN LET wrong == Problems(check.stale)'
         IN ever' = ever \cup wrong /\ always' = always \cap wrong /\ during' = during \cup Misleads
    ELSE UNCHANGED <<ever, always, during>>

CheckInit == InitCase /\ check = Idle /\ ever = {} /\ always = {} /\ during = {}

\* The notes, the snapshots and the clock, which the check does not read, stand still here.
\* Once the report is out nothing more is asked of it.
CheckNext ==
    \/ check.at # "done" /\ (EditFiles \/ EditStore \/ EditGraphs) /\ UNCHANGED check /\ Watch
    \/ check.at # "done" /\ Restart /\ check' = Idle /\ ever' = {} /\ always' = {} /\ during' = {}
    \/ StartCheck /\ UNCHANGED caseVars
    \/ CheckStep /\ UNCHANGED <<caseVars, ever, always, during>>
    \/ (ReadFails \/ UsedFails \/ CountsFail) /\ Writes(FALSE)
       /\ UNCHANGED <<graphs, made, storeVars, fileVars, deletion, clock, calls, ever, always, during>>

CheckSpec == CheckInit /\ [][CheckNext]_checkVars

-----------------------------------------------------------------------------
\* The detector a problem is for, by the read that follows it.
Detector(code) ==
    CASE code \in {"staleProjection", "missingChannel", "ruleBlocked"} -> "edges"
      [] code = "unindexed" -> "relations" [] code = "dangling" -> "keys"
      [] code \in {"orphanFindings", "staleFindings"} -> "counts"
      [] code \in {"orphanGraph", "emptyGraph"} -> "files"
      [] code = "orphanLayout" -> "rules" [] OTHER -> "none"
\* The report has the problem, or says that it could not look for it.
Told(p) ==
    \/ p \in check.found \/ Detector(p[1]) \in check.failed
    \/ p[1] = "ruleInert" /\ p[2].step \in check.uncounted

\* What was wrong with the case all the time the check ran is in its report, or the report says
\* that it could not look (caseintegrity.go:66), save for a log it could not measure: a first
\* inventory that fails is passed over in silence (api_integrity.go:79).
LastingIsReported ==
    check.at = "done" => \A p \in always : Told(p) \/ (p[1] = "payloadTail" /\ check.unmeasured)
\* What the code does not keep: the same of every problem.
AllLastingIsReported == check.at = "done" => \A p \in always : Told(p)

\* Just the changes its detector mistakes came between its two reads, or a count that failed
\* made an inert rule pass for a blocked one, and the report owns that (caseintegrity.go:490).
Excused(p) ==
    \/ p[1] \in DOMAIN Mistaken /\ \A what \in Mistaken[p[1]].changes : <<p[1], what>> \in during
    \/ p[1] = "ruleBlocked" /\ p[2].step \in check.uncounted

\* What the report says was wrong was wrong at some time during the check, however the case
\* changed meanwhile, with no excuse but these.
OnlyRacesMislead == \A p \in check.found \ ever : Excused(p)
=============================================================================

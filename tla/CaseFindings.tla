----------------------------- MODULE CaseFindings -----------------------------
(* The analyst's findings (backend/findings): one file, keyed by the content   *)
(* hash of the event, and what each operation makes of the records in it.      *)
EXTENDS Functions

CONSTANTS Tags, Blank     \* labels; an absent descriptor

NoFindings == [k \in {} |-> {}]

IsEmpty(f) == ~f.flagged /\ f.tags = {} /\ ~f.noted

\* What a request leaves of the record under its key: when it was first made, and what it describes.
Merged(recs, key, req, now) ==
    [flagged |-> req.flagged, tags |-> req.tags, noted |-> req.noted, updated |-> now,
     created |-> IF key \in DOMAIN recs THEN recs[key].created ELSE now,
     descriptor |-> IF req.descriptor = Blank /\ key \in DOMAIN recs
                    THEN recs[key].descriptor ELSE req.descriptor]

Removed(recs, key) == Restrict(recs, DOMAIN recs \ {key})
\* A record with no flag, no tag and no note is not kept.
Set(recs, key, req, now) ==
    LET next == Merged(recs, key, req, now)
    IN IF IsEmpty(next) THEN Removed(recs, key)
       ELSE [k \in DOMAIN recs \cup {key} |-> IF k = key THEN next ELSE recs[k]]

\* The keys a state of the findings selects; "none" selects by exclusion.
Keys(recs, state) ==
    {k \in DOMAIN recs : /\ state = "flagged" => recs[k].flagged
                         /\ state = "noted" => recs[k].noted}
KeysWithTag(recs, tag) == {k \in DOMAIN recs : tag \in recs[k].tags}
=============================================================================

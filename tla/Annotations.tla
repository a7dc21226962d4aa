----------------------------- MODULE Annotations -----------------------------
(* The notes an analyst pins to one graph's canvas (backend/annotate): what    *)
(* each operation makes of the graph's document. A document is a sequence of   *)
(* layers and a sequence of items; CaseFiles holds the documents, their files  *)
(* and the calls.                                                              *)
EXTENDS Naturals, Sequences, FiniteSetsExt, SequencesExt

CONSTANTS Hashes,      \* what an event anchor names: the event's content hash
          MaxLayers,   \* layers a document may hold
          MaxItems     \* items a document may hold

NoId == <<>>           \* the id a request leaves empty
World == "world"       \* an anchor that is a fixed place
NoHash == "noHash"    \* an event anchor without the hash it must carry
NoAnchor == "none"     \* the second anchor of what is not an arrow

EmptyDoc == [layers |-> <<>>, items |-> <<>>]

IdsOf(entries) == {entries[i].id : i \in DOMAIN entries}
Position(entries, id) == SelectInSeq(entries, LAMBDA e : e.id = id)

\* An id is derived: the instant, and how many entries there are.
NewId(now, entries) == <<now, Len(entries)>>
NextZ(layers) == Max({0} \cup {layers[i].z + 1 : i \in DOMAIN layers})

AddLayer(doc, now) ==
    [doc EXCEPT !.layers = Append(@, [id |-> NewId(now, doc.layers), z |-> NextZ(doc.layers)])]
RestackLayer(doc, id, z) == [doc EXCEPT !.layers[Position(doc.layers, id)].z = z]

\* The entries that are not gone, in their order.
Without(entries, gone) ==
    LET left[n \in 0 .. Len(entries)] ==
            IF n = 0 THEN <<>>
            ELSE IF entries[n] \in gone THEN left[n - 1]
            ELSE Append(left[n - 1], entries[n])
    IN  left[Len(entries)]
DropLayer(doc, id) ==
    [layers |-> Without(doc.layers, {l \in Range(doc.layers) : l.id = id}),
     items  |-> Without(doc.items, {it \in Range(doc.items) : it.layer = id})]
DropItem(doc, id) ==
    [doc EXCEPT !.items = Without(doc.items, {it \in Range(doc.items) : it.id = id})]

Valid(it) ==
    /\ it.anchor # NoHash
    /\ it.kind = "arrow" => it.to \notin {NoAnchor, NoHash}

\* A request that names no layer goes to the first one, which is made if there is none.
WithLayer(doc, it, now) ==
    IF it.layer = NoId /\ doc.layers = <<>> THEN AddLayer(doc, now) ELSE doc
PutRefused(doc, it) == ~Valid(it) \/ it.layer \notin {NoId} \cup IdsOf(doc.layers)
Updates(doc, it) == it.id # NoId /\ it.id \in IdsOf(doc.items)
PutFull(doc, it) == ~Updates(doc, it) /\ Len(doc.items) >= MaxItems

\* What a request is stored as, if it is about the note `uid`. An id can be given out twice: uid
\* tells the notes apart here, and the code has nothing like it.
Item(doc, it, now, uid) ==
    [id |-> IF Updates(doc, it) THEN it.id ELSE NewId(now, doc.items), uid |-> uid,
     kind |-> it.kind, anchor |-> it.anchor, to |-> IF it.kind = "arrow" THEN it.to ELSE NoAnchor,
     layer |-> IF it.layer = NoId THEN WithLayer(doc, it, now).layers[1].id ELSE it.layer]
\* The first note of the id is overwritten, or the note `uid` is new.
Put(doc, it, now, uid) ==
    LET d  == WithLayer(doc, it, now)
        at == Position(doc.items, it.id)
    IN IF Updates(doc, it)
       THEN [d EXCEPT !.items[at] = Item(doc, it, now, doc.items[at].uid)]
       ELSE [d EXCEPT !.items = Append(@, Item(doc, it, now, uid))]
\* The notes that have the id of another.
Twins(items) ==
    {it.uid : it \in {x \in Range(items) : \E y \in Range(items) : y.id = x.id /\ y.uid # x.uid}}
=============================================================================

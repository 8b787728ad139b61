---------------------------- MODULE DesignEditor ----------------------------
(***************************************************************************)
(* The layered design editor of one browser page and the design versions   *)
(* it saves.  The page keeps the design three times: the objects on the    *)
(* Fabric canvas, the document of documentRef and the present of the       *)
(* session's history.  Drawing a document clears the canvas and adds its   *)
(* layers from the bottom up, waiting for the download of every picture;   *)
(* between two downloads the user goes on editing.                         *)
(***************************************************************************)
EXTENDS Naturals, Sequences, FiniteSets, SequencesExt, FiniteSetsExt

CONSTANTS
  Assets,        \* generated pictures of the project
  HistoryLimit,  \* DEFAULT_HISTORY_LIMIT
  MaxLayers,     \* layers of a document
  MaxEdits,      \* bound: operations of the user
  MaxVersions,   \* bound: saved versions
  None

ASSUME EditorAssumption ==
  /\ HistoryLimit \in Nat \ {0}
  /\ MaxLayers \in Nat /\ MaxLayers >= 3  \* the layers of the first document
  /\ MaxEdits \in Nat /\ MaxVersions \in Nat
  /\ None \notin Assets

VARIABLES
  document,  \* documentRef: a document, or None before the first is drawn
  past, present, future,  \* DesignHistory
  offered,   \* historyState: what the undo and redo buttons believe
  canvas,    \* the objects on the Fabric canvas, bottom first
  renders,   \* the calls of renderOnCanvas() that wait for a picture
  busy,      \* the switch that disables most buttons
  posts,     \* saves under way: the document, and if this page waits
  versions,  \* table DesignVersion, by version number
  edits,     \* operations so far; names new layers and new looks
  touched,   \* something was edited since the last drawing began (history)
  whole,     \* the last drawing ended, and nothing was edited meanwhile (history)
  settled    \* no undo was left half done or overlapped by an edit (history)

history == <<past, present, future, offered>>
marks == <<touched, whole, settled>>
vars == <<document, history, canvas, renders, busy, posts, versions, edits, marks>>

-----------------------------------------------------------------------------
(* Documents: their layers in the order of zIndex.  The look of a layer    *)
(* stands for every attribute the inspector or the mouse changes.          *)

Kinds == {"background", "product", "text"}

Layer(kind, id, asset) == [kind |-> kind, id |-> id, asset |-> asset, look |-> 0]

Product  == Layer("product", 0, None)
Headline == Layer("text", 0, None)

Backdrop(asset) == Layer("background", 0, asset)

Same(l, m)  == l.kind = m.kind /\ l.id = m.id
Has(doc, l) == \E i \in DOMAIN doc : Same(doc[i], l)

OfKind(doc, kind) == {i \in DOMAIN doc : doc[i].kind = kind}

\* Mutant of Valid: a document may lack its product.
ValidWithoutProduct(doc) == Len(doc) \in 1..MaxLayers

\* designDocumentSchema: one product, at most one background below all
\* others, no identifier twice.
Valid(doc) ==
  /\ Len(doc) \in 1..MaxLayers
  /\ \E i \in DOMAIN doc : OfKind(doc, "product") = {i}
  /\ OfKind(doc, "background") \subseteq {1}
  /\ \A i, j \in DOMAIN doc : Same(doc[i], doc[j]) => i = j

\* createInitialDesignDocument(), with and without a background.
Initial == {<<Product, Headline>>} \cup {<<Backdrop(a), Product, Headline>> : a \in Assets}

\* Documents the user may paste: a text below the product.
Pasted == {<<Headline, Product>>} \cup {<<Backdrop(a), Headline, Product>> : a \in Assets}

\* updateLayer()'s map over the layers.
Changed(doc, l, look) ==
  [i \in DOMAIN doc |-> IF Same(doc[i], l) THEN [doc[i] EXCEPT !.look = look]
                                           ELSE doc[i]]

\* replaceBackgroundAsset(): the layer keeps everything but its picture.
WithBackground(doc, asset) ==
  LET backdrops == OfKind(doc, "background") IN
  IF asset = None
    THEN IF backdrops = {} THEN doc ELSE Tail(doc)
    ELSE IF backdrops = {} THEN <<Backdrop(asset)>> \o doc
                           ELSE [doc EXCEPT ![1].asset = asset]

\* reorderLayer(): two neighbours change places; the background stays.
Moved(doc, i, j) ==
  IF j \in DOMAIN doc /\ doc[j].kind # "background"
    THEN [doc EXCEPT ![i] = doc[j], ![j] = doc[i]]
    ELSE doc

-----------------------------------------------------------------------------
Rendering == renders # {}

\* switchBackground() and loadJson() set busy and clear it in the end.
KeepsBusy(r) == r.op \in {"switch", "json"}

IsPicture(l) == l.kind # "text"

\* How many layers of s, from the first k on, appear before the next wait: a
\* text needs no download.
Ready(s, k) ==
  LET pictures == {i \in (k + 1)..Len(s) : IsPicture(s[i])}
  IN IF pictures = {} THEN Len(s) ELSE Min(pictures) - 1

First(s, n) == SubSeq(s, 1, n)
After(s, n) == SubSeq(s, n + 1, Len(s))

Init ==
  /\ document = None
  /\ past = <<>> /\ present = None /\ future = <<>>
  /\ offered = [undo |-> FALSE, redo |-> FALSE]
  /\ canvas = <<>>
  /\ renders = {}
  /\ busy = FALSE
  /\ posts = {} /\ versions = <<>>
  /\ edits = 0
  /\ touched = FALSE /\ whole = TRUE /\ settled = TRUE

Edit == edits < MaxEdits /\ edits' = edits + 1

\* Mutant of Superseded: the drawing under way is not aborted.
NotSuperseded(rs) == rs

\* renderAbortRef.current?.abort(): the drawing under way throws AbortError.
Superseded(rs) == {r \in rs : FALSE}

\* renderOnCanvas() up to its first wait: the canvas is cleared.
Render(op, next) ==
  LET n == Ready(next, 0) IN
  /\ canvas' = First(next, n)
  /\ renders' = Superseded(renders) \cup
                  {[op |-> op, next |-> next, left |-> After(next, n)]}
  /\ touched' = FALSE /\ whole' = FALSE

\* syncHistoryState()
Sync == offered' = [undo |-> past' # <<>>, redo |-> future' # <<>>]

\* DesignHistory.push(), of a document that was drawn or changed in place.
Push(next) ==
  /\ IF next = present
       THEN UNCHANGED <<past, present, future>>
       ELSE /\ past' = LET longer == Append(past, present) IN
                       IF Len(longer) > HistoryLimit THEN Tail(longer) ELSE longer
            /\ present' = next
            /\ future' = <<>>
  /\ document' = next
  /\ Sync

\* What follows the await of renderOnCanvas(), by the operation that waits.
Drawn(op, next) ==
  CASE op = "load" ->
         /\ past' = <<>> /\ present' = next /\ future' = <<>>
         /\ document' = next /\ Sync /\ settled' = TRUE
    [] op \in {"commit", "switch", "json"} -> Push(next) /\ settled' = TRUE
    [] op = "history" ->
         /\ UNCHANGED <<past, present, future>>
         /\ document' = next /\ Sync
         /\ settled' = ~touched
    [] op = "restore" -> UNCHANGED <<document, history, settled>>

\* A picture arrives, and the texts above it follow in the same turn.
Draw(r) ==
  LET n == Ready(r.left, 1) IN
  /\ canvas' = canvas \o First(r.left, n)
  /\ IF n < Len(r.left)
       THEN /\ renders' = (renders \ {r}) \cup {[r EXCEPT !.left = After(@, n)]}
            /\ UNCHANGED <<document, history, busy, whole, settled>>
       ELSE /\ renders' = renders \ {r}
            /\ Drawn(r.op, r.next)
            /\ busy' = (busy /\ ~KeepsBusy(r))
            /\ whole' = ~touched
  /\ UNCHANGED <<posts, versions, edits, touched>>

\* A picture cannot be downloaded: what is on the canvas stays there.
DrawFails(r) ==
  /\ renders' = renders \ {r}
  /\ busy' = (busy /\ ~KeepsBusy(r))
  /\ UNCHANGED <<document, history, canvas, posts, versions, edits, marks>>

-----------------------------------------------------------------------------
(* The user.  An operation that draws ends the drawing of another, and     *)
(* with it that operation: its finally block makes the page not busy.      *)

Open(doc) ==
  /\ document = None /\ ~Rendering
  /\ Render("load", doc)
  /\ UNCHANGED <<document, history, busy, posts, versions, edits, settled>>

\* A reload of the page: the history is of the session only.
Reload ==
  /\ document # None
  /\ document' = None
  /\ past' = <<>> /\ present' = None /\ future' = <<>>
  /\ offered' = [undo |-> FALSE, redo |-> FALSE]
  /\ canvas' = <<>> /\ renders' = {}
  /\ busy' = FALSE
  /\ posts' = {[p EXCEPT !.mine = FALSE] : p \in posts}
  /\ touched' = FALSE /\ whole' = TRUE /\ settled' = TRUE
  /\ UNCHANGED <<versions, edits>>

\* commitAndRender() up to its wait.
CommitAndRender(op, next) ==
  /\ Valid(next)
  /\ Edit
  /\ Render(op, next)
  /\ busy' = \/ op \in {"switch", "json"}
             \/ busy /\ \A r \in renders : ~KeepsBusy(r)
  /\ UNCHANGED <<document, history, posts, versions, settled>>

Enabled == document # None /\ ~busy

AddText ==
  /\ Enabled
  /\ CommitAndRender("commit", Append(document, Layer("text", edits + 1, None)))

\* The inspector's buttons are not disabled while the page is busy.  No two
\* layers have one identifier: the filter takes away this one.
DeleteLayer(i) ==
  /\ document[i].kind # "product"
  /\ CommitAndRender("commit", RemoveAt(document, i))

MoveLayer(i) ==
  /\ document[i].kind # "background"
  /\ \E j \in {i - 1, i + 1} : CommitAndRender("commit", Moved(document, i, j))

SwitchBackground(asset) ==
  /\ Enabled
  /\ WithBackground(document, asset) # document
  /\ CommitAndRender("switch", WithBackground(document, asset))

LoadJson(doc) ==
  /\ Enabled
  /\ CommitAndRender("json", doc)

\* updateLayer(): canvas, history and document at once, drawing or not; an
\* object that is not on the canvas yet is an error and nothing changes.
UpdateLayer(i) ==
  /\ Has(canvas, document[i])
  /\ Edit
  /\ canvas' = Changed(canvas, document[i], edits + 1)
  /\ Push(Changed(document, document[i], edits + 1))
  /\ touched' = Rendering
  /\ settled' = \A r \in renders : r.op # "history"
  /\ UNCHANGED <<renders, busy, posts, versions, whole>>

\* commitCanvasChange(): the mouse has changed an object, and the document is
\* read back from the canvas, but not while it is drawn; what the schema
\* refuses, a missing product or a number out of range, is drawn again from
\* the document.
MouseEdit(i) ==
  LET seen == Changed(canvas, canvas[i], edits + 1) IN
  /\ canvas[i].kind # "background"
  /\ Edit
  /\ \/ /\ Rendering \/ document = None
        /\ canvas' = seen /\ touched' = TRUE
        /\ UNCHANGED <<document, history, renders, whole, settled>>
     \/ /\ ~Rendering /\ document # None /\ Valid(seen)
        /\ canvas' = seen /\ Push(seen)
        /\ settled' = TRUE
        /\ UNCHANGED <<renders, whole, touched>>
     \/ /\ ~Rendering /\ document # None
        /\ Render("restore", document)
        /\ UNCHANGED <<document, history, settled>>
  /\ UNCHANGED <<busy, posts, versions>>

\* undo() and redo(): the history moves before the document is drawn.
Undo ==
  /\ Enabled /\ offered.undo /\ past # <<>>
  /\ Edit
  /\ past' = Front(past) /\ present' = Last(past)
  /\ future' = <<present>> \o future
  /\ Render("history", present')
  /\ settled' = FALSE
  /\ UNCHANGED <<document, offered, busy, posts, versions>>

Redo ==
  /\ Enabled /\ offered.redo /\ future # <<>>
  /\ Edit
  /\ past' = Append(past, present) /\ present' = Head(future)
  /\ future' = Tail(future)
  /\ Render("history", present')
  /\ settled' = FALSE
  /\ UNCHANGED <<document, offered, busy, posts, versions>>

-----------------------------------------------------------------------------
(* saveVersion() of the page and of DesignVersionService.                  *)

SaveVersion ==
  /\ Enabled
  /\ Len(versions) + Cardinality(posts) < MaxVersions
  /\ posts' = posts \cup {[doc |-> document, mine |-> TRUE]}
  /\ busy' = TRUE
  /\ UNCHANGED <<document, history, canvas, renders, versions, edits, marks>>

\* One transaction under the lock of the project row: the next number and the
\* document, and the answer may be an error all the same; or the revision or
\* a picture is not of this project.  The page learns the end of its own post.
StoreVersion(p) ==
  /\ versions' \in {versions, Append(versions, p.doc)}
  /\ posts' = posts \ {p}
  /\ busy' = (busy /\ ~p.mine)
  /\ UNCHANGED <<document, history, canvas, renders, edits, marks>>

-----------------------------------------------------------------------------
Next ==
  \/ \E doc \in Initial : Open(doc)
  \/ Reload
  \/ \E r \in renders : Draw(r) \/ DrawFails(r)
  \/ AddText
  \/ document # None /\ \E i \in DOMAIN document :
       DeleteLayer(i) \/ MoveLayer(i) \/ UpdateLayer(i)
  \/ \E i \in DOMAIN canvas : MouseEdit(i)
  \/ \E asset \in Assets \cup {None} : SwitchBackground(asset)
  \/ \E doc \in Pasted : LoadJson(doc)
  \/ Undo \/ Redo
  \/ SaveVersion
  \/ \E p \in posts : StoreVersion(p)

Spec == Init /\ [][Next]_vars

-----------------------------------------------------------------------------
(* Properties.                                                             *)

Layers == [kind : Kinds, id : 0..MaxEdits, asset : Assets \cup {None},
           look : 0..MaxEdits]

Documents == {doc \in Seq(Layers) : Valid(doc)}

ASSUME NoneAssumption == None \notin Documents

Drawing == [op : {"load", "commit", "switch", "json", "history", "restore"},
            next : Documents, left : Seq(Layers)]

TypeOK ==
  /\ document = None \/ document \in Documents
  /\ document = None <=> present = None
  /\ present = None \/ present \in Documents
  /\ past \in Seq(Documents) /\ future \in Seq(Documents)
  /\ offered \in [undo : BOOLEAN, redo : BOOLEAN]
  /\ canvas \in Seq(Layers)
  /\ renders \subseteq Drawing
  /\ posts \subseteq [doc : Documents, mine : BOOLEAN]
  /\ versions \in Seq(Documents)
  /\ edits \in 0..MaxEdits
  /\ busy \in BOOLEAN /\ whole \in BOOLEAN
  /\ touched \in BOOLEAN /\ settled \in BOOLEAN

\* Once a document is drawn, and nothing was edited while it was, the page
\* shows what it would save, however many drawings were given up before; and
\* that is the present of the history, but for an undo that was left half
\* done or overlapped by an edit.
CopiesAgree ==
  /\ whole /\ ~Rendering /\ document # None => canvas = document
  /\ settled => present = document

\* The history is bounded, redo included.
HistoryBounded == Len(past) + Len(future) <= HistoryLimit

SameShape(s, t) == Len(s) = Len(t) /\ \A i \in DOMAIN s : Same(s[i], t[i])

\* What a drawing under way is to the canvas: the canvas has its first layers,
\* as they were drawn unless they were edited since, and the next one is the
\* picture it waits for.
DrawnSoFar(r) ==
  LET n == Len(canvas) IN
  /\ n < Len(r.next) /\ IsPicture(r.next[n + 1])
  /\ r.left = After(r.next, n)
  /\ \A i \in 1..n : Same(canvas[i], r.next[i])
  /\ ~touched => \A i \in 1..n : canvas[i] = r.next[i]

\* There is one drawing at most; what undo and redo draw is the present, and
\* what the refused end of a drag draws again is the document.
DrawingInv ==
  /\ \A q, r \in renders : q = r
  /\ Rendering => ~whole
  /\ \A r \in renders :
       /\ DrawnSoFar(r)
       /\ r.op # "load" => document # None
       /\ r.op = "history" /\ ~touched => r.next = present
       /\ r.op = "restore" => SameShape(r.next, document)
       /\ r.op = "restore" /\ ~touched => r.next = document

\* A canvas at rest that shows the product shows every layer of the document,
\* since the product is the last picture to arrive: no canvas that a failed
\* drawing has left half empty can be mistaken for a design.
CanvasInv ==
  (\E i \in DOMAIN canvas : canvas[i].kind = "product") /\ ~Rendering
    => document # None /\ SameShape(canvas, document)

\* The three copies agree where CopiesAgree says so (nothing is claimed after a
\* failed or overlapped drawing, or a half-done undo), and whatever was kept is a
\* design that can be opened: one product, its background below.
EditorInv == TypeOK /\ CopiesAgree /\ HistoryBounded /\ DrawingInv /\ CanvasInv

Names(doc) == {<<doc[i].kind, doc[i].id>> : i \in DOMAIN doc}

\* Dragging an object never takes a layer from the design, although the
\* document is read back from a canvas that a failed drawing has left half
\* empty.
MouseKeepsLayers ==
  [][(\E i \in DOMAIN canvas : MouseEdit(i)) /\ document # None
       => Names(document') = Names(document)]_vars

\* README.md:126: switching the background replaces the background's picture
\* and leaves product, texts and decorations as they are.
SwitchKeepsLayers ==
  [][\A r \in renders :
       r.op = "switch" /\ renders' = {} /\ document' = r.next
       => \A i \in DOMAIN document :
            document[i].kind # "background" => document[i] \in Range(document')]_vars
=============================================================================

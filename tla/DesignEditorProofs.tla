------------------------ MODULE DesignEditorProofs ------------------------
(* Theorems about the design editor, for every number of pictures, layers,  *)
(* edits and versions, and every length of the history.                     *)
EXTENDS DesignEditor, SequenceTheorems, WellFoundedInduction, TLAPS

-----------------------------------------------------------------------------
(* Numbers and sequences.                                                   *)

\* A set of natural numbers has a least element, and Min is that element.
LEMMA MinExists ==
  ASSUME NEW T, T \subseteq Nat, T # {}
  PROVE  Min(T) \in T /\ \A y \in T : Min(T) <= y
<1> DEFINE R == OpToRel(<, Nat)
<1>1. \E x \in T : \A y \in T : ~ (<<y, x>> \in R)
  <2> HIDE DEF R
  <2>1. IsWellFoundedOn(R, Nat)
    BY NatLessThanWellFounded DEF R
  <2> QED BY <2>1, WFMin
<1>2. \A x, y \in Nat : y < x => <<y, x>> \in R
  BY DEF OpToRel
<1>3. PICK x \in T : \A y \in T : ~ (<<y, x>> \in R)
  BY <1>1
<1>4. \A y \in T : x <= y
  <2> TAKE y \in T
  <2>1. x \in Nat /\ y \in Nat
    OBVIOUS
  <2>2. ~ (y < x)
    <3> HIDE DEF R
    <3> QED BY <1>2, <1>3, <2>1
  <2> QED BY <2>1, <2>2
<1> QED BY <1>4, Zenon DEF Min

\* Two halves of a sequence.
LEMMA Halves ==
  ASSUME NEW S, NEW s \in Seq(S), NEW n \in 0..Len(s)
  PROVE  /\ First(s, n) \in Seq(S) /\ Len(First(s, n)) = n
         /\ \A i \in 1..n : First(s, n)[i] = s[i]
         /\ After(s, n) \in Seq(S) /\ Len(After(s, n)) = Len(s) - n
         /\ \A i \in 1..(Len(s) - n) : After(s, n)[i] = s[n + i]
<1>1. Len(s) \in Nat
  BY LenProperties
<1>2. \A i \in 1..Len(s) : s[i] \in S
  BY ElementOfSeq
<1>3. /\ First(s, n) \in Seq(S) /\ Len(First(s, n)) = n
      /\ \A i \in 1..n : First(s, n)[i] = s[i]
  <2>1. \A i \in 1..n : s[i] \in S
    BY <1>1, <1>2
  <2>2. /\ SubSeq(s, 1, n) \in Seq(S)
        /\ Len(SubSeq(s, 1, n)) = IF 1 <= n THEN n - 1 + 1 ELSE 0
        /\ \A i \in 1 .. n - 1 + 1 : SubSeq(s, 1, n)[i] = s[1 + i - 1]
    BY <2>1, SubSeqProperties
  <2> QED BY <2>2 DEF First
<1>4. /\ After(s, n) \in Seq(S) /\ Len(After(s, n)) = Len(s) - n
      /\ \A i \in 1..(Len(s) - n) : After(s, n)[i] = s[n + i]
  <2>1. \A i \in (n + 1)..Len(s) : s[i] \in S
    BY <1>1, <1>2
  <2>2. n + 1 \in Int /\ Len(s) \in Int
    BY <1>1
  <2>3. /\ SubSeq(s, n + 1, Len(s)) \in Seq(S)
        /\ Len(SubSeq(s, n + 1, Len(s))) =
             IF n + 1 <= Len(s) THEN Len(s) - (n + 1) + 1 ELSE 0
        /\ \A i \in 1 .. Len(s) - (n + 1) + 1 :
             SubSeq(s, n + 1, Len(s))[i] = s[(n + 1) + i - 1]
    BY <2>1, <2>2, SubSeqProperties
  <2>4. Len(s) - (n + 1) + 1 = Len(s) - n
    BY <1>1
  <2>5. \A i \in 1..(Len(s) - n) : (n + 1) + i - 1 = n + i
    BY <1>1
  <2>6. n + 1 <= Len(s) \/ Len(s) - n = 0
    BY <1>1
  <2>7. Len(After(s, n)) = Len(s) - n
    BY <2>3, <2>4, <2>6 DEF After
  <2>8. \A i \in 1..(Len(s) - n) : After(s, n)[i] = s[n + i]
    BY <2>3, <2>4, <2>5 DEF After
  <2> QED BY <2>3, <2>7, <2>8 DEF After
<1> QED BY <1>3, <1>4

\* What is left after a part of what was left.
LEMMA AfterAfter ==
  ASSUME NEW S, NEW s \in Seq(S), NEW n \in 0..Len(s), NEW m \in 0..(Len(s) - n)
  PROVE  After(After(s, n), m) = After(s, n + m)
<1>1. Len(s) \in Nat
  BY LenProperties
<1>2. n + m \in 0..Len(s) /\ Len(s) - n - m = Len(s) - (n + m)
  BY <1>1
<1> DEFINE t == After(s, n)
<1>3. /\ t \in Seq(S) /\ Len(t) = Len(s) - n
      /\ \A i \in 1..(Len(s) - n) : t[i] = s[n + i]
  BY Halves
<1>4. /\ After(s, n + m) \in Seq(S) /\ Len(After(s, n + m)) = Len(s) - (n + m)
      /\ \A i \in 1..(Len(s) - (n + m)) : After(s, n + m)[i] = s[n + m + i]
  BY <1>2, Halves
<1> HIDE DEF t
<1>5. m \in 0..Len(t)
  BY <1>3
<1>6. /\ After(t, m) \in Seq(S) /\ Len(After(t, m)) = Len(t) - m
      /\ \A i \in 1..(Len(t) - m) : After(t, m)[i] = t[m + i]
  BY <1>3, <1>5, Halves
<1>7. Len(After(t, m)) = Len(After(s, n + m))
  BY <1>1, <1>2, <1>3, <1>4, <1>6
<1>8. \A i \in 1..Len(After(t, m)) : After(t, m)[i] = After(s, n + m)[i]
  <2> TAKE i \in 1..Len(After(t, m))
  <2>1. i \in 1..(Len(t) - m) /\ i \in 1..(Len(s) - (n + m)) /\ m + i \in 1..(Len(s) - n)
    BY <1>1, <1>3, <1>4, <1>6, <1>7
  <2>2. n + (m + i) = n + m + i
    BY <2>1
  <2> QED BY <1>3, <1>4, <1>6, <2>1, <2>2
<1>9. After(t, m) = After(s, n + m)
  BY <1>4, <1>6, <1>7, <1>8, SeqEqual
<1> QED BY <1>9 DEF t

\* How many layers appear without a wait: none of them a picture, and the
\* next one, when there is one, is a picture.
LEMMA ReadyStops ==
  ASSUME NEW S, NEW s \in Seq(S), NEW k \in 0..Len(s)
  PROVE  LET n == Ready(s, k) IN
         /\ n \in k..Len(s)
         /\ \A i \in (k + 1)..n : ~IsPicture(s[i])
         /\ n < Len(s) => IsPicture(s[n + 1])
<1> DEFINE T == {i \in (k + 1)..Len(s) : IsPicture(s[i])}
<1>1. Len(s) \in Nat /\ T \subseteq Nat
  BY LenProperties
<1>2. CASE T = {}
  BY <1>1, <1>2 DEF Ready
<1>3. CASE T # {}
  <2>1. Min(T) \in T /\ \A y \in T : Min(T) <= y
    BY <1>1, <1>3, MinExists
  <2>2. Ready(s, k) = Min(T) - 1
    BY <1>3 DEF Ready
  <2> DEFINE n == Min(T) - 1
  <2>3. n \in k..Len(s)
    BY <1>1, <2>1
  <2>4. \A i \in (k + 1)..n : ~IsPicture(s[i])
    <3> TAKE i \in (k + 1)..n
    <3>1. i \in (k + 1)..Len(s) /\ ~(Min(T) <= i)
      BY <1>1, <2>1, <2>3
    <3> QED BY <2>1, <3>1
  <2>5. IsPicture(s[n + 1])
    <3>1. n + 1 = Min(T)
      BY <1>1, <2>1
    <3> QED BY <2>1, <3>1
  <2> QED BY <2>2, <2>3, <2>4, <2>5
<1> QED BY <1>2, <1>3

-----------------------------------------------------------------------------
(* Layers and documents.                                                    *)

LEMMA LayerFields ==
  /\ \A l \in Layers : /\ l.kind \in Kinds /\ l.id \in 0..MaxEdits
                       /\ l.asset \in Assets \cup {None} /\ l.look \in 0..MaxEdits
  /\ \A l \in Layers, v \in 0..MaxEdits :
       [l EXCEPT !.look = v] \in Layers /\ Same([l EXCEPT !.look = v], l)
  /\ \A l \in Layers, a \in Assets \cup {None} :
       [l EXCEPT !.asset = a] \in Layers
  /\ \A kind \in Kinds, id \in 0..MaxEdits, a \in Assets \cup {None} :
       Layer(kind, id, a) \in Layers
<1>1. 0 \in 0..MaxEdits
  BY EditorAssumption
<1>2. \A l \in Layers : /\ l.kind \in Kinds /\ l.id \in 0..MaxEdits
                        /\ l.asset \in Assets \cup {None} /\ l.look \in 0..MaxEdits
  BY DEF Layers
<1>3. \A l \in Layers, v \in 0..MaxEdits :
        [l EXCEPT !.look = v] \in Layers /\ Same([l EXCEPT !.look = v], l)
  BY DEF Layers, Same
<1>4. \A l \in Layers, a \in Assets \cup {None} : [l EXCEPT !.asset = a] \in Layers
  BY DEF Layers
<1>5. \A kind \in Kinds, id \in 0..MaxEdits, a \in Assets \cup {None} :
        Layer(kind, id, a) \in Layers
  BY <1>1 DEF Layers, Layer
<1> QED BY <1>2, <1>3, <1>4, <1>5

LEMMA DocumentFacts ==
  ASSUME NEW doc \in Documents
  PROVE  /\ doc \in Seq(Layers) /\ Valid(doc)
         /\ Len(doc) \in Nat /\ DOMAIN doc = 1..Len(doc)
         /\ Len(doc) \in 1..MaxLayers
         /\ \A i \in 1..Len(doc) : doc[i] \in Layers
<1>1. doc \in Seq(Layers) /\ Valid(doc)
  BY DEF Documents
<1>2. Len(doc) \in 1..MaxLayers
  BY <1>1 DEF Valid
<1> QED BY <1>1, <1>2, LenProperties, ElementOfSeq

\* Who waits for a picture of a document has not shown the product yet: it is
\* the last picture.
LEMMA ProductIsLast ==
  ASSUME NEW doc \in Documents, NEW n \in Nat, n < Len(doc), IsPicture(doc[n + 1]),
         NEW i \in 1..n
  PROVE  doc[i].kind # "product"
<1>1. /\ Valid(doc) /\ Len(doc) \in Nat /\ DOMAIN doc = 1..Len(doc)
      /\ \A j \in 1..Len(doc) : doc[j] \in Layers
  BY DocumentFacts
<1>2. n + 1 \in 1..Len(doc) /\ i \in 1..Len(doc) /\ i # n + 1 /\ n + 1 # 1
  BY <1>1
<1>3. doc[n + 1].kind \in Kinds /\ doc[n + 1].kind # "text"
  BY <1>1, <1>2, LayerFields DEF IsPicture
<1>4. n + 1 \notin OfKind(doc, "background")
  BY <1>1, <1>2 DEF Valid
<1>5. n + 1 \in OfKind(doc, "product")
  BY <1>1, <1>2, <1>3, <1>4 DEF OfKind, Kinds
<1>6. PICK p \in DOMAIN doc : OfKind(doc, "product") = {p}
  BY <1>1 DEF Valid
<1>7. i \notin OfKind(doc, "product")
  BY <1>2, <1>5, <1>6
<1> QED BY <1>1, <1>2, <1>7 DEF OfKind

\* Some layer of a document is the product.
LEMMA HasProduct ==
  ASSUME NEW doc \in Documents
  PROVE  \E i \in 1..Len(doc) : doc[i].kind = "product"
<1>1. Valid(doc) /\ DOMAIN doc = 1..Len(doc)
  BY DocumentFacts
<1>2. PICK p \in DOMAIN doc : OfKind(doc, "product") = {p}
  BY <1>1 DEF Valid
<1>3. doc[p].kind = "product"
  BY <1>2 DEF OfKind
<1> QED BY <1>1, <1>3

\* Being a design is a matter of the kinds and the identifiers.
LEMMA ShapeDecides ==
  ASSUME NEW s \in Documents, NEW t \in Seq(Layers), SameShape(s, t)
  PROVE  t \in Documents
<1>1. /\ Valid(s) /\ Len(s) \in Nat /\ DOMAIN s = 1..Len(s)
  BY DocumentFacts
<1>2. DOMAIN t = DOMAIN s /\ Len(t) = Len(s) /\ \A i \in DOMAIN s : Same(s[i], t[i])
  BY <1>1, LenProperties DEF SameShape
<1>3. \A k : OfKind(t, k) = OfKind(s, k)
  BY <1>2 DEF OfKind, Same
<1>4. Len(t) \in 1..MaxLayers
  BY <1>1, <1>2 DEF Valid
<1>5. \E i \in DOMAIN t : OfKind(t, "product") = {i}
  BY <1>1, <1>2, <1>3 DEF Valid
<1>6. OfKind(t, "background") \subseteq {1}
  BY <1>1, <1>3 DEF Valid
<1>7. \A i, j \in DOMAIN t : Same(t[i], t[j]) => i = j
  BY <1>1, <1>2 DEF Valid, Same
<1> QED BY <1>4, <1>5, <1>6, <1>7 DEF Documents, Valid

LEMMA SameIsReflexive ==
  ASSUME NEW s \in Seq(Layers)
  PROVE  SameShape(s, s)
BY DEF SameShape, Same

LEMMA SameIsTransitive ==
  ASSUME NEW s \in Seq(Layers), NEW t \in Seq(Layers), NEW u \in Seq(Layers),
         SameShape(s, t), SameShape(t, u)
  PROVE  SameShape(s, u) /\ SameShape(t, s)
<1>1. DOMAIN s = 1..Len(s) /\ DOMAIN t = 1..Len(t) /\ Len(s) = Len(t) /\ Len(t) = Len(u)
  BY LenProperties DEF SameShape
<1> QED BY <1>1 DEF SameShape, Same

\* updateLayer() changes looks, and nothing else.
LEMMA ChangedFacts ==
  ASSUME NEW s \in Seq(Layers), NEW l, NEW look \in 0..MaxEdits
  PROVE  /\ Changed(s, l, look) \in Seq(Layers)
         /\ Len(Changed(s, l, look)) = Len(s)
         /\ \A i \in 1..Len(s) : Same(Changed(s, l, look)[i], s[i])
         /\ SameShape(s, Changed(s, l, look))
<1> DEFINE t == Changed(s, l, look)
<1>1. Len(s) \in Nat /\ DOMAIN s = 1..Len(s) /\ \A i \in 1..Len(s) : s[i] \in Layers
  BY LenProperties, ElementOfSeq
<1>2. t = [i \in 1..Len(s) |-> IF Same(s[i], l) THEN [s[i] EXCEPT !.look = look]
                                                ELSE s[i]]
  BY <1>1 DEF Changed
<1>3. \A i \in 1..Len(s) : t[i] \in Layers /\ Same(t[i], s[i])
  <2> TAKE i \in 1..Len(s)
  <2>1. s[i] \in Layers /\ Same(s[i], s[i])
    BY <1>1 DEF Same
  <2>2. [s[i] EXCEPT !.look = look] \in Layers /\ Same([s[i] EXCEPT !.look = look], s[i])
    BY <2>1, LayerFields
  <2>3. t[i] = IF Same(s[i], l) THEN [s[i] EXCEPT !.look = look] ELSE s[i]
    BY <1>2
  <2> HIDE DEF t
  <2> QED BY <2>1, <2>2, <2>3
<1>4. t \in [1..Len(s) -> Layers]
  <2>1. t = [i \in 1..Len(s) |-> t[i]]
    BY <1>2
  <2> HIDE DEF t
  <2> QED BY <1>3, <2>1
<1>5. t \in Seq(Layers) /\ Len(t) = Len(s)
  BY <1>1, <1>4
<1> HIDE DEF t
<1>6. SameShape(s, t)
  BY <1>1, <1>3, <1>5 DEF SameShape, Same
<1> QED BY <1>3, <1>5, <1>6 DEF t

LEMMA ChangedDocument ==
  ASSUME NEW doc \in Documents, NEW l, NEW look \in 0..MaxEdits
  PROVE  Changed(doc, l, look) \in Documents
BY ChangedFacts, ShapeDecides, DocumentFacts

\* The first document is a design.
LEMMA InitialIsDocument == Initial \subseteq Documents
<1>1. /\ Product \in Layers /\ Headline \in Layers
      /\ \A a \in Assets : Backdrop(a) \in Layers
  <2>1. 0 \in 0..MaxEdits
    BY EditorAssumption
  <2> QED BY <2>1, LayerFields DEF Product, Headline, Backdrop, Kinds
<1>2. /\ Product.kind = "product" /\ Headline.kind = "text"
      /\ \A a \in Assets : Backdrop(a).kind = "background"
  BY DEF Product, Headline, Backdrop, Layer
<1>3. <<Product, Headline>> \in Documents
  <2> DEFINE d == <<Product, Headline>>
  <2>1. d \in Seq(Layers) /\ Len(d) = 2 /\ DOMAIN d = {1, 2}
    BY <1>1
  <2>2. d[1] = Product /\ d[2] = Headline
    OBVIOUS
  <2> HIDE DEF d
  <2>3. OfKind(d, "product") = {1} /\ OfKind(d, "background") = {}
    BY <1>2, <2>1, <2>2 DEF OfKind
  <2>4. \A i, j \in DOMAIN d : Same(d[i], d[j]) => i = j
    BY <1>2, <2>1, <2>2 DEF Same
  <2>5. Valid(d)
    BY <2>1, <2>3, <2>4, EditorAssumption DEF Valid
  <2> QED BY <2>1, <2>5 DEF Documents, d
<1>4. ASSUME NEW a \in Assets
      PROVE  <<Backdrop(a), Product, Headline>> \in Documents
  <2> DEFINE d == <<Backdrop(a), Product, Headline>>
  <2>1. d \in Seq(Layers) /\ Len(d) = 3 /\ DOMAIN d = {1, 2, 3}
    BY <1>1
  <2>2. d[1] = Backdrop(a) /\ d[2] = Product /\ d[3] = Headline
    OBVIOUS
  <2> HIDE DEF d
  <2>3. OfKind(d, "product") = {2} /\ OfKind(d, "background") = {1}
    BY <1>2, <2>1, <2>2 DEF OfKind
  <2>4. \A i, j \in DOMAIN d : Same(d[i], d[j]) => i = j
    BY <1>2, <2>1, <2>2 DEF Same
  <2>5. Valid(d)
    BY <2>1, <2>3, <2>4, EditorAssumption DEF Valid
  <2> QED BY <2>1, <2>5 DEF Documents, d
<1> QED BY <1>3, <1>4 DEF Initial

LEMMA PastedIsLayers == \A doc \in Pasted : doc \in Seq(Layers)
<1>1. /\ Product \in Layers /\ Headline \in Layers
      /\ \A a \in Assets : Backdrop(a) \in Layers
  <2>1. 0 \in 0..MaxEdits
    BY EditorAssumption
  <2> QED BY <2>1, LayerFields DEF Product, Headline, Backdrop, Kinds
<1>2. <<Headline, Product>> \in Seq(Layers)
  BY <1>1
<1>3. ASSUME NEW a \in Assets
      PROVE  <<Backdrop(a), Headline, Product>> \in Seq(Layers)
  BY <1>1
<1> QED BY <1>2, <1>3, Zenon DEF Pasted

LEMMA DeletedIsLayers ==
  ASSUME NEW s \in Seq(Layers), NEW i \in DOMAIN s
  PROVE  RemoveAt(s, i) \in Seq(Layers)
<1>1. Len(s) \in Nat /\ i \in 1..Len(s)
  BY LenProperties
<1>2. i - 1 \in 0..Len(s) /\ i \in 0..Len(s)
  BY <1>1
<1>3. SubSeq(s, 1, i - 1) \in Seq(Layers)
  BY <1>2, Halves DEF First
<1>4. SubSeq(s, i + 1, Len(s)) \in Seq(Layers)
  BY <1>2, Halves DEF After
<1> QED BY <1>3, <1>4, ConcatProperties DEF RemoveAt

LEMMA MovedIsLayers ==
  ASSUME NEW s \in Seq(Layers), NEW i \in DOMAIN s, NEW j
  PROVE  Moved(s, i, j) \in Seq(Layers)
<1>1. CASE j \in DOMAIN s /\ s[j].kind # "background"
  <2>1. i \in 1..Len(s) /\ j \in 1..Len(s) /\ s[i] \in Layers /\ s[j] \in Layers
    BY <1>1, LenProperties, ElementOfSeq
  <2> DEFINE t == [s EXCEPT ![i] = s[j]]
  <2>2. t \in Seq(Layers) /\ Len(t) = Len(s)
    BY <2>1, ExceptSeq
  <2>3. [t EXCEPT ![j] = s[i]] \in Seq(Layers)
    <3> HIDE DEF t
    <3> QED BY <2>1, <2>2, ExceptSeq
  <2> QED BY <1>1, <2>3 DEF Moved
<1>2. CASE ~(j \in DOMAIN s /\ s[j].kind # "background")
  BY <1>2 DEF Moved
<1> QED BY <1>1, <1>2

LEMMA SwitchedIsLayers ==
  ASSUME NEW doc \in Documents, NEW a \in Assets \cup {None}
  PROVE  WithBackground(doc, a) \in Seq(Layers)
<1>1. /\ doc \in Seq(Layers) /\ Len(doc) \in 1..MaxLayers /\ Len(doc) \in Nat
      /\ DOMAIN doc = 1..Len(doc) /\ doc[1] \in Layers
  BY DocumentFacts
<1>2. 1 \in 1..Len(doc) /\ doc # <<>>
  BY <1>1
<1>3. Tail(doc) \in Seq(Layers)
  BY <1>1, <1>2, HeadTailProperties
<1>4. [doc EXCEPT ![1].asset = a] \in Seq(Layers)
  <2>1. [doc[1] EXCEPT !.asset = a] \in Layers
    BY <1>1, LayerFields
  <2>2. [doc EXCEPT ![1] = [doc[1] EXCEPT !.asset = a]] \in Seq(Layers)
    BY <1>1, <1>2, <2>1, ExceptSeq
  <2> QED BY <2>2
<1>5. <<Backdrop(a)>> \o doc \in Seq(Layers)
  <2>1. Backdrop(a) \in Layers
    <3>1. 0 \in 0..MaxEdits
      BY EditorAssumption
    <3> QED BY <3>1, LayerFields DEF Backdrop, Kinds
  <2>2. <<Backdrop(a)>> \in Seq(Layers)
    BY <2>1
  <2> QED BY <1>1, <2>2, ConcatProperties
<1> QED BY <1>1, <1>3, <1>4, <1>5 DEF WithBackground

-----------------------------------------------------------------------------
(* Kinds of step: a drawing begins, goes on, or ends; a document is pushed  *)
(* on the history.                                                          *)

Operations == {"load", "commit", "switch", "json", "history", "restore"}

\* On a canvas that is being drawn the product does not show yet.
LEMMA ProductComesLast ==
  ASSUME TypeOK, DrawingInv, Rendering
  PROVE  \A i \in DOMAIN canvas : canvas[i].kind # "product"
<1>1. PICK r \in renders : TRUE
  BY DEF Rendering
<1>2. DrawnSoFar(r) /\ r.next \in Documents
  BY DEF DrawingInv, TypeOK, Drawing
<1>3. Len(canvas) \in Nat /\ DOMAIN canvas = 1..Len(canvas)
  BY LenProperties DEF TypeOK
<1>4. TAKE i \in DOMAIN canvas
<1>5. Same(canvas[i], r.next[i])
  BY <1>2, <1>3 DEF DrawnSoFar
<1>6. r.next[i].kind # "product"
  BY <1>2, <1>3, ProductIsLast DEF DrawnSoFar
<1> QED BY <1>5, <1>6 DEF Same

\* A drawing begins: it is the only one, and its canvas has no product.
LEMMA RenderStarts ==
  ASSUME TypeOK, NEW op \in Operations, NEW next \in Documents, Render(op, next),
         op # "load" => document' # None,
         op = "history" => next = present',
         op = "restore" => next = document'
  PROVE  /\ canvas' \in Seq(Layers) /\ renders' \subseteq Drawing
         /\ touched' = FALSE /\ whole' = FALSE
         /\ Rendering' /\ DrawingInv' /\ CanvasInv'
<1> DEFINE n == Ready(next, 0)
           r == [op |-> op, next |-> next, left |-> After(next, n)]
<1>1. next \in Seq(Layers) /\ Len(next) \in 1..MaxLayers /\ Len(next) \in Nat
  BY DocumentFacts
<1>2. 0 \in 0..Len(next)
  BY <1>1
<1>3. /\ n \in 0..Len(next)
      /\ \A i \in 1..n : ~IsPicture(next[i])
      /\ n < Len(next) => IsPicture(next[n + 1])
  BY <1>1, <1>2, ReadyStops
<1>4. canvas' = First(next, n) /\ renders' = {r} /\ touched' = FALSE /\ whole' = FALSE
  BY DEF Render, Superseded
<1> HIDE DEF n
<1>5. /\ canvas' \in Seq(Layers) /\ Len(canvas') = n
      /\ \A i \in 1..n : canvas'[i] = next[i]
      /\ After(next, n) \in Seq(Layers)
  BY <1>1, <1>3, <1>4, Halves
<1>6. r \in Drawing
  BY <1>5 DEF Drawing, Operations
<1>7. r.op = op /\ r.next = next /\ r.left = After(next, n)
  OBVIOUS
<1> HIDE DEF r
<1>8. n < Len(next)
  <2>1. PICK i \in 1..Len(next) : next[i].kind = "product"
    BY HasProduct
  <2>2. IsPicture(next[i])
    BY <2>1 DEF IsPicture
  <2>3. ~(i \in 1..n)
    BY <1>3, <2>2
  <2> QED BY <1>1, <1>3, <2>1, <2>3
<1>9. \A i \in 1..n : Same(canvas'[i], next[i])
  BY <1>5 DEF Same
<1>10. DrawnSoFar(r)'
  BY <1>3, <1>4, <1>5, <1>7, <1>8, <1>9 DEF DrawnSoFar
<1>11. Rendering'
  BY <1>4 DEF Rendering
<1>12. SameShape(next, next)
  BY <1>1, SameIsReflexive
<1>13. op = "restore" => SameShape(next, document')
  BY <1>12
<1>14. DrawingInv'
  BY <1>4, <1>7, <1>10, <1>13 DEF DrawingInv
<1>15. CanvasInv'
  BY <1>11 DEF CanvasInv
<1> QED BY <1>4, <1>5, <1>6, <1>11, <1>14, <1>15

HasLayers(c, doc) == \A i \in 1..Len(c) : c[i] = doc[i]

Waiting(c, r, left) ==
  /\ Len(c) < Len(r.next) /\ IsPicture(r.next[Len(c) + 1])
  /\ left = After(r.next, Len(c)) /\ left \in Seq(Layers)

\* A picture arrives, and the texts above it: the canvas has the next layers.
LEMMA DrawAdds ==
  ASSUME TypeOK, DrawingInv, NEW r \in renders,
         NEW n, n = Ready(r.left, 1), NEW c, c = canvas \o First(r.left, n)
  PROVE  /\ n \in 1..Len(r.left) /\ Len(r.left) = Len(r.next) - Len(canvas)
         /\ c \in Seq(Layers) /\ Len(c) = Len(canvas) + n
         /\ \A i \in 1..Len(c) : Same(c[i], r.next[i])
         /\ ~touched => HasLayers(c, r.next)
         /\ n < Len(r.left) => Waiting(c, r, After(r.left, n))
<1> DEFINE m == Len(canvas)
           N == Len(r.next)
           left == r.left
<1>1. /\ r.next \in Documents /\ r.next \in Seq(Layers) /\ N \in Nat
      /\ left \in Seq(Layers) /\ canvas \in Seq(Layers) /\ m \in Nat
  <2>1. r \in Drawing /\ canvas \in Seq(Layers)
    BY DEF TypeOK
  <2> QED BY <2>1, DocumentFacts, LenProperties DEF Drawing
<1>2. /\ m < N /\ left = After(r.next, m)
      /\ \A i \in 1..m : Same(canvas[i], r.next[i])
      /\ ~touched => \A i \in 1..m : canvas[i] = r.next[i]
  BY DEF DrawingInv, DrawnSoFar
<1> HIDE DEF m, N, left
<1>3. m \in 0..N
  BY <1>1, <1>2
<1>4. Len(left) = N - m /\ \A i \in 1..(N - m) : left[i] = r.next[m + i]
  BY <1>1, <1>2, <1>3, Halves DEF N
<1>5. 1 \in 0..Len(left)
  BY <1>1, <1>2, <1>4
<1>6. /\ n \in 1..Len(left)
      /\ n < Len(left) => IsPicture(left[n + 1])
  BY <1>1, <1>5, ReadyStops DEF left
<1>7. n \in 0..Len(left)
  BY <1>6
<1>8. /\ First(left, n) \in Seq(Layers) /\ Len(First(left, n)) = n
      /\ \A i \in 1..n : First(left, n)[i] = left[i]
      /\ After(left, n) \in Seq(Layers)
  BY <1>1, <1>7, Halves
<1>9. /\ c \in Seq(Layers) /\ Len(c) = m + n
      /\ \A i \in 1..(m + n) : c[i] = IF i <= m THEN canvas[i] ELSE First(left, n)[i - m]
  <2>1. c = canvas \o First(left, n)
    BY DEF left
  <2> DEFINE f == First(left, n)
  <2>2. f \in Seq(Layers)
    BY <1>8
  <2> HIDE DEF f
  <2>3. /\ canvas \o f \in Seq(Layers) /\ Len(canvas \o f) = Len(canvas) + Len(f)
        /\ \A i \in 1..(Len(canvas) + Len(f)) :
             (canvas \o f)[i] = IF i <= Len(canvas) THEN canvas[i] ELSE f[i - Len(canvas)]
    BY <1>1, <2>2, ConcatProperties
  <2>4. c = canvas \o f /\ Len(f) = n
    BY <1>8, <2>1 DEF f
  <2>5. /\ c \in Seq(Layers) /\ Len(c) = m + n
        /\ \A i \in 1..(m + n) : c[i] = IF i <= m THEN canvas[i] ELSE f[i - m]
    BY <2>3, <2>4 DEF m
  <2> QED BY <2>5 DEF f
<1>10. ASSUME NEW i \in 1..(m + n)
       PROVE  Same(c[i], r.next[i]) /\ (~touched => c[i] = r.next[i])
  <2>1. CASE i <= m
    <3>1. i \in 1..m /\ c[i] = canvas[i]
      BY <1>1, <1>4, <1>6, <1>9, <2>1
    <3> QED BY <1>2, <3>1
  <2>2. CASE ~(i <= m)
    <3>1. i - m \in 1..n /\ i - m \in 1..(N - m) /\ m + (i - m) = i
      BY <1>1, <1>4, <1>6, <2>2
    <3>2. c[i] = r.next[i]
      BY <1>4, <1>8, <1>9, <2>2, <3>1
    <3> QED BY <3>2 DEF Same
  <2> QED BY <2>1, <2>2
<1>11. ASSUME n < Len(left)
       PROVE  /\ Len(c) < N /\ IsPicture(r.next[Len(c) + 1])
              /\ After(left, n) = After(r.next, Len(c))
  <2>0. n \in Nat /\ 1 <= n /\ n < N - m
    BY <1>1, <1>2, <1>4, <1>6, <1>11
  <2>1. m + n < N /\ n + 1 \in 1..(N - m) /\ m + (n + 1) = m + n + 1 /\ n \in 0..(N - m)
    <3>1. m \in Nat /\ N \in Nat
      BY <1>1
    <3> QED BY <2>0, <3>1
  <2>2. IsPicture(r.next[m + n + 1])
    BY <1>4, <1>6, <1>11, <2>1
  <2>3. After(After(r.next, m), n) = After(r.next, m + n)
    BY <1>1, <1>3, <2>1, AfterAfter DEF N
  <2> QED BY <1>2, <1>9, <2>1, <2>2, <2>3
<1>12. Len(r.left) = Len(r.next) - Len(canvas)
  BY <1>4 DEF left, m, N
<1>13. n \in 1..Len(r.left) /\ Len(c) = Len(canvas) + n
  BY <1>6, <1>9 DEF left, m
<1>14. n < Len(r.left) => Waiting(c, r, After(r.left, n))
  BY <1>8, <1>11 DEF left, N, Waiting
<1>15. \A i \in 1..Len(c) : Same(c[i], r.next[i])
  BY <1>9, <1>10
<1>16. ~touched => HasLayers(c, r.next)
  BY <1>9, <1>10 DEF HasLayers
<1> QED BY <1>9, <1>12, <1>13, <1>14, <1>15, <1>16

\* Another picture is missing: the drawing goes on.
LEMMA DrawGoesOn ==
  ASSUME TypeOK, DrawingInv, NEW r \in renders,
         NEW n, n = Ready(r.left, 1), n < Len(r.left),
         canvas' = canvas \o First(r.left, n),
         renders' = (renders \ {r}) \cup {[r EXCEPT !.left = After(@, n)]},
         UNCHANGED <<document, present, touched, whole>>
  PROVE  /\ canvas' \in Seq(Layers) /\ renders' \subseteq Drawing
         /\ Rendering' /\ DrawingInv' /\ CanvasInv'
<1>1. PICK c : c = canvas'
  OBVIOUS
<1>2. /\ c \in Seq(Layers)
      /\ \A i \in 1..Len(c) : Same(c[i], r.next[i])
      /\ ~touched => HasLayers(c, r.next)
      /\ Waiting(c, r, After(r.left, n))
  <2>1. c = canvas \o First(r.left, n)
    BY <1>1
  <2> QED BY <2>1, DrawAdds
<1>3. PICK q : q = [r EXCEPT !.left = After(@, n)]
  OBVIOUS
<1>4. r \in Drawing
  BY DEF TypeOK
<1>5. q \in Drawing /\ q.op = r.op /\ q.next = r.next /\ q.left = After(r.left, n)
  BY <1>2, <1>3, <1>4 DEF Drawing, Waiting
<1>6. renders' = {q}
  BY <1>3 DEF DrawingInv
<1>7. DrawnSoFar(q)'
  BY <1>1, <1>2, <1>5 DEF DrawnSoFar, HasLayers, Waiting
<1>8. Rendering' /\ Rendering
  BY <1>6 DEF Rendering
<1>9. /\ r.op # "load" => document # None
      /\ r.op = "history" /\ ~touched => r.next = present
      /\ r.op = "restore" => SameShape(r.next, document)
      /\ r.op = "restore" /\ ~touched => r.next = document
      /\ ~whole
  BY <1>8 DEF DrawingInv
<1>10. DrawingInv'
  BY <1>5, <1>6, <1>7, <1>9 DEF DrawingInv
<1>11. CanvasInv'
  BY <1>8 DEF CanvasInv
<1> QED BY <1>1, <1>2, <1>5, <1>6, <1>8, <1>10, <1>11

\* It was the last picture: the canvas has every layer.
LEMMA DrawEnds ==
  ASSUME TypeOK, DrawingInv, NEW r \in renders,
         NEW n, n = Ready(r.left, 1), ~(n < Len(r.left)),
         canvas' = canvas \o First(r.left, n),
         renders' = renders \ {r}
  PROVE  /\ canvas' \in Seq(Layers) /\ renders' = {}
         /\ SameShape(canvas', r.next)
         /\ ~touched => canvas' = r.next
<1>1. PICK c : c = canvas'
  OBVIOUS
<1>2. /\ n \in 1..Len(r.left) /\ Len(r.left) = Len(r.next) - Len(canvas)
      /\ c \in Seq(Layers) /\ Len(c) = Len(canvas) + n
      /\ \A i \in 1..Len(c) : Same(c[i], r.next[i])
      /\ ~touched => HasLayers(c, r.next)
  <2>1. c = canvas \o First(r.left, n)
    BY <1>1
  <2> QED BY <2>1, DrawAdds
<1>3. r \in Drawing /\ r.next \in Documents /\ canvas \in Seq(Layers)
  BY DEF TypeOK, Drawing
<1>4. r.next \in Seq(Layers) /\ Len(r.next) \in Nat /\ Len(canvas) \in Nat
  BY <1>3, DocumentFacts, LenProperties
<1>5. Len(c) = Len(r.next)
  BY <1>2, <1>4
<1>6. SameShape(c, r.next)
  BY <1>2, <1>5, LenProperties DEF SameShape
<1>7. ~touched => c = r.next
  BY <1>2, <1>4, <1>5, SeqEqual DEF HasLayers
<1>8. renders' = {}
  BY DEF DrawingInv
<1> QED BY <1>1, <1>2, <1>6, <1>7, <1>8

\* DesignHistory.push(): what is kept stays within the limit.
LEMMA PushKeeps ==
  ASSUME TypeOK, HistoryBounded, present # None, NEW next \in Documents, Push(next)
  PROVE  /\ past' \in Seq(Documents) /\ future' \in Seq(Documents)
         /\ present' = next /\ document' = next
         /\ offered' \in [undo : BOOLEAN, redo : BOOLEAN]
         /\ HistoryBounded'
<1>1. present \in Documents /\ past \in Seq(Documents) /\ future \in Seq(Documents)
  BY DEF TypeOK
<1>2. document' = next /\ offered' \in [undo : BOOLEAN, redo : BOOLEAN]
  BY DEF Push, Sync
<1>3. CASE next = present
  BY <1>1, <1>2, <1>3 DEF Push, HistoryBounded
<1>4. CASE next # present
  <2> DEFINE longer == Append(past, present)
  <2>1. Len(past) \in Nat /\ Len(future) \in Nat
    BY <1>1, LenProperties
  <2>2. longer \in Seq(Documents) /\ longer # <<>> /\ Len(longer) = Len(past) + 1
    BY <1>1, AppendProperties
  <2>3. /\ past' = IF Len(longer) > HistoryLimit THEN Tail(longer) ELSE longer
        /\ present' = next /\ future' = <<>>
    BY <1>4 DEF Push
  <2> HIDE DEF longer
  <2>4. Tail(longer) \in Seq(Documents) /\ Len(Tail(longer)) = Len(longer) - 1
    BY <2>2, HeadTailProperties
  <2>5. past' \in Seq(Documents) /\ Len(past') <= HistoryLimit
    BY <2>1, <2>2, <2>3, <2>4, EditorAssumption DEF HistoryBounded
  <2>6. future' \in Seq(Documents) /\ Len(future') = 0
    BY <2>3, EmptySeq
  <2>7. Len(past') \in Nat
    BY <2>5, LenProperties
  <2>8. HistoryBounded'
    BY <2>5, <2>6, <2>7, EditorAssumption DEF HistoryBounded
  <2> QED BY <1>2, <2>3, <2>5, <2>6, <2>8
<1> QED BY <1>3, <1>4

-----------------------------------------------------------------------------
(* One lemma per action.                                                    *)

\* What TypeOK says of the page but for its canvas.
PageOK ==
  /\ document = None \/ document \in Documents
  /\ document = None <=> present = None
  /\ present = None \/ present \in Documents
  /\ past \in Seq(Documents) /\ future \in Seq(Documents)
  /\ offered \in [undo : BOOLEAN, redo : BOOLEAN]
  /\ posts \subseteq [doc : Documents, mine : BOOLEAN]
  /\ versions \in Seq(Documents)
  /\ edits \in 0..MaxEdits
  /\ busy \in BOOLEAN /\ settled \in BOOLEAN

CanvasOK ==
  /\ canvas \in Seq(Layers) /\ renders \subseteq Drawing
  /\ whole \in BOOLEAN /\ touched \in BOOLEAN

LEMMA TypeParts == /\ TypeOK <=> PageOK /\ CanvasOK
                   /\ TypeOK' <=> PageOK' /\ CanvasOK'
BY DEF TypeOK, PageOK, CanvasOK

\* The invariant of a page whose drawing has just begun.
LEMMA RenderKeeps ==
  ASSUME TypeOK, NEW op \in Operations, NEW next \in Documents, Render(op, next),
         op # "load" => document' # None,
         op = "history" => next = present',
         op = "restore" => next = document',
         PageOK', HistoryBounded', settled' => present' = document'
  PROVE  EditorInv'
<1>1. /\ canvas' \in Seq(Layers) /\ renders' \subseteq Drawing
      /\ touched' = FALSE /\ whole' = FALSE
      /\ Rendering' /\ DrawingInv' /\ CanvasInv'
  BY RenderStarts
<1>2. TypeOK'
  BY <1>1, TypeParts DEF CanvasOK
<1>3. CopiesAgree'
  BY <1>1 DEF CopiesAgree
<1> QED BY <1>1, <1>2, <1>3 DEF EditorInv

LEMMA OpenKeeps ==
  ASSUME EditorInv, NEW doc \in Initial, Open(doc)
  PROVE  EditorInv'
<1>1. Render("load", doc) /\ doc \in Documents /\ "load" \in Operations
  BY InitialIsDocument DEF Open, Operations
<1>2. UNCHANGED <<document, past, present, future, offered, busy, posts, versions,
                  edits, settled>>
  BY DEF Open, history
<1>3. PageOK'
  BY <1>2, TypeParts DEF EditorInv, PageOK
<1>4. HistoryBounded' /\ (settled' => present' = document')
  BY <1>2 DEF EditorInv, HistoryBounded, CopiesAgree
<1> QED BY <1>1, <1>3, <1>4, RenderKeeps DEF EditorInv

LEMMA CommitKeeps ==
  ASSUME EditorInv, document # None, NEW op \in {"commit", "switch", "json"},
         NEW next \in Seq(Layers), CommitAndRender(op, next)
  PROVE  EditorInv'
<1>1. Render(op, next) /\ next \in Documents /\ op \in Operations
  BY DEF CommitAndRender, Documents, Operations
<1>2. /\ UNCHANGED <<document, past, present, future, offered, posts, versions, settled>>
      /\ edits < MaxEdits /\ edits' = edits + 1
  BY DEF CommitAndRender, history, Edit
<1>3. busy' \in BOOLEAN
  BY DEF CommitAndRender
<1>4. edits' \in 0..MaxEdits
  BY <1>2, EditorAssumption DEF EditorInv, TypeOK
<1>5. PageOK'
  BY <1>2, <1>3, <1>4, TypeParts DEF EditorInv, PageOK
<1>6. HistoryBounded' /\ (settled' => present' = document') /\ document' # None
  BY <1>2 DEF EditorInv, HistoryBounded, CopiesAgree
<1>7. op # "history" /\ op # "restore"
  OBVIOUS
<1> QED BY <1>1, <1>5, <1>6, <1>7, RenderKeeps DEF EditorInv

LEMMA AddTextKeeps ==
  ASSUME EditorInv, AddText
  PROVE  EditorInv'
<1> DEFINE next == Append(document, Layer("text", edits + 1, None))
<1>1. document # None /\ document \in Seq(Layers) /\ CommitAndRender("commit", next)
  BY DocumentFacts DEF EditorInv, TypeOK, AddText, Enabled
<1>2. edits + 1 \in 0..MaxEdits
  BY <1>1, EditorAssumption DEF CommitAndRender, Edit, EditorInv, TypeOK
<1>3. Layer("text", edits + 1, None) \in Layers
  BY <1>2, LayerFields DEF Kinds
<1>4. next \in Seq(Layers)
  BY <1>1, <1>3, AppendProperties
<1> QED BY <1>1, <1>4, CommitKeeps

LEMMA DeleteLayerKeeps ==
  ASSUME EditorInv, document # None, NEW i \in DOMAIN document, DeleteLayer(i)
  PROVE  EditorInv'
<1>1. document \in Seq(Layers) /\ CommitAndRender("commit", RemoveAt(document, i))
  BY DocumentFacts DEF EditorInv, TypeOK, DeleteLayer
<1>2. RemoveAt(document, i) \in Seq(Layers)
  BY <1>1, DeletedIsLayers
<1> QED BY <1>1, <1>2, CommitKeeps

LEMMA MoveLayerKeeps ==
  ASSUME EditorInv, document # None, NEW i \in DOMAIN document, MoveLayer(i)
  PROVE  EditorInv'
<1>1. document \in Seq(Layers)
  BY DocumentFacts DEF EditorInv, TypeOK
<1>2. PICK j \in {i - 1, i + 1} : CommitAndRender("commit", Moved(document, i, j))
  BY DEF MoveLayer
<1>3. Moved(document, i, j) \in Seq(Layers)
  BY <1>1, MovedIsLayers
<1> QED BY <1>2, <1>3, CommitKeeps

LEMMA SwitchBackgroundKeeps ==
  ASSUME EditorInv, NEW a \in Assets \cup {None}, SwitchBackground(a)
  PROVE  EditorInv'
<1>1. document # None /\ document \in Documents
      /\ CommitAndRender("switch", WithBackground(document, a))
  BY DEF EditorInv, TypeOK, SwitchBackground, Enabled
<1>2. WithBackground(document, a) \in Seq(Layers)
  BY <1>1, SwitchedIsLayers
<1> QED BY <1>1, <1>2, CommitKeeps

LEMMA LoadJsonKeeps ==
  ASSUME EditorInv, NEW doc \in Pasted, LoadJson(doc)
  PROVE  EditorInv'
<1>1. document # None /\ doc \in Seq(Layers) /\ CommitAndRender("json", doc)
  BY PastedIsLayers DEF LoadJson, Enabled
<1> QED BY <1>1, CommitKeeps

\* undo() and redo() move a document from one end of the history to the other.
LEMMA UndoKeeps ==
  ASSUME EditorInv, Undo
  PROVE  EditorInv'
<1>1. /\ document # None /\ present \in Documents /\ past # <<>>
      /\ past \in Seq(Documents) /\ future \in Seq(Documents)
  BY DEF Undo, Enabled, EditorInv, TypeOK
<1>2. /\ past' = Front(past) /\ present' = Last(past) /\ future' = <<present>> \o future
      /\ Render("history", present') /\ settled' = FALSE
      /\ UNCHANGED <<document, offered, busy, posts, versions>>
      /\ edits < MaxEdits /\ edits' = edits + 1
  BY DEF Undo, Edit
<1>3. Len(past) \in Nat /\ Len(past) # 0 /\ Len(future) \in Nat
  BY <1>1, LenProperties, EmptySeq
<1>4. /\ past' \in Seq(Documents) /\ Len(past') = Len(past) - 1
  <2>1. Len(past) - 1 \in 0..Len(past)
    BY <1>3
  <2> QED BY <1>1, <1>2, <2>1, Halves DEF Front, First
<1>5. present' \in Documents
  <2>1. Len(past) \in 1..Len(past)
    BY <1>3
  <2> QED BY <1>1, <1>2, <2>1, ElementOfSeq DEF Last
<1>6. future' \in Seq(Documents) /\ Len(future') = 1 + Len(future)
  <2>1. <<present>> \in Seq(Documents) /\ Len(<<present>>) = 1
    BY <1>1
  <2> QED BY <1>1, <1>2, <2>1, ConcatProperties
<1>7. HistoryBounded'
  <2>1. Len(past') + Len(future') = Len(past) + Len(future)
    BY <1>3, <1>4, <1>6
  <2> QED BY <2>1 DEF EditorInv, HistoryBounded
<1>8. edits' \in 0..MaxEdits
  BY <1>2, EditorAssumption DEF EditorInv, TypeOK
<1>9. PageOK'
  <2>1. PageOK
    BY TypeParts DEF EditorInv
  <2> QED BY <1>1, <1>2, <1>4, <1>5, <1>6, <1>8, <2>1, NoneAssumption DEF PageOK
<1> QED BY <1>1, <1>2, <1>5, <1>7, <1>9, RenderKeeps DEF EditorInv, Operations

LEMMA RedoKeeps ==
  ASSUME EditorInv, Redo
  PROVE  EditorInv'
<1>1. /\ document # None /\ present \in Documents /\ future # <<>>
      /\ past \in Seq(Documents) /\ future \in Seq(Documents)
  BY DEF Redo, Enabled, EditorInv, TypeOK
<1>2. /\ past' = Append(past, present) /\ present' = Head(future) /\ future' = Tail(future)
      /\ Render("history", present') /\ settled' = FALSE
      /\ UNCHANGED <<document, offered, busy, posts, versions>>
      /\ edits < MaxEdits /\ edits' = edits + 1
  BY DEF Redo, Edit
<1>3. Len(past) \in Nat /\ Len(future) \in Nat
  BY <1>1, LenProperties
<1>4. /\ past' \in Seq(Documents) /\ Len(past') = Len(past) + 1
  BY <1>1, <1>2, AppendProperties
<1>5. /\ present' \in Documents
      /\ future' \in Seq(Documents) /\ Len(future') = Len(future) - 1
  BY <1>1, <1>2, HeadTailProperties
<1>6. HistoryBounded'
  <2>1. Len(past') + Len(future') = Len(past) + Len(future)
    BY <1>3, <1>4, <1>5
  <2> QED BY <2>1 DEF EditorInv, HistoryBounded
<1>7. edits' \in 0..MaxEdits
  BY <1>2, EditorAssumption DEF EditorInv, TypeOK
<1>8. PageOK'
  <2>1. PageOK
    BY TypeParts DEF EditorInv
  <2> QED BY <1>1, <1>2, <1>4, <1>5, <1>7, <2>1, NoneAssumption DEF PageOK
<1> QED BY <1>1, <1>2, <1>5, <1>6, <1>8, RenderKeeps DEF EditorInv, Operations

\* A new document is on the history, and nothing is drawn.
LEMMA PushOK ==
  ASSUME TypeOK, HistoryBounded, document # None, NEW next \in Documents, Push(next),
         posts' \subseteq [doc : Documents, mine : BOOLEAN], versions' = versions,
         edits' \in 0..MaxEdits, busy' \in BOOLEAN, settled' \in BOOLEAN
  PROVE  /\ PageOK' /\ HistoryBounded'
         /\ present' = next /\ document' = next /\ document' # None
<1>1. present # None /\ versions \in Seq(Documents)
  BY DEF TypeOK
<1>2. /\ past' \in Seq(Documents) /\ future' \in Seq(Documents)
      /\ present' = next /\ document' = next
      /\ offered' \in [undo : BOOLEAN, redo : BOOLEAN]
      /\ HistoryBounded'
  BY <1>1, PushKeeps
<1>3. next # None
  BY NoneAssumption
<1> QED BY <1>1, <1>2, <1>3 DEF PageOK

\* The end of each operation that waits for its drawing.
LEMMA DrawnKeeps ==
  ASSUME EditorInv, NEW r \in renders, Drawn(r.op, r.next),
         UNCHANGED <<posts, versions, edits>>, busy' \in BOOLEAN
  PROVE  /\ PageOK' /\ HistoryBounded' /\ document' # None
         /\ settled' => present' = document'
         /\ r.op # "restore" => document' = r.next
         /\ r.op = "restore" => document' = document
<1>1. /\ TypeOK /\ DrawingInv /\ HistoryBounded /\ r \in Drawing /\ PageOK
      /\ settled => present = document
  BY TypeParts DEF EditorInv, TypeOK, CopiesAgree
<1>2. r.next \in Documents /\ r.op \in Operations /\ r.next # None
  BY <1>1, NoneAssumption DEF Drawing, Operations
<1>3. /\ r.op # "load" => document # None
      /\ r.op = "history" /\ ~touched => r.next = present
  BY <1>1 DEF DrawingInv
<1>4. /\ posts' = posts /\ versions' = versions /\ edits' = edits
      /\ posts \subseteq [doc : Documents, mine : BOOLEAN] /\ edits \in 0..MaxEdits
  BY <1>1 DEF PageOK
<1>5. CASE r.op = "load"
  <2>1. /\ past' = <<>> /\ present' = r.next /\ future' = <<>>
        /\ document' = r.next /\ Sync /\ settled' = TRUE
    BY <1>5 DEF Drawn
  <2>2. offered' \in [undo : BOOLEAN, redo : BOOLEAN]
    BY <2>1 DEF Sync
  <2>3. past' \in Seq(Documents) /\ future' \in Seq(Documents) /\ HistoryBounded'
    <3>1. Len(past') = 0 /\ Len(future') = 0
      BY <2>1, EmptySeq
    <3> QED BY <2>1, <3>1, EmptySeq, EditorAssumption DEF HistoryBounded
  <2>4. PageOK'
    BY <1>1, <1>2, <1>4, <2>1, <2>2, <2>3 DEF PageOK
  <2> QED BY <1>2, <1>5, <2>1, <2>3, <2>4
<1>6. CASE r.op \in {"commit", "switch", "json"}
  <2>1. Push(r.next) /\ settled' = TRUE
    BY <1>6 DEF Drawn
  <2>2. document # None
    BY <1>3, <1>6
  <2>3. /\ PageOK' /\ HistoryBounded' /\ present' = r.next /\ document' = r.next
        /\ document' # None
    BY <1>1, <1>2, <1>4, <2>1, <2>2, PushOK
  <2> QED BY <1>6, <2>3
<1>7. CASE r.op = "history"
  <2>1. /\ past' = past /\ present' = present /\ future' = future
        /\ document' = r.next /\ Sync /\ settled' = ~touched
    BY <1>7 DEF Drawn
  <2>2. offered' \in [undo : BOOLEAN, redo : BOOLEAN]
    BY <2>1 DEF Sync
  <2>3. settled' \in BOOLEAN
    BY <2>1
  <2>4. document # None
    BY <1>3, <1>7
  <2>5. PageOK'
    BY <1>1, <1>2, <1>4, <2>1, <2>2, <2>3, <2>4 DEF PageOK
  <2>6. HistoryBounded'
    BY <1>1, <2>1 DEF HistoryBounded
  <2>7. settled' => present' = document'
    BY <1>3, <1>7, <2>1
  <2> QED BY <1>2, <1>7, <2>1, <2>5, <2>6, <2>7
<1>8. CASE r.op = "restore"
  <2>1. UNCHANGED <<document, past, present, future, offered, settled>>
    BY <1>8 DEF Drawn, history
  <2>2. PageOK'
    BY <1>1, <1>4, <2>1 DEF PageOK
  <2>3. HistoryBounded'
    BY <1>1, <2>1 DEF HistoryBounded
  <2> QED BY <1>1, <1>3, <1>8, <2>1, <2>2, <2>3
<1> QED BY <1>2, <1>5, <1>6, <1>7, <1>8 DEF Operations

LEMMA DrawKeeps ==
  ASSUME EditorInv, NEW r \in renders, Draw(r)
  PROVE  EditorInv'
<1>1. TypeOK /\ DrawingInv /\ PageOK /\ CopiesAgree /\ HistoryBounded
  BY TypeParts DEF EditorInv
<1>2. PICK n : n = Ready(r.left, 1)
  OBVIOUS
<1>3. canvas' = canvas \o First(r.left, n) /\ UNCHANGED <<posts, versions, edits, touched>>
  BY <1>2 DEF Draw
<1>4. CASE n < Len(r.left)
  <2>1. /\ renders' = (renders \ {r}) \cup {[r EXCEPT !.left = After(@, n)]}
        /\ UNCHANGED <<document, past, present, future, offered, busy, whole, settled>>
    BY <1>2, <1>4 DEF Draw, history
  <2>2. /\ canvas' \in Seq(Layers) /\ renders' \subseteq Drawing
        /\ Rendering' /\ DrawingInv' /\ CanvasInv'
    BY <1>1, <1>2, <1>3, <1>4, <2>1, DrawGoesOn
  <2>3. PageOK'
    BY <1>1, <1>3, <2>1 DEF PageOK
  <2>4. CanvasOK'
    BY <1>1, <1>3, <2>1, <2>2 DEF CanvasOK, TypeOK
  <2>5. CopiesAgree' /\ HistoryBounded'
    BY <1>1, <2>1, <2>2 DEF CopiesAgree, HistoryBounded
  <2> QED BY <2>2, <2>3, <2>4, <2>5, TypeParts DEF EditorInv
<1>5. CASE ~(n < Len(r.left))
  <2>1. /\ renders' = renders \ {r} /\ Drawn(r.op, r.next)
        /\ busy' = (busy /\ ~KeepsBusy(r)) /\ whole' = ~touched
    BY <1>2, <1>5 DEF Draw
  <2>2. /\ canvas' \in Seq(Layers) /\ renders' = {} /\ SameShape(canvas', r.next)
        /\ ~touched => canvas' = r.next
    BY <1>1, <1>2, <1>3, <1>5, <2>1, DrawEnds
  <2>3. busy' \in BOOLEAN
    BY <2>1
  <2>4. /\ PageOK' /\ HistoryBounded' /\ document' # None
        /\ settled' => present' = document'
        /\ r.op # "restore" => document' = r.next
        /\ r.op = "restore" => document' = document
    BY <1>3, <2>1, <2>3, DrawnKeeps
  <2>5. ~Rendering'
    BY <2>2 DEF Rendering
  <2>6. /\ r.op = "restore" => SameShape(r.next, document)
        /\ r.op = "restore" /\ ~touched => r.next = document
    BY <1>1 DEF DrawingInv
  <2>7. CanvasOK'
    <3>1. whole' \in BOOLEAN
      BY <2>1
    <3> QED BY <1>1, <1>3, <2>2, <3>1 DEF CanvasOK, TypeOK
  <2>8. CopiesAgree'
    <3>1. whole' => ~touched
      BY <2>1
    <3>2. whole' => canvas' = document'
      BY <2>2, <2>4, <2>6, <3>1
    <3> QED BY <2>4, <3>2 DEF CopiesAgree
  <2>9. SameShape(canvas', document')
    <3>1. CASE r.op # "restore"
      BY <2>2, <2>4, <3>1
    <3>2. CASE r.op = "restore"
      <4>1. r.next \in Documents /\ document \in Documents
        BY <1>1, <2>4, <3>2 DEF TypeOK, Drawing
      <4>2. r.next \in Seq(Layers) /\ document \in Seq(Layers)
        BY <4>1, DocumentFacts
      <4>3. SameShape(canvas', document)
        BY <2>2, <2>6, <3>2, <4>2, SameIsTransitive
      <4> QED BY <2>4, <3>2, <4>3
    <3> QED BY <3>1, <3>2
  <2>10. CanvasInv'
    BY <2>4, <2>9 DEF CanvasInv
  <2>11. DrawingInv'
    BY <2>2, <2>5 DEF DrawingInv
  <2> QED BY <2>4, <2>7, <2>8, <2>10, <2>11, TypeParts DEF EditorInv
<1> QED BY <1>4, <1>5

\* A failed drawing leaves a canvas without the product, that shows no design.
LEMMA DrawFailsKeeps ==
  ASSUME EditorInv, NEW r \in renders, DrawFails(r)
  PROVE  EditorInv'
<1>1. TypeOK /\ DrawingInv /\ PageOK /\ CanvasOK /\ CopiesAgree /\ HistoryBounded
  BY TypeParts DEF EditorInv
<1>2. /\ renders' = renders \ {r} /\ busy' = (busy /\ ~KeepsBusy(r))
      /\ UNCHANGED <<document, past, present, future, offered, canvas, posts, versions,
                     edits, touched, whole, settled>>
  BY DEF DrawFails, history, marks
<1>3. renders' = {} /\ Rendering /\ ~Rendering'
  BY <1>1, <1>2 DEF DrawingInv, Rendering
<1>4. busy' \in BOOLEAN
  BY <1>2
<1>5. PageOK' /\ CanvasOK'
  BY <1>1, <1>2, <1>3, <1>4 DEF PageOK, CanvasOK
<1>6. HistoryBounded'
  BY <1>1, <1>2 DEF HistoryBounded
<1>7. CopiesAgree'
  BY <1>1, <1>2, <1>3 DEF CopiesAgree, DrawingInv
<1>8. DrawingInv'
  BY <1>3 DEF DrawingInv
<1>9. CanvasInv'
  BY <1>1, <1>2, <1>3, ProductComesLast DEF CanvasInv
<1> QED BY <1>5, <1>6, <1>7, <1>8, <1>9, TypeParts DEF EditorInv

LEMMA ReloadKeeps ==
  ASSUME EditorInv, Reload
  PROVE  EditorInv'
<1>1. TypeOK /\ PageOK
  BY TypeParts DEF EditorInv
<1>2. /\ document' = None /\ past' = <<>> /\ present' = None /\ future' = <<>>
      /\ offered' = [undo |-> FALSE, redo |-> FALSE]
      /\ canvas' = <<>> /\ renders' = {} /\ busy' = FALSE
      /\ posts' = {[p EXCEPT !.mine = FALSE] : p \in posts}
      /\ touched' = FALSE /\ whole' = TRUE /\ settled' = TRUE
      /\ UNCHANGED <<versions, edits>>
  BY DEF Reload
<1>3. posts' \subseteq [doc : Documents, mine : BOOLEAN]
  <2>1. \A p \in [doc : Documents, mine : BOOLEAN] :
          [p EXCEPT !.mine = FALSE] \in [doc : Documents, mine : BOOLEAN]
    OBVIOUS
  <2> QED BY <1>1, <1>2, <2>1 DEF PageOK
<1>4. /\ past' \in Seq(Documents) /\ future' \in Seq(Documents)
      /\ Len(past') = 0 /\ Len(future') = 0 /\ canvas' \in Seq(Layers)
      /\ DOMAIN canvas' = {}
  BY <1>2, EmptySeq
<1>5. PageOK'
  BY <1>1, <1>2, <1>3, <1>4 DEF PageOK
<1>6. CanvasOK'
  BY <1>2, <1>4 DEF CanvasOK
<1>7. HistoryBounded'
  BY <1>4, EditorAssumption DEF HistoryBounded
<1>8. CopiesAgree' /\ DrawingInv' /\ CanvasInv'
  BY <1>2, <1>4 DEF CopiesAgree, DrawingInv, CanvasInv, Rendering
<1> QED BY <1>5, <1>6, <1>7, <1>8, TypeParts DEF EditorInv

LEMMA SavesKeep ==
  ASSUME EditorInv, SaveVersion \/ \E p \in posts : StoreVersion(p)
  PROVE  EditorInv'
<1>1. PageOK /\ CanvasOK
  BY TypeParts DEF EditorInv
<1>2. UNCHANGED <<document, past, present, future, offered, canvas, renders, edits,
                  touched, whole, settled>>
  BY DEF SaveVersion, StoreVersion, history, marks
<1>3. /\ posts' \subseteq [doc : Documents, mine : BOOLEAN]
      /\ versions' \in Seq(Documents) /\ busy' \in BOOLEAN
  <2>1. CASE SaveVersion
    <3>1. document \in Documents
      BY <1>1, <2>1 DEF SaveVersion, Enabled, PageOK
    <3>2. [doc |-> document, mine |-> TRUE] \in [doc : Documents, mine : BOOLEAN]
      BY <3>1
    <3>3. /\ posts' = posts \cup {[doc |-> document, mine |-> TRUE]}
          /\ busy' = TRUE /\ versions' = versions
      BY <2>1 DEF SaveVersion
    <3> QED BY <1>1, <3>2, <3>3 DEF PageOK
  <2>2. ASSUME NEW p \in posts, StoreVersion(p)
        PROVE  /\ posts' \subseteq [doc : Documents, mine : BOOLEAN]
               /\ versions' \in Seq(Documents) /\ busy' \in BOOLEAN
    <3>1. p.doc \in Documents /\ versions \in Seq(Documents)
      BY <1>1 DEF PageOK
    <3>2. Append(versions, p.doc) \in Seq(Documents)
      BY <3>1, AppendProperties
    <3>3. versions' \in Seq(Documents)
      BY <2>2, <3>1, <3>2 DEF StoreVersion
    <3>4. posts' \subseteq [doc : Documents, mine : BOOLEAN]
      BY <1>1, <2>2 DEF StoreVersion, PageOK
    <3>5. busy' \in BOOLEAN
      BY <2>2 DEF StoreVersion
    <3> QED BY <3>3, <3>4, <3>5
  <2> QED BY <2>1, <2>2
<1>4. PageOK' /\ CanvasOK'
  BY <1>1, <1>2, <1>3 DEF PageOK, CanvasOK
<1>5. HistoryBounded' /\ CopiesAgree' /\ CanvasInv'
  BY <1>2 DEF EditorInv, HistoryBounded, CopiesAgree, CanvasInv, Rendering
<1>6. DrawingInv'
  BY <1>2 DEF EditorInv, DrawingInv, DrawnSoFar, Rendering
<1> QED BY <1>4, <1>5, <1>6, TypeParts DEF EditorInv

\* An edit on the canvas, while it is drawn: the drawing goes on all the same.
LEMMA TouchedKeeps ==
  ASSUME TypeOK, DrawingInv, NEW l, NEW look \in 0..MaxEdits,
         canvas' = Changed(canvas, l, look), touched' = TRUE,
         UNCHANGED <<renders, whole>>,
         Rendering /\ document # None => document' # None /\ SameShape(document, document')
  PROVE  DrawingInv' /\ CanvasOK'
<1>1. canvas \in Seq(Layers) /\ renders \subseteq Drawing /\ CanvasOK
  BY TypeParts DEF TypeOK
<1>2. /\ canvas' \in Seq(Layers) /\ Len(canvas') = Len(canvas) /\ Len(canvas) \in Nat
      /\ \A i \in 1..Len(canvas) : Same(canvas'[i], canvas[i])
  <2>1. PICK c : c = canvas'
    OBVIOUS
  <2>2. c = Changed(canvas, l, look)
    BY <2>1
  <2>3. /\ c \in Seq(Layers) /\ Len(c) = Len(canvas)
        /\ \A i \in 1..Len(canvas) : Same(c[i], canvas[i])
    BY <1>1, <2>2, ChangedFacts
  <2> QED BY <1>1, <2>1, <2>3, LenProperties
<1>3. CanvasOK'
  BY <1>1, <1>2 DEF CanvasOK
<1>4. ASSUME NEW r \in renders
      PROVE  /\ DrawnSoFar(r)'
             /\ r.op # "load" => document' # None
             /\ r.op = "restore" => SameShape(r.next, document')
  <2>1. /\ DrawnSoFar(r)
        /\ r.op # "load" => document # None
        /\ r.op = "restore" => SameShape(r.next, document)
        /\ Rendering
    BY DEF DrawingInv, Rendering
  <2>2. \A i \in 1..Len(canvas) : Same(canvas'[i], r.next[i])
    BY <1>2, <2>1 DEF DrawnSoFar, Same
  <2>3. DrawnSoFar(r)'
    BY <1>2, <2>1, <2>2 DEF DrawnSoFar
  <2>4. ASSUME r.op = "restore"
        PROVE  SameShape(r.next, document')
    <3>1. r.next \in Documents /\ document \in Documents
      BY <1>1, <2>1, <2>4 DEF TypeOK, Drawing
    <3>2. r.next \in Seq(Layers) /\ document \in Seq(Layers)
      BY <3>1, DocumentFacts
    <3>3. SameShape(r.next, document) /\ SameShape(document, document')
      BY <2>1, <2>4
    <3>4. DOMAIN r.next = 1..Len(r.next) /\ DOMAIN document = 1..Len(document)
      BY <3>2, LenProperties
    <3> QED BY <3>3, <3>4 DEF SameShape, Same
  <2> QED BY <2>1, <2>3, <2>4
<1>5. DrawingInv'
  BY <1>4 DEF DrawingInv, Rendering
<1> QED BY <1>3, <1>5

LEMMA UpdateLayerKeeps ==
  ASSUME EditorInv, document # None, NEW i \in DOMAIN document, UpdateLayer(i)
  PROVE  EditorInv'
<1> DEFINE l == document[i]
           look == edits + 1
<1>1. /\ TypeOK /\ PageOK /\ CanvasOK /\ HistoryBounded /\ CopiesAgree /\ DrawingInv
      /\ CanvasInv
  BY TypeParts DEF EditorInv
<1>2. document \in Documents /\ document \in Seq(Layers) /\ canvas \in Seq(Layers)
  BY <1>1, DocumentFacts DEF TypeOK
<1>3. /\ edits < MaxEdits /\ edits' = look
      /\ canvas' = Changed(canvas, l, look) /\ Push(Changed(document, l, look))
      /\ touched' = Rendering
      /\ settled' = (\A r \in renders : r.op # "history")
      /\ UNCHANGED <<renders, busy, posts, versions, whole>>
  BY DEF UpdateLayer, Edit
<1>4. look \in 0..MaxEdits
  BY <1>1, <1>3, EditorAssumption DEF TypeOK
<1> HIDE DEF l, look
<1>5. PICK d : d = Changed(document, l, look)
  OBVIOUS
<1>6. d \in Documents /\ SameShape(document, d)
  BY <1>2, <1>4, <1>5, ChangedDocument, ChangedFacts
<1>7. settled' \in BOOLEAN
  BY <1>3
<1>8. /\ PageOK' /\ HistoryBounded'
      /\ present' = d /\ document' = d /\ document' # None
  BY <1>1, <1>3, <1>4, <1>5, <1>6, <1>7, PushOK DEF PageOK
<1>9. CASE Rendering
  <2>1. touched' = TRUE /\ ~whole /\ Rendering'
    BY <1>1, <1>3, <1>9 DEF DrawingInv, Rendering
  <2>2. DrawingInv' /\ CanvasOK'
    BY <1>1, <1>3, <1>4, <1>6, <1>8, <2>1, TouchedKeeps
  <2>3. CopiesAgree' /\ CanvasInv'
    BY <1>3, <1>8, <2>1 DEF CopiesAgree, CanvasInv
  <2> QED BY <1>8, <2>2, <2>3, TypeParts DEF EditorInv
<1>10. CASE ~Rendering
  <2>1. touched' = FALSE /\ ~Rendering' /\ renders' = {}
    BY <1>3, <1>10 DEF Rendering
  <2>2. PICK c : c = canvas'
    OBVIOUS
  <2>3. c = Changed(canvas, l, look)
    BY <1>3, <2>2
  <2>4. c \in Seq(Layers) /\ SameShape(canvas, c)
    BY <1>2, <1>4, <2>3, ChangedFacts
  <2>5. CanvasOK'
    BY <1>1, <1>3, <2>1, <2>2, <2>4 DEF CanvasOK
  <2>6. DrawingInv'
    BY <2>1 DEF DrawingInv
  <2>7. CopiesAgree'
    BY <1>1, <1>3, <1>5, <1>8, <1>10, <2>2, <2>3 DEF CopiesAgree
  <2>8. ASSUME NEW j \in DOMAIN c, c[j].kind = "product"
        PROVE  SameShape(c, d)
    <3>1. j \in DOMAIN canvas /\ canvas[j].kind = "product"
      BY <1>2, <2>4, <2>8, LenProperties DEF SameShape, Same
    <3>2. SameShape(canvas, document)
      BY <1>1, <1>10, <3>1 DEF CanvasInv
    <3>3. d \in Seq(Layers)
      BY <1>6, DocumentFacts
    <3>4. SameShape(canvas, d)
      BY <1>2, <1>6, <3>2, <3>3, SameIsTransitive
    <3>5. SameShape(c, canvas)
      BY <1>2, <2>4, SameIsReflexive, SameIsTransitive
    <3> QED BY <1>2, <2>4, <3>3, <3>4, <3>5, SameIsTransitive
  <2>9. CanvasInv'
    BY <1>8, <2>2, <2>8 DEF CanvasInv
  <2> QED BY <1>8, <2>5, <2>6, <2>7, <2>9, TypeParts DEF EditorInv
<1> QED BY <1>9, <1>10

LEMMA MouseEditKeeps ==
  ASSUME EditorInv, NEW i \in DOMAIN canvas, MouseEdit(i)
  PROVE  EditorInv'
<1> DEFINE l == canvas[i]
           look == edits + 1
           seen == Changed(canvas, l, look)
<1>1. /\ TypeOK /\ PageOK /\ CanvasOK /\ HistoryBounded /\ CopiesAgree /\ DrawingInv
      /\ CanvasInv
  BY TypeParts DEF EditorInv
<1>2. canvas \in Seq(Layers)
  BY <1>1 DEF TypeOK
<1>3. /\ edits < MaxEdits /\ edits' = look /\ UNCHANGED <<busy, posts, versions>>
      /\ \/ /\ Rendering \/ document = None
            /\ canvas' = seen /\ touched' = TRUE
            /\ UNCHANGED <<document, past, present, future, offered, renders, whole,
                           settled>>
         \/ /\ ~Rendering /\ document # None /\ Valid(seen)
            /\ canvas' = seen /\ Push(seen)
            /\ settled' = TRUE
            /\ UNCHANGED <<renders, whole, touched>>
         \/ /\ ~Rendering /\ document # None
            /\ Render("restore", document)
            /\ UNCHANGED <<document, past, present, future, offered, settled>>
  BY DEF MouseEdit, Edit, history
<1>4. look \in 0..MaxEdits
  BY <1>1, <1>3, EditorAssumption DEF TypeOK
<1> HIDE DEF l, look
<1>5. seen \in Seq(Layers) /\ SameShape(canvas, seen)
  BY <1>2, <1>4, ChangedFacts
<1>6. CASE /\ Rendering \/ document = None
           /\ canvas' = seen /\ touched' = TRUE
           /\ UNCHANGED <<document, past, present, future, offered, renders, whole,
                          settled>>
  <2>1. document # None => SameShape(document, document')
    <3>1. document # None => document \in Seq(Layers)
      BY <1>1, DocumentFacts DEF TypeOK
    <3> QED BY <1>6, <3>1, SameIsReflexive
  <2>2. DrawingInv' /\ CanvasOK'
    BY <1>1, <1>4, <1>6, <2>1, TouchedKeeps
  <2>3. PageOK' /\ HistoryBounded'
    BY <1>1, <1>3, <1>4, <1>6 DEF PageOK, HistoryBounded
  <2>4. CopiesAgree'
    BY <1>1, <1>6 DEF CopiesAgree, DrawingInv, Rendering
  <2>5. CanvasInv'
    <3>1. SUFFICES ASSUME NEW j \in DOMAIN canvas', canvas'[j].kind = "product", ~Rendering'
                   PROVE  FALSE
      BY DEF CanvasInv
    <3>2. canvas[j].kind = "product" /\ j \in DOMAIN canvas
      <4>1. PICK c : c = seen
        OBVIOUS
      <4>2. canvas' = c /\ c \in Seq(Layers) /\ SameShape(canvas, c)
        BY <1>5, <1>6, <4>1
      <4> QED BY <1>2, <3>1, <4>2, LenProperties DEF SameShape, Same
    <3>3. ~Rendering /\ document = None
      BY <1>6, <3>1 DEF Rendering
    <3> QED BY <1>1, <3>2, <3>3 DEF CanvasInv
  <2> QED BY <2>2, <2>3, <2>4, <2>5, TypeParts DEF EditorInv
<1>7. CASE /\ ~Rendering /\ document # None /\ Valid(seen)
           /\ canvas' = seen /\ Push(seen)
           /\ settled' = TRUE
           /\ UNCHANGED <<renders, whole, touched>>
  <2>1. PICK c : c = seen
    OBVIOUS
  <2>2. canvas' = c /\ Push(c) /\ c \in Seq(Layers) /\ Valid(c)
    BY <1>5, <1>7, <2>1
  <2>3. c \in Documents
    BY <2>2 DEF Documents
  <2>4. /\ PageOK' /\ HistoryBounded'
        /\ present' = c /\ document' = c /\ document' # None
    BY <1>1, <1>3, <1>4, <1>7, <2>2, <2>3, PushOK DEF PageOK
  <2>5. CanvasOK'
    BY <1>1, <1>7, <2>2 DEF CanvasOK
  <2>6. renders' = {} /\ ~Rendering'
    BY <1>7 DEF Rendering
  <2>7. CopiesAgree' /\ DrawingInv'
    BY <2>2, <2>4, <2>6 DEF CopiesAgree, DrawingInv
  <2>8. CanvasInv'
    BY <2>2, <2>4, SameIsReflexive DEF CanvasInv
  <2> QED BY <2>4, <2>5, <2>7, <2>8, TypeParts DEF EditorInv
<1>8. CASE /\ ~Rendering /\ document # None
           /\ Render("restore", document)
           /\ UNCHANGED <<document, past, present, future, offered, settled>>
  <2>1. document \in Documents /\ "restore" \in Operations
    BY <1>1, <1>8 DEF TypeOK, Operations
  <2>2. PageOK' /\ HistoryBounded' /\ (settled' => present' = document')
    BY <1>1, <1>3, <1>4, <1>8 DEF PageOK, HistoryBounded, CopiesAgree
  <2> QED BY <1>1, <1>8, <2>1, <2>2, RenderKeeps
<1> QED BY <1>3, <1>6, <1>7, <1>8

-----------------------------------------------------------------------------
(* Theorems.                                                                *)

LEMMA InitEstablishes == Init => EditorInv
<1> SUFFICES ASSUME Init
             PROVE  EditorInv
  OBVIOUS
<1>1. /\ past = <<>> /\ future = <<>> /\ canvas = <<>> /\ versions = <<>>
      /\ <<>> \in Seq(Documents) /\ <<>> \in Seq(Layers)
      /\ Len(past) = 0 /\ Len(future) = 0 /\ DOMAIN canvas = {}
  BY EmptySeq DEF Init
<1>2. 0 \in 0..MaxEdits
  BY EditorAssumption
<1>3. PageOK /\ CanvasOK
  BY <1>1, <1>2 DEF Init, PageOK, CanvasOK
<1>4. HistoryBounded
  BY <1>1, EditorAssumption DEF HistoryBounded
<1>5. CopiesAgree /\ DrawingInv /\ CanvasInv
  BY <1>1 DEF Init, CopiesAgree, DrawingInv, CanvasInv, Rendering
<1> QED BY <1>3, <1>4, <1>5, TypeParts DEF EditorInv

LEMMA StutterKeeps ==
  ASSUME EditorInv, UNCHANGED vars
  PROVE  EditorInv'
BY DEF EditorInv, TypeOK, CopiesAgree, HistoryBounded, DrawingInv, DrawnSoFar, CanvasInv,
       Rendering, vars, history, marks

LEMMA NextKeeps ==
  ASSUME EditorInv, [Next]_vars
  PROVE  EditorInv'
<1>1. CASE Next
  <2>1. ASSUME NEW doc \in Initial, Open(doc) PROVE EditorInv'
    BY <2>1, OpenKeeps
  <2>2. CASE Reload
    BY <2>2, ReloadKeeps
  <2>3. ASSUME NEW r \in renders, Draw(r) \/ DrawFails(r) PROVE EditorInv'
    BY <2>3, DrawKeeps, DrawFailsKeeps
  <2>4. CASE AddText
    BY <2>4, AddTextKeeps
  <2>5. ASSUME document # None, NEW i \in DOMAIN document,
               DeleteLayer(i) \/ MoveLayer(i) \/ UpdateLayer(i)
        PROVE  EditorInv'
    BY <2>5, DeleteLayerKeeps, MoveLayerKeeps, UpdateLayerKeeps
  <2>6. ASSUME NEW i \in DOMAIN canvas, MouseEdit(i) PROVE EditorInv'
    BY <2>6, MouseEditKeeps
  <2>7. ASSUME NEW a \in Assets \cup {None}, SwitchBackground(a) PROVE EditorInv'
    BY <2>7, SwitchBackgroundKeeps
  <2>8. ASSUME NEW doc \in Pasted, LoadJson(doc) PROVE EditorInv'
    BY <2>8, LoadJsonKeeps
  <2>9. CASE Undo \/ Redo
    BY <2>9, UndoKeeps, RedoKeeps
  <2>10. CASE SaveVersion \/ \E p \in posts : StoreVersion(p)
    BY <2>10, SavesKeep
  <2> QED BY <1>1, <2>1, <2>2, <2>3, <2>4, <2>5, <2>6, <2>7, <2>8, <2>9, <2>10 DEF Next
<1>2. CASE UNCHANGED vars
  BY <1>2, StutterKeeps
<1> QED BY <1>1, <1>2

\* At rest the canvas shows the document, unless its last drawing failed or
\* something was edited while it was drawn; the present of the history is the
\* document, unless an undo or a redo was left half done or overlapped by an
\* edit; the history stays within its limit, and every copy that is kept or
\* saved is a design (design-editor.tsx, design-history.ts).
THEOREM EditorInvariant == Spec => []EditorInv
<1>1. Init => EditorInv
  BY InitEstablishes
<1>2. EditorInv /\ [Next]_vars => EditorInv'
  BY NextKeeps
<1> QED BY <1>1, <1>2, PTL DEF Spec

LEMMA SameNames ==
  ASSUME NEW s \in Seq(Layers), NEW t \in Seq(Layers), SameShape(s, t)
  PROVE  Names(s) = Names(t)
<1>1. /\ DOMAIN s = DOMAIN t
      /\ \A i \in DOMAIN s : s[i].kind = t[i].kind /\ s[i].id = t[i].id
  BY LenProperties DEF SameShape, Same
<1> QED BY <1>1 DEF Names

\* Dragging an object never takes a layer from the design, although the
\* document is read back from the canvas (commitCanvasChange()).
THEOREM DraggingKeepsLayers == Spec => MouseKeepsLayers
<1> DEFINE A == (\E i \in DOMAIN canvas : MouseEdit(i)) /\ document # None
                  => Names(document') = Names(document)
<1>1. EditorInv => A
  <2> SUFFICES ASSUME EditorInv, NEW i \in DOMAIN canvas, MouseEdit(i), document # None
               PROVE  Names(document') = Names(document)
    OBVIOUS
  <2> DEFINE seen == Changed(canvas, canvas[i], edits + 1)
  <2>1. /\ canvas \in Seq(Layers) /\ document \in Seq(Layers) /\ CanvasInv
        /\ present # None /\ TypeOK /\ HistoryBounded
    BY DocumentFacts DEF EditorInv, TypeOK
  <2>2. edits + 1 \in 0..MaxEdits
    BY <2>1, EditorAssumption DEF MouseEdit, Edit, TypeOK
  <2>3. seen \in Seq(Layers) /\ SameShape(canvas, seen)
    BY <2>1, <2>2, ChangedFacts
  <2>4. CASE document' = document
    BY <2>4
  <2>5. CASE document' # document
    <3>1. ~Rendering /\ Valid(seen) /\ Push(seen)
      BY <2>5 DEF MouseEdit, history
    <3> HIDE DEF seen
    <3>2. seen \in Documents
      BY <2>3, <3>1 DEF Documents
    <3>3. document' = seen
      BY <2>1, <3>1, <3>2, PushKeeps
    <3>4. PICK j \in 1..Len(seen) : seen[j].kind = "product"
      BY <3>2, HasProduct
    <3>5. j \in DOMAIN canvas /\ canvas[j].kind = "product"
      BY <2>1, <2>3, <3>4, LenProperties DEF SameShape, Same
    <3>6. SameShape(canvas, document)
      BY <2>1, <3>1, <3>5 DEF CanvasInv
    <3>7. Names(seen) = Names(canvas) /\ Names(canvas) = Names(document)
      BY <2>1, <2>3, <3>6, SameNames
    <3> QED BY <3>3, <3>7
  <2> QED BY <2>4, <2>5
<1>2. Spec => []EditorInv
  BY EditorInvariant
<1> HIDE DEF A
<1>3. Spec => [][A]_vars
  BY <1>1, <1>2, PTL DEF Spec
<1> QED BY <1>3 DEF MouseKeepsLayers, A
=============================================================================

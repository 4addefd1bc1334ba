-------------------------- MODULE RSSHandlerProofs --------------------------
(***************************************************************************)
(* For every set of texts and every document the services can write, of    *)
(* any length: the handler's types, the faithfulness of the items it has   *)
(* added to the feed, the stability of what it delivered, and that it      *)
(* implements FeedContract.                                                *)
(***************************************************************************)
EXTENDS RSSHandler, SequenceTheorems, TLAPS

(***************************************************************************)
(* The inductive invariant.  Target is the record that text goes to now,   *)
(* the feed's header or the last item; Target[f] is the reading of what    *)
(* the document says so far, except for the element the handler still      *)
(* waits for the text of.                                                  *)
(***************************************************************************)
Active == phase \in {"reading", "done"}

Target == IF itemFound THEN heap[Len(heap)] ELSE feed

\* Where the handler is follows where the parser is.
InStep ==
  /\ phase = "done" => leaf = NoField /\ spaced /\ scope = "channel"
  /\ Len(heap) = Len(written)
  /\ (itemFound <=> Len(written) > 1)
  /\ scope = "prolog" => Len(written) = 1 /\ leaf = NoField /\ spaced
  /\ scope = "item" => Len(written) > 1
  /\ scope = "channel" /\ itemFound => leaf = NoField /\ spaced
  /\ leaf = NoField => depth = 0
  /\ leaf = NoField /\ spaced => currentState = unknown

\* The element whose text is awaited was just opened, and holds nothing yet.
Awaiting ==
  /\ leaf # NoField => Len(written[Len(written)][leaf]) > 0
  /\ leaf # NoField /\ Len(written[Len(written)][leaf]) = 1
       => currentState = leaf
  /\ currentState # unknown =>
       /\ Len(written[Len(written)][currentState]) = 1
       /\ leaf \in {NoField, currentState}
  /\ depth = 1 => currentState = unknown

\* What was read so far.
SoFar ==
  /\ \A f \in Fields :
       Target[f] = IF f = currentState THEN NoText
                   ELSE Reading(written[Len(written)][f])
  /\ \A k \in 2..(Len(written) - 1) : heap[k] = ReadingOf(written[k])
  /\ itemFound => feed = ReadingOf(written[1])
  /\ Len(itemList) = Closed
  /\ \A k \in 1..Closed : itemList[k] = k + 1

\* Before startDocument the parser has said nothing.
Fresh == phase = "created" =>
  /\ heap = <<>> /\ itemList = <<>> /\ feed = NewItem
  /\ ~itemFound /\ currentState = unknown
  /\ scope = "prolog" /\ leaf = NoField /\ depth = 0 /\ spaced
  /\ written = <<NoContent>>

IInv == TypeOK /\ Fresh /\ (Active => InStep /\ Awaiting /\ SoFar)

-----------------------------------------------------------------------------
(* The names that are no element, and the records a callback starts from.  *)
\* startElement compares tags with the names of Fields only.
LEMMA Names ==
  /\ unknown \notin Fields /\ NoField \notin Fields
  /\ "item" \notin Fields /\ "channel" \notin Fields /\ "markup" \notin Fields
BY DEF Fields, unknown, NoField

\* A new RSSFeed or RSSItem holds no string, a new element no text.
LEMMA FreshRecords ==
  /\ NewItem \in Record
  /\ \A f \in Fields : NewItem[f] = NoText
  /\ NoContent \in Written
  /\ \A f \in Fields : NoContent[f] = <<>>
BY DEF NewItem, NoContent, Record, Written, Content, Values

\* What the app shows of an absent and of an empty element.
LEMMA Readings ==
  /\ Reading(<<>>) = NoText
  /\ NewItem = ReadingOf(NoContent)
  /\ \A c : Len(c) = 1 => Reading(c) = Blank
BY DEF Reading, ReadingOf, NewItem, NoContent

\* Storing in an element of the last scope, or in a field of the last item,
\* leaves all others as they were.
Store(w, f, c) == [w EXCEPT ![Len(w)][f] = c]

\* A run of text in the open element changes nothing the service wrote before.
LEMMA WrittenStore ==
  ASSUME NEW w \in Document, NEW f \in Fields, NEW c \in Content
  PROVE  /\ Store(w, f, c) \in Document
         /\ Len(Store(w, f, c)) = Len(w)
         /\ Store(w, f, c)[Len(w)][f] = c
         /\ \A g \in Fields : g # f => Store(w, f, c)[Len(w)][g] = w[Len(w)][g]
         /\ \A k \in 1..Len(w) : k # Len(w) => Store(w, f, c)[k] = w[k]
<1>1. /\ w \in Seq(Written) /\ w # <<>> /\ Len(w) \in 1..Len(w)
  BY EmptySeq, LenProperties DEF Document
<1>2. w[Len(w)] \in Written
  BY <1>1, ElementOfSeq
<1>3. [w[Len(w)] EXCEPT ![f] = c] \in Written
  BY <1>2 DEF Written
<1>4. Store(w, f, c) = [w EXCEPT ![Len(w)] = [w[Len(w)] EXCEPT ![f] = c]]
  BY DEF Store
<1>5. /\ Store(w, f, c) \in Seq(Written) /\ Len(Store(w, f, c)) = Len(w)
      /\ Store(w, f, c)[Len(w)] = [w[Len(w)] EXCEPT ![f] = c]
      /\ \A k \in 1..Len(w) : k # Len(w) => Store(w, f, c)[k] = w[k]
  BY <1>1, <1>3, <1>4, ExceptSeq
<1>. QED
  BY <1>1, <1>2, <1>5 DEF Document, Written

\* RSSItem: a setter of the last item created changes that field of it only.
LEMMA HeapStore ==
  ASSUME NEW h \in Seq(Record), h # <<>>, NEW f \in Fields, NEW t \in Values
  PROVE  /\ Store(h, f, t) \in Seq(Record)
         /\ Len(Store(h, f, t)) = Len(h)
         /\ Store(h, f, t)[Len(h)][f] = t
         /\ \A g \in Fields : g # f => Store(h, f, t)[Len(h)][g] = h[Len(h)][g]
         /\ \A k \in 1..Len(h) : k # Len(h) => Store(h, f, t)[k] = h[k]
<1>1. Len(h) \in 1..Len(h)
  BY EmptySeq, LenProperties
<1>2. h[Len(h)] \in Record
  BY <1>1, ElementOfSeq
<1>3. [h[Len(h)] EXCEPT ![f] = t] \in Record
  BY <1>2 DEF Record
<1>4. Store(h, f, t) = [h EXCEPT ![Len(h)] = [h[Len(h)] EXCEPT ![f] = t]]
  BY DEF Store
<1>5. /\ Store(h, f, t) \in Seq(Record) /\ Len(Store(h, f, t)) = Len(h)
      /\ Store(h, f, t)[Len(h)] = [h[Len(h)] EXCEPT ![f] = t]
      /\ \A k \in 1..Len(h) : k # Len(h) => Store(h, f, t)[k] = h[k]
  BY <1>1, <1>3, <1>4, ExceptSeq
<1>. QED
  BY <1>2, <1>5 DEF Record

\* Another run of text or a nested element does not change what the first
\* one was.
LEMMA AppendPiece ==
  ASSUME NEW c \in Content, Len(c) > 0, NEW p \in Text \cup {Blank, Markup}
  PROVE  /\ Append(c, p) \in Content
         /\ Len(Append(c, p)) > 0 /\ Len(Append(c, p)) # 1
         /\ Len(c) = 1 =>
              Reading(Append(c, p)) = IF p = Markup THEN NoText ELSE p
         /\ Len(c) # 1 => Reading(Append(c, p)) = Reading(c)
<1>. DEFINE d == Append(c, p)
            n == Len(c)
            m == Len(d)
<1>1. /\ d \in Content /\ n \in Nat /\ n > 0
      /\ m = n + 1
      /\ \A i \in 1..n : d[i] = c[i]
      /\ d[n + 1] = p
  BY AppendProperties, LenProperties DEF Content
<1>2. /\ Reading(d) = IF m = 0 THEN NoText ELSE IF m = 1 THEN Blank
                      ELSE IF d[2] = Markup THEN NoText ELSE d[2]
      /\ Reading(c) = IF n = 0 THEN NoText ELSE IF n = 1 THEN Blank
                      ELSE IF c[2] = Markup THEN NoText ELSE c[2]
  BY DEF Reading
<1>. HIDE DEF n, m, d
<1>3. m > 0 /\ m # 1 /\ m # 0
  BY <1>1
<1>4. n = 1 => d[2] = p
  BY <1>1
<1>5. n # 1 => d[2] = c[2] /\ n # 0
  BY <1>1
<1>6. /\ d \in Content /\ m > 0 /\ m # 1
      /\ n = 1 => Reading(d) = IF p = Markup THEN NoText ELSE p
      /\ n # 1 => Reading(d) = Reading(c)
  BY <1>1, <1>2, <1>3, <1>4, <1>5
<1>. QED
  BY <1>6 DEF n, m, d

\* A run of text reaches the awaited field of the target, and nothing else.
LEMMA CharactersStores ==
  ASSUME TypeOK, heap # <<>>, NEW t \in Values, characters(t)
  PROVE  /\ heap' \in Seq(Record) /\ Len(heap') = Len(heap) /\ feed' \in Record
         /\ \A k \in 1..(Len(heap) - 1) : heap'[k] = heap[k]
         /\ itemFound => feed' = feed
         /\ \A f \in Fields : Target'[f] = IF f = currentState THEN t ELSE Target[f]
         /\ currentState' = unknown
         /\ UNCHANGED <<itemFound, itemList, item>>
<1>1. /\ currentState' = unknown
      /\ UNCHANGED <<itemFound, itemList, item>>
      /\ item = Len(heap) /\ heap \in Seq(Record) /\ feed \in Record
      /\ Len(heap) \in Nat
  BY LenProperties DEF characters, TypeOK
<1>2. CASE currentState = unknown
  <2>1. heap' = heap /\ feed' = feed
    BY <1>2 DEF characters
  <2>. QED
    BY <1>1, <1>2, <2>1, Names DEF Target
<1>3. CASE currentState # unknown /\ itemFound
  <2>1. /\ heap' = Store(heap, currentState, t) /\ feed' = feed
        /\ currentState \in Fields
    BY <1>1, <1>3 DEF characters, Store, TypeOK
  <2>2. /\ heap' \in Seq(Record) /\ Len(heap') = Len(heap)
        /\ heap'[Len(heap)][currentState] = t
        /\ \A g \in Fields : g # currentState => heap'[Len(heap)][g] = heap[Len(heap)][g]
        /\ \A k \in 1..Len(heap) : k # Len(heap) => heap'[k] = heap[k]
    BY <1>1, <2>1, HeapStore
  <2>3. \A f \in Fields : Target'[f] = IF f = currentState THEN t ELSE Target[f]
    BY <1>1, <1>3, <2>2 DEF Target
  <2>. QED
    BY <1>1, <2>1, <2>2, <2>3
<1>4. CASE currentState # unknown /\ ~itemFound
  <2>1. /\ heap' = heap /\ feed' = [feed EXCEPT ![currentState] = t]
        /\ currentState \in Fields
    BY <1>1, <1>4 DEF characters, TypeOK
  <2>2. \A f \in Fields : Target'[f] = IF f = currentState THEN t ELSE Target[f]
    BY <1>1, <1>4, <2>1 DEF Target, Record
  <2>. QED
    BY <1>1, <1>4, <2>1, <2>2 DEF Record
<1>. QED
  BY <1>2, <1>3, <1>4

-----------------------------------------------------------------------------
\* The handler as constructed, before startDocument.
LEMMA InitIInv == Init => IInv
<1>. SUFFICES ASSUME Init PROVE IInv
  OBVIOUS
<1>1. /\ written \in Document /\ heap \in Seq(Record)
      /\ itemList \in Seq(1..Len(heap)) /\ feed \in Record
  BY FreshRecords DEF Init, Document
<1>2. item = Len(heap)
  BY DEF Init
<1>3. TypeOK
  <2>1. /\ currentState = unknown /\ phase = "created"
        /\ scope = "prolog" /\ leaf = NoField /\ depth = 0
    BY DEF Init
  <2>2. itemFound \in BOOLEAN /\ spaced \in BOOLEAN
    BY DEF Init
  <2>. QED
    BY <1>1, <1>2, <2>1, <2>2 DEF TypeOK
<1>4. Fresh /\ ~Active
  BY DEF Init, Fresh, Active
<1>. QED
  BY <1>3, <1>4 DEF IInv

\* Every callback of the handler, at every event of the parser, keeps it.
LEMMA StepIInv == IInv /\ [Next]_vars => IInv'
<1>. SUFFICES ASSUME IInv, [Next]_vars PROVE IInv'
  OBVIOUS
<1>. USE Names DEF IInv
<1>w. /\ written \in Seq(Written) /\ Len(written) \in Nat \ {0}
      /\ \A k \in 1..Len(written) : written[k] \in Written
      /\ \A k \in 1..Len(written), f \in Fields :
           written[k][f] \in Content /\ Len(written[k][f]) \in Nat
  <2>1. written \in Seq(Written) /\ Len(written) \in Nat \ {0}
    BY EmptySeq, LenProperties DEF TypeOK, Document
  <2>2. \A k \in 1..Len(written) : written[k] \in Written
    BY <2>1, ElementOfSeq
  <2>3. \A k \in 1..Len(written), f \in Fields : written[k][f] \in Content
    BY <2>2 DEF Written
  <2>. QED
    BY <2>1, <2>2, <2>3 DEF Content
<1>h. /\ Len(heap) \in Nat
      /\ \A k \in 1..Len(heap) : heap[k] \in Record
      /\ Len(heap) > 0 => heap # <<>>
  BY EmptySeq, LenProperties, ElementOfSeq DEF TypeOK
<1>1. CASE StartDocument
  <2>1. /\ phase' = "reading" /\ feed' = NewItem /\ itemList' = <<>>
        /\ heap' = <<NewItem>> /\ item' = 1 /\ written' = <<NoContent>>
        /\ currentState' = unknown /\ ~itemFound'
        /\ scope' = "prolog" /\ leaf' = NoField /\ depth' = 0 /\ spaced'
    BY <1>1 DEF StartDocument, startDocument, Fresh
  <2>2. heap' \in Seq(Record) /\ Len(heap') = 1 /\ Len(written') = 1
    BY <2>1, FreshRecords
  <2>3. TypeOK' /\ Fresh'
    BY <1>1, FreshRecords, <2>1, <2>2 DEF StartDocument, startDocument, TypeOK, Fresh
  <2>4. InStep' /\ Awaiting'
    BY <2>1, <2>2 DEF InStep, Awaiting
  <2>5. SoFar'
    <3>1. Target' = NewItem /\ Closed' = 0 /\ Len(itemList') = 0
      BY <2>1, <2>2 DEF Target, Closed, Last
    <3>2. \A f \in Fields : written'[Len(written')][f] = <<>>
      BY <2>1, <2>2, FreshRecords
    <3>3. \A f \in Fields : Target'[f] = NoText
      BY <3>1, FreshRecords
    <3>4. \A f \in Fields : Target'[f] = Reading(written'[Len(written')][f])
      BY <3>2, <3>3, Readings
    <3>. QED
      BY <2>1, <2>2, <3>1, <3>4 DEF SoFar
  <2>. QED
    BY <2>3, <2>4, <2>5
<1>2. CASE OpenChannel
  <2>1. Active /\ currentState' = unknown /\ currentState = unknown
    BY <1>2 DEF OpenChannel, startElement, Active, InStep, Awaiting
  <2>. QED
    BY <1>2, <2>1 DEF OpenChannel, startElement, TypeOK, Fresh, Active, InStep,
                      Awaiting, SoFar, Target, Closed, Last
<1>3. CASE OpenItem
  <2>1. Active /\ currentState' = unknown /\ currentState = unknown
    BY <1>3 DEF OpenItem, startElement, Active, InStep
  <2>2. /\ heap' \in Seq(Record) /\ Len(heap') = Len(heap) + 1
        /\ \A k \in 1..Len(heap) : heap'[k] = heap[k]
        /\ heap'[Len(heap) + 1] = NewItem
    BY <1>3, FreshRecords, AppendProperties DEF OpenItem, startElement, TypeOK
  <2>3. /\ written' \in Document /\ Len(written') = Len(written) + 1
        /\ \A k \in 1..Len(written) : written'[k] = written[k]
        /\ written'[Len(written) + 1] = NoContent
    BY <1>3, <1>w, FreshRecords, AppendProperties DEF OpenItem, Document
  <2>4. itemFound' /\ feed' = feed /\ itemList' = itemList
    BY <1>3 DEF OpenItem, startElement
  <2>5. TypeOK' /\ Fresh'
    BY <1>3, <1>h, <2>1, <2>2, <2>3 DEF OpenItem, startElement, TypeOK, Fresh, Active
  <2>6. InStep' /\ Awaiting'
    BY <1>3, <1>w, <2>1, <2>2, <2>3, <2>4
    DEF OpenItem, TypeOK, Active, InStep, Awaiting
  <2>7. Target = ReadingOf(written[Len(written)])
    <3>1. Target \in Record
      BY <1>w, <1>h, <2>1 DEF TypeOK, Target, InStep, Active
    <3>. QED
      BY <2>1, <3>1 DEF SoFar, Record, ReadingOf
  <2>8. Target' = NewItem
    BY <2>2, <2>4 DEF Target
  <2>9. SoFar'
    <3>1. \A f \in Fields : Target'[f] = Reading(written'[Len(written')][f])
      BY <2>3, <2>8, <1>w, FreshRecords, Readings
    <3>2. \A k \in 2..(Len(written') - 1) : heap'[k] = ReadingOf(written'[k])
      <4>1. SUFFICES ASSUME NEW k \in 2..Len(written)
                     PROVE  heap[k] = ReadingOf(written[k])
        BY <1>w, <2>1, <2>2, <2>3 DEF InStep
      <4>2. CASE k < Len(written)
        BY <1>w, <2>1, <4>2 DEF SoFar
      <4>3. CASE k = Len(written)
        BY <1>w, <2>1, <2>7, <4>3 DEF InStep, Target
      <4>. QED
        BY <1>w, <4>2, <4>3
    <3>3. feed' = ReadingOf(written'[1])
      BY <1>w, <2>1, <2>3, <2>4, <2>7 DEF SoFar, Target, Active, InStep
    <3>4. Len(itemList') = Closed' /\ \A k \in 1..Closed' : itemList'[k] = k + 1
      BY <1>3, <1>w, <2>1, <2>3, <2>4 DEF OpenItem, SoFar, Closed, Last
    <3>. QED
      BY <2>1, <3>1, <3>2, <3>3, <3>4 DEF SoFar
  <2>. QED
    BY <2>5, <2>6, <2>9
<1>4. CASE CloseItem
  <2>1. Active /\ currentState' = unknown /\ currentState = unknown
    BY <1>4 DEF CloseItem, endElement, Active, InStep
  <2>2. itemFound /\ item = Len(written) /\ Closed' = Closed + 1
    BY <1>4, <1>w, <2>1 DEF CloseItem, endElement, InStep, TypeOK, Closed, Last
  <2>3. /\ itemList' \in Seq(1..Len(heap)) /\ Len(itemList') = Len(itemList) + 1
        /\ \A k \in 1..Len(itemList) : itemList'[k] = itemList[k]
        /\ itemList'[Len(itemList) + 1] = item
    <3>1. item \in 1..Len(heap) /\ itemList' = Append(itemList, item)
      BY <1>4, <1>w, <2>1, <2>2 DEF CloseItem, endElement, TypeOK, InStep
    <3>. QED
      BY <3>1, AppendProperties DEF TypeOK
  <2>4. TypeOK' /\ Fresh' /\ InStep' /\ Awaiting'
    BY <1>4, <1>w, <2>1, <2>2, <2>3
    DEF CloseItem, endElement, TypeOK, Fresh, Active, InStep, Awaiting
  <2>5. SoFar'
    <3>1. Target' = Target /\ written' = written /\ heap' = heap /\ feed' = feed
      BY <1>4 DEF CloseItem, endElement, Target
    <3>2. Len(itemList) = Closed /\ Closed = Len(written) - 2
      BY <1>4, <2>1 DEF CloseItem, SoFar, Closed, Last
    <3>3. \A k \in 1..Closed' : itemList'[k] = k + 1
      <4>1. \A k \in 1..Closed : itemList'[k] = k + 1
        BY <2>1, <2>3, <3>2 DEF SoFar
      <4>2. itemList'[Closed + 1] = Closed + 2 /\ Closed \in Int
        BY <1>w, <2>2, <2>3, <3>2
      <4>. QED
        BY <2>2, <4>1, <4>2
    <3>. QED
      BY <1>4, <2>1, <2>2, <2>3, <3>1, <3>2, <3>3 DEF CloseItem, endElement, SoFar
  <2>. QED
    BY <2>4, <2>5
<1>5. ASSUME NEW f \in Fields, OpenField(f) PROVE IInv'
  <2>1. /\ Active /\ currentState' = f /\ currentState = unknown
        /\ f # unknown /\ f # NoField /\ f # "item"
    BY <1>5 DEF OpenField, startElement, Active, InStep
  <2>2. /\ feed' = feed /\ heap' = heap /\ itemFound' = itemFound
        /\ itemList' = itemList /\ item' = item
        /\ phase' = phase /\ scope' = scope /\ depth' = depth /\ leaf' = f
        /\ phase = "reading" /\ scope \in {"channel", "item"} /\ leaf = NoField
        /\ spaced' = spaced /\ spaced /\ (scope = "channel" => Len(written) = 1)
    <3>1. startElement(f) /\ f # "item"
      BY <1>5, <2>1 DEF OpenField
    <3>2. /\ phase' = phase /\ scope' = scope /\ depth' = depth /\ leaf' = f
          /\ phase = "reading" /\ scope \in {"channel", "item"} /\ leaf = NoField
          /\ spaced' = spaced /\ spaced /\ (scope = "channel" => Len(written) = 1)
      BY <1>5 DEF OpenField, Last
    <3>3. /\ feed' = feed /\ heap' = heap /\ itemList' = itemList /\ item' = item
          /\ itemFound' = (itemFound \/ f = "item") /\ itemFound \in BOOLEAN
      BY <3>1 DEF startElement, TypeOK
    <3>. QED
      BY <3>1, <3>2, <3>3
  <2>3. <<Open>> \in Content /\ written[Len(written)][f] = <<>>
    BY <1>5 DEF OpenField, Content, Last
  <2>4. /\ written' \in Document /\ Len(written') = Len(written)
        /\ written'[Len(written)][f] = <<Open>>
        /\ \A g \in Fields : g # f =>
             written'[Len(written)][g] = written[Len(written)][g]
        /\ \A k \in 1..Len(written) : k # Len(written) => written'[k] = written[k]
    <3>1. /\ written \in Document
          /\ written' = Store(written, f, <<Open>>)
      BY <1>5 DEF OpenField, Last, TypeOK, Store
    <3>. QED
      BY <2>3, <3>1, WrittenStore
  <2>5. TypeOK' /\ Fresh'
    BY <1>5, <2>1, <2>2, <2>4 DEF OpenField, TypeOK, Fresh
  <2>6. InStep' /\ Awaiting'
    <3>1. InStep'
      BY <1>w, <2>1, <2>2, <2>4 DEF InStep
    <3>2. Len(written'[Len(written')][f]) = 1 /\ depth' # 1
      BY <2>1, <2>2, <2>4 DEF InStep
    <3>. QED
      BY <2>1, <2>2, <3>1, <3>2 DEF Awaiting
  <2>7. SoFar'
    <3>1. Target' = Target /\ Closed' = Closed
      BY <2>2, <2>4 DEF Target, Closed, Last
    <3>2. Target[f] = NoText
      BY <2>1, <2>3, Readings DEF SoFar
    <3>3. \A g \in Fields :
            Target'[g] = IF g = currentState' THEN NoText
                         ELSE Reading(written'[Len(written')][g])
      BY <2>1, <2>4, <3>1, <3>2 DEF SoFar
    <3>4. \A k \in 2..(Len(written') - 1) : heap'[k] = ReadingOf(written'[k])
      BY <1>w, <2>1, <2>2, <2>4 DEF SoFar
    <3>5. itemFound' => feed' = ReadingOf(written'[1])
      BY <1>w, <2>1, <2>2, <2>4 DEF SoFar, InStep
    <3>6. Len(itemList') = Closed' /\ \A k \in 1..Closed' : itemList'[k] = k + 1
      BY <2>1, <2>2, <3>1 DEF SoFar
    <3>. QED
      BY <3>3, <3>4, <3>5, <3>6 DEF SoFar
  <2>. QED
    BY <2>5, <2>6, <2>7
<1>6. CASE CloseField
  <2>1. /\ Active /\ leaf' = NoField /\ spaced' = FALSE /\ depth = 0
        /\ phase' = phase /\ phase = "reading" /\ scope' = scope /\ depth' = depth
        /\ written' = written
        /\ feed' = feed /\ heap' = heap /\ itemFound' = itemFound /\ item' = item
        /\ currentState' = currentState /\ leaf # NoField /\ leaf \in Fields
    BY <1>6 DEF CloseField, endElement, Active, TypeOK
  <2>2. itemList' = itemList
    BY <1>6, <2>1 DEF CloseField, endElement
  <2>3. TypeOK' /\ Fresh'
    BY <2>1, <2>2 DEF TypeOK, Fresh
  <2>4. InStep' /\ Awaiting'
    BY <2>1 DEF InStep, Awaiting
  <2>5. SoFar'
    BY <2>1, <2>2 DEF SoFar, Target, Closed, Last
  <2>. QED
    BY <2>3, <2>4, <2>5
<1>7. ASSUME NEW t \in Text \cup {Blank}, Chunk(t) PROVE IInv'
  <2>. DEFINE old == written[Len(written)][leaf]
              new == Append(old, t)
  <2>1. /\ Active /\ phase = "reading" /\ leaf \in Fields /\ leaf # NoField
        /\ depth = 0 /\ phase' = phase /\ scope' = scope /\ leaf' = leaf
        /\ depth' = depth /\ spaced' = spaced
    BY <1>7 DEF Chunk, Active, TypeOK
  <2>6. t \in Values /\ t # Markup
    BY TextAssumption DEF Values
  <2>2. /\ characters(t) /\ written \in Document
        /\ written' = Store(written, leaf, new)
    BY <1>7 DEF Chunk, Piece, Last, TypeOK, Store
  <2>3. /\ old \in Content /\ Len(old) > 0 /\ Len(old) \in Nat
        /\ old = written[Len(written)][leaf]
        /\ currentState # unknown => currentState = leaf /\ Len(old) = 1
        /\ Len(old) = 1 => currentState = leaf
    BY <1>w, <2>1 DEF Awaiting
  <2>4. /\ new \in Content /\ Len(new) > 0 /\ Len(new) # 1
        /\ Len(old) = 1 => Reading(new) = t
        /\ Len(old) # 1 => Reading(new) = Reading(old)
    BY <2>3, <2>6, AppendPiece
  <2>. HIDE DEF old, new
  <2>5. /\ written' \in Document /\ Len(written') = Len(written)
        /\ written'[Len(written)][leaf] = new
        /\ \A g \in Fields : g # leaf =>
             written'[Len(written)][g] = written[Len(written)][g]
        /\ \A k \in 1..Len(written) : k # Len(written) => written'[k] = written[k]
    BY <2>1, <2>2, <2>4, WrittenStore
  <2>7. heap # <<>> /\ Len(heap) = Len(written)
    BY <1>w, <1>h, <2>1 DEF InStep
  <2>8. /\ heap' \in Seq(Record) /\ Len(heap') = Len(heap) /\ feed' \in Record
        /\ \A k \in 1..(Len(heap) - 1) : heap'[k] = heap[k]
        /\ itemFound => feed' = feed
        /\ \A f \in Fields : Target'[f] = IF f = currentState THEN t ELSE Target[f]
        /\ currentState' = unknown
        /\ UNCHANGED <<itemFound, itemList, item>>
    BY <2>2, <2>6, <2>7, CharactersStores
  <2>10. TypeOK' /\ Fresh'
    BY <2>1, <2>5, <2>7, <2>8 DEF TypeOK, Fresh
  <2>11. InStep' /\ Awaiting'
    <3>1. InStep'
      BY <2>1, <2>5, <2>8 DEF InStep
    <3>2. /\ Len(written'[Len(written')][leaf']) > 0
          /\ Len(written'[Len(written')][leaf']) # 1
      BY <2>1, <2>4, <2>5
    <3>. QED
      <4>1. currentState' = unknown
        BY <2>8
      <4>2. /\ leaf' # NoField => Len(written'[Len(written')][leaf']) > 0
            /\ leaf' # NoField /\ Len(written'[Len(written')][leaf']) = 1
                 => currentState' = leaf'
        BY <3>2
      <4>3. /\ currentState' # unknown =>
                 /\ Len(written'[Len(written')][currentState']) = 1
                 /\ leaf' \in {NoField, currentState'}
            /\ depth' = 1 => currentState' = unknown
        BY <4>1
      <4>. QED
        BY <3>1, <4>2, <4>3 DEF Awaiting
  <2>12. SoFar'
    <3>1. Closed' = Closed
      BY <2>1, <2>5 DEF Closed, Last
    <3>2. ASSUME NEW f \in Fields
          PROVE  Target'[f] = Reading(written'[Len(written')][f])
      <4>1. CASE f # leaf
        <5>1. f # currentState
          BY <2>1, <2>3, <4>1
        <5>. QED
          BY <2>1, <2>5, <2>8, <4>1, <5>1 DEF SoFar
      <4>2. CASE f = leaf /\ Len(old) = 1
        <5>1. f = currentState
          BY <2>3, <4>2
        <5>. QED
          BY <2>4, <2>5, <2>8, <4>2, <5>1
      <4>3. CASE f = leaf /\ Len(old) # 1
        <5>1. currentState # leaf
          BY <2>1, <2>3, <4>3
        <5>. QED
          BY <2>1, <2>3, <2>4, <2>5, <2>8, <4>3, <5>1 DEF SoFar
      <4>. QED
        BY <4>1, <4>2, <4>3
    <3>3. \A k \in 2..(Len(written') - 1) : heap'[k] = ReadingOf(written'[k])
      BY <1>w, <2>1, <2>5, <2>7, <2>8 DEF SoFar
    <3>4. itemFound' => feed' = ReadingOf(written'[1])
      BY <1>w, <2>1, <2>5, <2>8 DEF SoFar, InStep
    <3>5. Len(itemList') = Closed' /\ \A k \in 1..Closed' : itemList'[k] = k + 1
      BY <2>1, <2>8, <3>1 DEF SoFar
    <3>. QED
      BY <2>8, <3>2, <3>3, <3>4, <3>5 DEF SoFar
  <2>. QED
    BY <2>10, <2>11, <2>12
<1>8. CASE OpenMarkup
  <2>. DEFINE old == written[Len(written)][leaf]
              new == Append(old, Markup)
  <2>1. /\ Active /\ phase = "reading" /\ leaf \in Fields /\ leaf # NoField
        /\ depth' = 1 /\ phase' = phase /\ scope' = scope /\ leaf' = leaf
        /\ spaced' = spaced
    BY <1>8 DEF OpenMarkup, Active, TypeOK
  <2>2. /\ startElement("markup") /\ written \in Document
        /\ written' = Store(written, leaf, new)
    BY <1>8 DEF OpenMarkup, Piece, Last, TypeOK, Store
  <2>3. /\ old \in Content /\ Len(old) > 0 /\ Len(old) \in Nat
        /\ old = written[Len(written)][leaf]
        /\ currentState # unknown => currentState = leaf /\ Len(old) = 1
        /\ Len(old) = 1 => currentState = leaf
    BY <1>w, <2>1 DEF Awaiting
  <2>4. /\ new \in Content /\ Len(new) > 0 /\ Len(new) # 1
        /\ Len(old) = 1 => Reading(new) = NoText
        /\ Len(old) # 1 => Reading(new) = Reading(old)
    BY <2>3, AppendPiece
  <2>. HIDE DEF old, new
  <2>5. /\ written' \in Document /\ Len(written') = Len(written)
        /\ written'[Len(written)][leaf] = new
        /\ \A g \in Fields : g # leaf =>
             written'[Len(written)][g] = written[Len(written)][g]
        /\ \A k \in 1..Len(written) : k # Len(written) => written'[k] = written[k]
    BY <2>1, <2>2, <2>4, WrittenStore
  <2>6. /\ currentState' = unknown /\ (itemFound' <=> itemFound) /\ heap' = heap
        /\ item' = item /\ UNCHANGED <<feed, itemList>>
    BY <2>2 DEF startElement
  <2>8. TypeOK' /\ Fresh'
    <3>1. itemFound' \in BOOLEAN
      BY <2>2 DEF startElement, TypeOK
    <3>. QED
      BY <2>1, <2>5, <2>6, <3>1 DEF TypeOK, Fresh
  <2>9. InStep' /\ Awaiting'
    <3>1. InStep'
      BY <2>1, <2>5, <2>6 DEF InStep
    <3>2. /\ Len(written'[Len(written')][leaf']) > 0
          /\ Len(written'[Len(written')][leaf']) # 1
      BY <2>1, <2>4, <2>5
    <3>. QED
      <4>1. currentState' = unknown
        BY <2>6
      <4>2. /\ leaf' # NoField => Len(written'[Len(written')][leaf']) > 0
            /\ leaf' # NoField /\ Len(written'[Len(written')][leaf']) = 1
                 => currentState' = leaf'
        BY <3>2
      <4>3. /\ currentState' # unknown =>
                 /\ Len(written'[Len(written')][currentState']) = 1
                 /\ leaf' \in {NoField, currentState'}
            /\ depth' = 1 => currentState' = unknown
        BY <4>1
      <4>. QED
        BY <3>1, <4>2, <4>3 DEF Awaiting
  <2>10. SoFar'
    <3>1. Closed' = Closed /\ Target' = Target
      BY <2>1, <2>5, <2>6 DEF Closed, Last, Target
    <3>2. ASSUME NEW f \in Fields
          PROVE  Target[f] = Reading(written'[Len(written)][f])
      <4>1. CASE f # leaf
        <5>1. f # currentState
          BY <2>1, <2>3, <4>1
        <5>. QED
          BY <2>1, <2>5, <4>1, <5>1 DEF SoFar
      <4>2. CASE f = leaf /\ Len(old) = 1
        <5>1. f = currentState
          BY <2>3, <4>2
        <5>. QED
          BY <2>1, <2>4, <2>5, <4>2, <5>1 DEF SoFar
      <4>3. CASE f = leaf /\ Len(old) # 1
        <5>1. currentState # leaf
          BY <2>1, <2>3, <4>3
        <5>. QED
          BY <2>1, <2>3, <2>4, <2>5, <4>3, <5>1 DEF SoFar
      <4>. QED
        BY <4>1, <4>2, <4>3
    <3>3. \A k \in 2..(Len(written') - 1) : heap'[k] = ReadingOf(written'[k])
      BY <1>w, <2>1, <2>5, <2>6 DEF SoFar
    <3>4. itemFound' => feed' = ReadingOf(written'[1])
      BY <1>w, <2>1, <2>5, <2>6 DEF SoFar, InStep
    <3>5. Len(itemList') = Closed' /\ \A k \in 1..Closed' : itemList'[k] = k + 1
      BY <2>1, <2>6, <3>1 DEF SoFar
    <3>. QED
      BY <2>5, <2>6, <3>1, <3>2, <3>3, <3>4, <3>5 DEF SoFar
  <2>. QED
    BY <2>8, <2>9, <2>10
<1>9. ASSUME NEW t \in Text, NestedText(t) PROVE IInv'
  <2>1. Active /\ currentState = unknown /\ characters(t) /\ UNCHANGED parser
    BY <1>9 DEF NestedText, Active, Awaiting
  <2>2. UNCHANGED vars
    BY <2>1 DEF characters, parser, vars
  <2>. QED
    BY <2>2 DEF vars, TypeOK, Fresh, Active, InStep, Awaiting, SoFar, Target, Closed, Last
<1>10. CASE CloseMarkup
  <2>1. /\ Active /\ depth' = 0 /\ leaf # NoField
        /\ UNCHANGED <<phase, scope, leaf, spaced, written>>
        /\ UNCHANGED <<currentState, itemFound, feed, heap, item, itemList>>
    BY <1>10 DEF CloseMarkup, endElement, Active, InStep
  <2>. QED
    BY <2>1 DEF TypeOK, Fresh, Active, InStep, Awaiting, SoFar, Target, Closed, Last
<1>11. CASE Space
  <2>1. /\ Active /\ phase = "reading" /\ leaf = NoField /\ depth = 0
        /\ phase' = phase /\ scope' = scope /\ leaf' = leaf
        /\ depth' = depth /\ spaced' /\ written' = written /\ spaced' \in BOOLEAN
        /\ characters(Blank)
    BY <1>11 DEF Space, Active, InStep
  <2>2. heap # <<>> /\ Len(heap) = Len(written) /\ Blank \in Values
    BY <1>w, <1>h, <2>1 DEF InStep, Values
  <2>3. /\ heap' \in Seq(Record) /\ Len(heap') = Len(heap) /\ feed' \in Record
        /\ \A k \in 1..(Len(heap) - 1) : heap'[k] = heap[k]
        /\ itemFound => feed' = feed
        /\ \A f \in Fields : Target'[f] = IF f = currentState THEN Blank ELSE Target[f]
        /\ currentState' = unknown
        /\ UNCHANGED <<itemFound, itemList, item>>
    BY <2>1, <2>2, CharactersStores
  <2>4. TypeOK' /\ Fresh'
    BY <2>1, <2>2, <2>3 DEF TypeOK, Fresh
  <2>5. InStep' /\ Awaiting'
    BY <2>1, <2>2, <2>3 DEF InStep, Awaiting
  <2>6. SoFar'
    <3>1. Closed' = Closed
      BY <2>1 DEF Closed, Last
    <3>2. \A f \in Fields : Target'[f] = Reading(written[Len(written)][f])
      BY <2>1, <2>3, Readings DEF SoFar, Awaiting
    <3>3. \A k \in 2..(Len(written) - 1) : heap'[k] = ReadingOf(written[k])
      BY <1>w, <2>1, <2>2, <2>3 DEF SoFar
    <3>. QED
      BY <2>1, <2>3, <3>1, <3>2, <3>3 DEF SoFar
  <2>. QED
    BY <2>4, <2>5, <2>6
<1>12. CASE EndDocument
  BY <1>12 DEF EndDocument, handler, TypeOK, Fresh, Active, InStep, Awaiting, SoFar,
               Target, Closed, Last
<1>13. CASE Fail
  BY <1>13 DEF Fail, handler, TypeOK, Fresh, Active
<1>14. CASE UNCHANGED vars
  BY <1>14 DEF vars, TypeOK, Fresh, Active, InStep, Awaiting, SoFar, Target, Closed, Last
<1>. QED
  BY <1>1, <1>2, <1>3, <1>4, <1>5, <1>6, <1>7, <1>8, <1>9, <1>10, <1>11, <1>12, <1>13,
     <1>14 DEF Next

\* Hence it holds while any document is read.
LEMMA Inductive == Spec => []IInv
BY InitIInv, StepIInv, PTL DEF Spec

-----------------------------------------------------------------------------
(* Every variable keeps its type: an item the handler writes to or adds to *)
(* the feed exists, and the current one is always the one created last.    *)
THEOREM TypeCorrect == Spec => []TypeOK
<1>1. IInv => TypeOK
  BY DEF IInv
<1>. QED
  BY <1>1, Inductive, PTL

(* While a document is read, the feed holds the items closed so far, in    *)
(* order, each with the readings of its own elements.                      *)
THEOREM ItemsAreFaithful == Spec => []ItemsFaithful
<1>1. IInv => ItemsFaithful
  <2>. SUFFICES ASSUME IInv, phase = "reading"
       PROVE  /\ Len(itemList) = Closed
              /\ \A k \in 1..Closed : /\ itemList[k] = k + 1
                                      /\ heap[itemList[k]] = ReadingOf(written[k + 1])
    BY DEF ItemsFaithful
  <2>1. InStep /\ Awaiting /\ SoFar /\ TypeOK
    BY DEF IInv, Active
  <2>2. Len(written) \in Nat \ {0}
    BY <2>1, EmptySeq, LenProperties DEF TypeOK, Document
  <2>3. Len(itemList) = Closed /\ \A k \in 1..Closed : itemList[k] = k + 1
    BY <2>1 DEF SoFar
  <2>4. ASSUME NEW k \in 1..Closed PROVE heap[k + 1] = ReadingOf(written[k + 1])
    <3>1. CASE k + 1 < Len(written)
      BY <2>1, <2>2, <3>1 DEF SoFar
    <3>2. CASE k + 1 = Len(written)
      <4>1. scope # "item" /\ itemFound
        BY <2>1, <2>2, <3>2 DEF Closed, Last, InStep
      <4>2. currentState = unknown /\ Target = heap[Len(written)]
        BY <2>1, <4>1, Zenon DEF InStep, Target, TypeOK
      <4>3. \A f \in Fields : Target[f] = Reading(written[Len(written)][f])
        BY <2>1, <4>2, Names DEF SoFar
      <4>4. Len(written) \in 1..Len(heap) /\ heap \in Seq(Record)
        BY <2>1, <2>2 DEF InStep, TypeOK
      <4>5. Target \in Record
        BY <4>2, <4>4, ElementOfSeq
      <4>. QED
        BY <3>2, <4>2, <4>3, <4>5 DEF Record, ReadingOf
    <3>. QED
      BY <2>2, <3>1, <3>2 DEF Closed, Last
  <2>. QED
    BY <2>3, <2>4
<1>. QED
  BY <1>1, Inductive, PTL

\* While one of the items in the feed is the last one created, no text is
\* awaited, so that the next run of text goes nowhere.
LEMMA DeliveredAreOld ==
  ASSUME IInv, phase = "reading", NEW k \in 1..Len(itemList)
  PROVE  /\ itemList[k] \in 1..Len(heap) /\ itemFound
         /\ itemList[k] = Len(heap) => currentState = unknown
<1>1. InStep /\ SoFar /\ TypeOK
  BY DEF IInv, Active
<1>2. Len(heap) = Len(written) /\ Len(written) \in Nat \ {0} /\ Len(itemList) = Closed
  BY <1>1, EmptySeq, LenProperties DEF TypeOK, Document, InStep, SoFar
<1>3. itemList[k] = k + 1 /\ k + 1 \in 1..Len(heap) /\ Len(written) > 1
  BY <1>1, <1>2 DEF SoFar, Closed, Last
<1>4. itemFound
  BY <1>1, <1>3 DEF InStep
<1>5. ASSUME k + 1 = Len(heap) PROVE currentState = unknown
  <2>1. scope # "item"
    BY <1>2, <1>5 DEF Closed, Last
  <2>2. scope # "prolog"
    BY <1>1, <1>3 DEF InStep
  <2>3. leaf = NoField /\ spaced
    BY <1>1, <1>4, <2>1, <2>2 DEF InStep, TypeOK
  <2>. QED
    BY <1>1, <2>3 DEF InStep
<1>. QED
  BY <1>3, <1>4, <1>5

(* Reading on never changes an item that is in the feed, although item     *)
(* still refers to the last of them.                                       *)
THEOREM DeliveredItemsStay == Spec => DeliveredItemsFixed
<1>1. ASSUME IInv, [Next]_vars, phase = "reading", NEW k \in 1..Len(itemList)
      PROVE  itemList'[k] = itemList[k] /\ heap'[itemList[k]] = heap[itemList[k]]
  <2>1. /\ itemList[k] \in 1..Len(heap) /\ itemFound
        /\ itemList[k] = Len(heap) => currentState = unknown
    BY <1>1, DeliveredAreOld
  <2>2. /\ heap \in Seq(Record) /\ Len(heap) \in Nat /\ heap # <<>>
        /\ item = Len(heap) /\ itemList \in Seq(1..Len(heap)) /\ k \in 1..Len(itemList)
    BY <1>1, <2>1, LenProperties, EmptySeq DEF IInv, TypeOK
  <2>3. ASSUME NEW tag, startElement(tag)
        PROVE  itemList'[k] = itemList[k] /\ heap'[itemList[k]] = heap[itemList[k]]
    BY <2>1, <2>2, <2>3, FreshRecords, AppendProperties DEF startElement
  <2>4. ASSUME NEW tag, endElement(tag)
        PROVE  itemList'[k] = itemList[k] /\ heap'[itemList[k]] = heap[itemList[k]]
    <3>1. CASE tag = "item"
      <4>1. itemList' = Append(itemList, item) /\ heap' = heap /\ item \in 1..Len(heap)
        BY <2>1, <2>2, <2>4, <3>1 DEF endElement
      <4>. QED
        BY <2>2, <4>1, AppendProperties
    <3>2. CASE tag # "item"
      BY <2>4, <3>2 DEF endElement
    <3>. QED
      BY <3>1, <3>2
  <2>5. ASSUME NEW t \in Values, characters(t)
        PROVE  itemList'[k] = itemList[k] /\ heap'[itemList[k]] = heap[itemList[k]]
    <3>1. CASE currentState = unknown
      BY <2>5, <3>1 DEF characters
    <3>2. CASE currentState # unknown
      <4>1. itemList[k] \in 1..(Len(heap) - 1)
        BY <2>1, <2>2, <3>2
      <4>2. TypeOK
        BY <1>1 DEF IInv
      <4>. QED
        BY <2>2, <2>5, <4>1, <4>2, CharactersStores
    <3>. QED
      BY <3>1, <3>2
  <2>6. \A t \in Text \cup {Blank} : t \in Values
    BY DEF Values
  <2>7. CASE UNCHANGED vars
    BY <2>7 DEF vars
  <2>8. CASE Next
    <3>1. CASE EndDocument \/ Fail
      BY <3>1 DEF EndDocument, Fail, handler
    <3>2. CASE OpenChannel \/ OpenItem \/ OpenMarkup \/ \E f \in Fields : OpenField(f)
      BY <2>3, <3>2 DEF OpenChannel, OpenItem, OpenMarkup, OpenField
    <3>3. CASE CloseItem \/ CloseField \/ CloseMarkup
      BY <2>4, <3>3 DEF CloseItem, CloseField, CloseMarkup
    <3>4. CASE \/ \E t \in Text \cup {Blank} : Chunk(t)
               \/ \E t \in Text : NestedText(t)
               \/ Space
      BY <2>5, <2>6, <3>4 DEF Chunk, NestedText, Space
    <3>5. ~StartDocument
      BY <1>1 DEF StartDocument
    <3>. QED
      BY <2>8, <3>1, <3>2, <3>3, <3>4, <3>5 DEF Next
  <2>. QED
    BY <1>1, <2>7, <2>8
<1>2. IInv /\ [Next]_vars =>
        [phase = "reading" =>
           \A k \in 1..Len(itemList) :
             /\ itemList'[k] = itemList[k]
             /\ heap'[itemList[k]] = heap[itemList[k]]]_vars
  BY <1>1
<1>. QED
  BY <1>2, Inductive, PTL DEF Spec, DeliveredItemsFixed

(* Once an item tag was seen the header of the feed is final.              *)
THEOREM HeaderStays == Spec => HeaderFrozen
<1>1. ASSUME IInv, [Next]_vars, Len(written) > 1 PROVE feed' = feed
  <2>1. phase # "created"
    <3>1. phase = "created" => written = <<NoContent>>
      BY <1>1 DEF IInv, Fresh
    <3>2. Len(<<NoContent>>) = 1 /\ ~(1 > 1)
      OBVIOUS
    <3>. QED
      BY <1>1, <3>1, <3>2
  <2>2. phase = "reading" => itemFound
    BY <1>1 DEF IInv, Active, InStep
  <2>3. CASE UNCHANGED vars
    BY <2>3 DEF vars
  <2>4. CASE Next
    <3>1. ~StartDocument
      BY <2>1 DEF StartDocument
    <3>2. CASE EndDocument \/ Fail
      BY <3>2 DEF EndDocument, Fail, handler
    <3>3. CASE OpenChannel \/ OpenItem \/ OpenMarkup \/ \E f \in Fields : OpenField(f)
      BY <3>3 DEF OpenChannel, OpenItem, OpenMarkup, OpenField, startElement
    <3>4. CASE CloseItem \/ CloseField \/ CloseMarkup
      BY <3>4 DEF CloseItem, CloseField, CloseMarkup, endElement
    <3>5. CASE \/ \E t \in Text \cup {Blank} : Chunk(t)
               \/ \E t \in Text : NestedText(t)
               \/ Space
      BY <2>2, <3>5 DEF Chunk, NestedText, Space, characters
    <3>. QED
      BY <2>4, <3>1, <3>2, <3>3, <3>4, <3>5 DEF Next
  <2>. QED
    BY <1>1, <2>3, <2>4
<1>2. IInv /\ [Next]_vars => [Len(written) > 1 => feed' = feed]_vars
  BY <1>1
<1>. QED
  BY <1>2, Inductive, PTL DEF Spec, HeaderFrozen

-----------------------------------------------------------------------------
(* At the end of the document the feed is what the contract says.          *)
LEMMA FeedIsReading ==
  ASSUME IInv, phase = "reading", scope = "channel", leaf = NoField, spaced
  PROVE  feedRead = FeedOf(written)
<1>1. InStep /\ SoFar /\ TypeOK
  BY DEF IInv, Active
<1>2. /\ Len(written) \in Nat \ {0} /\ currentState = unknown
      /\ Len(itemList) = Len(written) - 1
  BY <1>1, EmptySeq, LenProperties DEF TypeOK, Document, InStep, SoFar, Closed, Last
<1>3. feed = ReadingOf(written[1])
  <2>1. CASE itemFound
    BY <1>1, <2>1 DEF SoFar
  <2>2. CASE ~itemFound
    <3>1. Len(written) = 1
      BY <1>1, <1>2, <2>2 DEF InStep
    <3>2. \A f \in Fields : feed[f] = Reading(written[1][f])
      BY <1>1, <1>2, <2>2, <3>1, Names DEF SoFar, Target
    <3>. QED
      BY <1>1, <3>2 DEF TypeOK, Record, ReadingOf
  <2>. QED
    BY <2>1, <2>2
<1>4. ASSUME NEW k \in 1..(Len(written) - 1)
      PROVE  heap[itemList[k]] = ReadingOf(written[k + 1])
  <2>1. itemList[k] = k + 1
    BY <1>1, <1>2 DEF SoFar, Closed, Last
  <2>2. CASE k + 1 < Len(written)
    BY <1>1, <1>2, <2>1, <2>2 DEF SoFar
  <2>3. CASE k + 1 = Len(written)
    <3>1. itemFound /\ Target = heap[Len(written)]
      BY <1>1, <1>2, <2>3 DEF InStep, Target
    <3>2. \A f \in Fields : Target[f] = Reading(written[Len(written)][f])
      BY <1>1, <1>2, Names DEF SoFar
    <3>3. Len(written) \in 1..Len(heap) /\ heap \in Seq(Record)
      BY <1>1, <1>2 DEF InStep, TypeOK
    <3>4. Target \in Record
      BY <3>1, <3>3, ElementOfSeq
    <3>. QED
      BY <2>1, <2>3, <3>1, <3>2, <3>4 DEF Record, ReadingOf
  <2>. QED
    BY <1>2, <2>2, <2>3
<1>5. [k \in 1..Len(itemList) |-> heap[itemList[k]]]
        = [k \in 1..(Len(written) - 1) |-> ReadingOf(written[k + 1])]
  BY <1>2, <1>4
<1>. QED
  BY <1>3, <1>5 DEF feedRead, FeedOf

(* The handler, event by event, is the one step of FeedContract: a caller  *)
(* gets nothing, or the readings of the document, whatever its length.     *)
THEOREM HandlerMeetsContract == Spec => ImplementsContract
<1>1. Init => Contract!Init
  BY DEF Init, Contract!Init
<1>2. ASSUME IInv, [Next]_vars PROVE [Contract!Next]_(Contract!vars)
  <2>1. CASE EndDocument
    <3>1. /\ phase = "reading" /\ phase' = "done" /\ written' = written
          /\ UNCHANGED handler
          /\ feedRead = FeedOf(written) /\ written \in Document
      BY <1>2, <2>1, FeedIsReading DEF EndDocument, IInv, TypeOK
    <3>2. feedRead' = feedRead
      BY <3>1 DEF feedRead, handler
    <3>. QED
      BY <3>1, <3>2 DEF Contract!Next, Contract!Read, FeedOf, Contract!FeedOf, Document,
        Contract!Document, Written, Contract!Written, Content, Contract!Content,
        ReadingOf, Contract!ReadingOf, Reading, Contract!Reading, Fields, Contract!Fields
  <2>2. CASE UNCHANGED vars
    BY <2>2 DEF vars, Contract!vars, feedRead
  <2>3. CASE Next /\ ~EndDocument
    <3>1. phase # "done" /\ phase' # "done"
      BY <2>3 DEF Next, StartDocument, OpenChannel, OpenItem, CloseItem, OpenField,
        CloseField, Chunk, OpenMarkup, NestedText, CloseMarkup, Space, Fail, parser
    <3>. QED
      BY <3>1 DEF Contract!vars
  <2>. QED
    BY <1>2, <2>1, <2>2, <2>3
<1>. QED
  BY <1>1, <1>2, Inductive, PTL DEF Spec, ImplementsContract, Contract!Spec
=============================================================================

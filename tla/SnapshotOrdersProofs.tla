------------------------ MODULE SnapshotOrdersProofs ------------------------
(* The absence of data races and the causality of the reads, on the memory    *)
(* orders the code names, for every number of readers, frames and calls.      *)
EXTENDS SnapshotOrders, FiniteSetTheorems, TLAPS

Holding == {"recheck", "leave", "copy"}
Holders(s) == {r \in Readers : rpc[r] \in Holding /\ slot[r] = s}

\* The frame thread owns the slot.
Held(s) == wpc \in {"fill", "open"} /\ SlotOf(frame) = s

CountOK(s) ==
    IF Held(s) THEN users[s].count = -1 /\ Holders(s) = {}
    ELSE users[s].count = Cardinality(Holders(s))

\* A view that knows every finished copy of slot s, and one that knows no frame
\* before its announcement.
Past(s, v) ==
    \A r \in Readers : \A k \in DOMAIN answers[r] :
        answers[r][k] >= 0 /\ SlotOf(answers[r][k]) = s => k <= v.copies[r]

Sane(v) == v.active <= Swung /\ (v.active > 0 => v.published > 0)

\* What a slot's users release: its frame is stored, the frame before it published.
SlotOK(s) ==
    /\ Sane(users[s].view)
    /\ IF Held(s) THEN Past(s, wview)
       ELSE /\ Past(s, users[s].view)
            /\ Content(s) <= users[s].view.fill
            /\ Content(s) <= users[s].view.active + 1

WriterOK ==
    /\ wpc # "idle" => frame >= 1
    /\ wpc = "open" => wview.fill = frame
    /\ wview.active = Swung
    /\ wpc # "announce" => (wview.active > 0 => wview.published > 0)

MsgOK ==
    \A n \in Frames :
        /\ n <= Swung => activeMsg[n].active = n
        /\ n <= Announced => publishedMsg[n].active = n /\ publishedMsg[n].published = n

ReaderOK(r) ==
    /\ Sane(rview[r])
    /\ rpc[r] # "idle" =>
          /\ rview[r].published > 0 /\ rview[r].active > 0
          /\ Len(answers[r]) < MaxCalls /\ frame >= 1
    /\ rpc[r] \in Holding =>
          Content(slot[r]) <= rview[r].fill /\ Content(slot[r]) <= rview[r].active + 1
    /\ rpc[r] = "copy" => rview[r].active = Content(slot[r])

IInv ==
    /\ TypeOK /\ WriterOK /\ MsgOK
    /\ \A s \in Slots : CountOK(s) /\ SlotOK(s)
    /\ \A r \in Readers : ReaderOK(r)

-----------------------------------------------------------------------------
(* Slots and views.                                                           *)

LEMMA Parity ==
    ASSUME NEW n \in Nat
    PROVE  SlotOf(n) \in Slots /\ SlotOf(n + 1) # SlotOf(n)
BY DEF SlotOf, Slots

\* Two frames of the same slot are two apart.
LEMMA SameSlot ==
    ASSUME NEW m \in Nat, NEW n \in Nat, SlotOf(m) = SlotOf(n), n <= m + 1, m <= n + 1
    PROVE  m = n
BY Parity

LEMMA ContentOfSlot ==
    ASSUME TypeOK, NEW s \in Slots
    PROVE  /\ Content(s) \in Frames
           /\ frame >= 1 => SlotOf(Content(s)) = s /\ Content(s) \in {frame, frame - 1}
           /\ Held(s) => Content(s) = frame
<1>1. frame \in Nat /\ frame <= MaxFrames
  BY OrdersAssumption DEF TypeOK, Frames
<1>2. Later(frame - 1, 0) = IF frame = 0 THEN 0 ELSE frame - 1
  BY <1>1 DEF Later
<1>3. ASSUME frame >= 1, SlotOf(frame) # s PROVE SlotOf(frame - 1) = s
  <2>1. frame - 1 \in Nat /\ (frame - 1) + 1 = frame
    BY <1>1, <1>3
  <2>2. SlotOf(frame - 1) \in Slots /\ SlotOf(frame) \in Slots
           /\ SlotOf(frame) # SlotOf(frame - 1)
    BY <1>1, <2>1, Parity
  <2> QED
    BY <1>3, <2>2 DEF Slots
<1>4. CASE SlotOf(frame) = s
  BY <1>1, <1>4, OrdersAssumption DEF Content, Frames, Held
<1>5. CASE SlotOf(frame) # s
  BY <1>1, <1>2, <1>3, <1>5, OrdersAssumption DEF Content, Frames, Held
<1> QED
  BY <1>4, <1>5

LEMMA FieldsOfViews ==
    ASSUME NEW v \in Views
    PROVE  /\ v.fill \in Nat /\ v.active \in Nat /\ v.published \in Nat
           /\ v.fill \in Frames /\ v.active \in Frames /\ v.published \in Frames
           /\ \A r \in Readers : v.copies[r] \in Nat /\ v.copies[r] <= MaxCalls
BY OrdersAssumption DEF Views, Frames

LEMMA NothingIsView == Nothing \in Views
BY OrdersAssumption DEF Nothing, Views, Frames

LEMMA JoinIsView ==
    ASSUME NEW v \in Views, NEW w \in Views
    PROVE  /\ Join(v, w) \in Views
           /\ Join(v, w).fill = Later(v.fill, w.fill)
           /\ Join(v, w).active = Later(v.active, w.active)
           /\ Join(v, w).published = Later(v.published, w.published)
           /\ \A r \in Readers : Join(v, w).copies[r] = Later(v.copies[r], w.copies[r])
<1>1. \A m, n \in Frames : Later(m, n) \in Frames
  BY DEF Later
<1>2. \A m, n \in 0 .. MaxCalls : Later(m, n) \in 0 .. MaxCalls
  BY DEF Later
<1> QED
  BY <1>1, <1>2 DEF Views, Join

\* A join knows what either view knows, and nothing else.
LEMMA JoinKnowsBoth ==
    ASSUME NEW v \in Views, NEW w \in Views
    PROVE  /\ Join(v, w).fill >= v.fill /\ Join(v, w).fill >= w.fill
           /\ Join(v, w).active >= v.active /\ Join(v, w).active >= w.active
           /\ Join(v, w).active \in {v.active, w.active}
           /\ Join(v, w).published >= v.published /\ Join(v, w).published >= w.published
           /\ \A r \in Readers : Join(v, w).copies[r] >= v.copies[r]
                                   /\ Join(v, w).copies[r] >= w.copies[r]
<1>1. \A m, n \in Nat : Later(m, n) >= m /\ Later(m, n) >= n /\ Later(m, n) \in {m, n}
  BY DEF Later
<1> QED
  BY <1>1, JoinIsView, FieldsOfViews

LEMMA SwungIsFrame ==
    ASSUME TypeOK, WriterOK
    PROVE  /\ Swung \in Nat /\ Swung <= frame /\ Swung \in Frames
           /\ Announced \in Nat /\ Announced <= Swung /\ Announced \in Frames
           /\ frame \in Nat /\ frame <= MaxFrames
<1>1. frame \in Nat /\ frame <= MaxFrames
  BY OrdersAssumption DEF TypeOK, Frames
<1> QED
  BY <1>1, OrdersAssumption DEF TypeOK, WriterOK, Swung, Announced, Frames

LEMMA SaneJoin ==
    ASSUME TypeOK, WriterOK, NEW v \in Views, NEW w \in Views, Sane(v), Sane(w)
    PROVE  Sane(Join(v, w))
<1>1. Join(v, w) \in Views
  BY JoinIsView
<1> QED
  BY <1>1, SwungIsFrame, JoinKnowsBoth, FieldsOfViews DEF Sane

LEMMA PastJoin ==
    ASSUME NEW v \in Views, NEW w \in Views, NEW s, Past(s, v) \/ Past(s, w),
           \A r \in Readers : answers[r] \in Seq(Frames \cup {Unavailable})
    PROVE  Past(s, Join(v, w))
<1> SUFFICES ASSUME NEW r \in Readers, NEW k \in DOMAIN answers[r],
                    answers[r][k] >= 0, SlotOf(answers[r][k]) = s
             PROVE  k <= Join(v, w).copies[r]
  BY DEF Past
<1>1. k \in Nat
  BY DEF Frames
<1>2. k <= v.copies[r] \/ k <= w.copies[r]
  BY DEF Past
<1>3. Join(v, w) \in Views
  BY JoinIsView
<1> QED
  BY <1>1, <1>2, <1>3, JoinKnowsBoth, FieldsOfViews

LEMMA InitIInv == Init => IInv
<1> SUFFICES ASSUME Init PROVE IInv
  OBVIOUS
<1>1. /\ SlotOf(0) = 0 /\ 0 \in Frames /\ \A s \in Slots : Content(s) = 0
      /\ Swung = 0 /\ Announced = 0
  BY OrdersAssumption DEF Init, SlotOf, Frames, Content, Later, Slots, Swung, Announced
<1>2. TypeOK
  <2>1. <<>> \in Seq(Frames \cup {Unavailable}) /\ Len(<<>>) <= MaxCalls
    BY OrdersAssumption
  <2> QED
    BY <1>1, <2>1, NothingIsView DEF Init, TypeOK, Slots
<1>3. WriterOK
  BY <1>1 DEF Init, WriterOK, Nothing
<1>4. MsgOK
  BY <1>1, OrdersAssumption DEF Init, MsgOK, Nothing, Frames
<1>5. ASSUME NEW s \in Slots PROVE CountOK(s) /\ SlotOK(s)
  <2>1. Holders(s) = {} /\ ~Held(s)
    BY DEF Init, Holders, Holding, Held
  <2>2. users[s].count = 0 /\ users[s].view = Nothing
    BY DEF Init
  <2>3. Past(s, Nothing)
    BY DEF Init, Past
  <2> QED
    BY <1>1, <2>1, <2>2, <2>3, FS_EmptySet DEF CountOK, SlotOK, Sane, Nothing
<1>6. ASSUME NEW r \in Readers PROVE ReaderOK(r)
  BY <1>1 DEF Init, ReaderOK, Sane, Nothing, Holding
<1> QED
  BY <1>2, <1>3, <1>4, <1>5, <1>6 DEF IInv

-----------------------------------------------------------------------------
(* The readers.                                                               *)

LEMMA HoldersAreFinite ==
    ASSUME NEW s
    PROVE  IsFiniteSet(Holders(s)) /\ Cardinality(Holders(s)) \in Nat
BY FS_Subset, FS_CardinalityType, OrdersAssumption DEF Holders

\* A reader leaves alone what the frame thread owns.
LEMMA ReaderFrame ==
    ASSUME IInv, UNCHANGED writerVars
    PROVE  /\ WriterOK' /\ MsgOK'
           /\ Swung' = Swung /\ Announced' = Announced
           /\ \A s : Content(s)' = Content(s) /\ Held(s)' = Held(s)
           /\ \A v : Sane(v)' = Sane(v)
BY DEF writerVars, IInv, WriterOK, MsgOK, Swung, Announced, Content, Held, Sane

\* It keeps every other reader as it is.
LEMMA OtherReaders ==
    ASSUME IInv, UNCHANGED writerVars, NEW q \in Readers,
           rview'[q] = rview[q], rpc'[q] = rpc[q], slot'[q] = slot[q],
           answers'[q] = answers[q]
    PROVE  ReaderOK(q)'
<1>1. ReaderOK(q)
  BY DEF IInv
<1>2. \A s : Content(s)' = Content(s)
  BY ReaderFrame
<1>3. \A v : Sane(v)' = Sane(v)
  BY ReaderFrame
<1>4. Sane(rview[q])'
  <2>1. Swung' = Swung
    BY ReaderFrame
  <2> QED
    BY <1>1, <2>1 DEF ReaderOK, Sane
<1>5. frame' = frame
  BY DEF writerVars
<1>6. Content(slot[q])' = Content(slot[q])
  BY <1>5 DEF Content
<1> QED
  BY <1>1, <1>4, <1>5, <1>6 DEF ReaderOK

\* One that answers no frame and counts as before leaves the slots as they are.
LEMMA SlotsKept ==
    ASSUME IInv, UNCHANGED <<writerVars, users>>, NEW s \in Slots,
           Holders(s)' = Holders(s),
           \A r \in Readers : \/ answers'[r] = answers[r]
                              \/ answers'[r] = Append(answers[r], Unavailable)
    PROVE  CountOK(s)' /\ SlotOK(s)'
<1>1. CountOK(s) /\ SlotOK(s)
  BY DEF IInv
<1>2. /\ Held(s)' = Held(s) /\ Content(s)' = Content(s) /\ Swung' = Swung
      /\ wview' = wview
  BY ReaderFrame DEF writerVars
<1>3. ASSUME NEW v, Past(s, v) PROVE \A r \in Readers : \A k \in DOMAIN answers'[r] :
          answers'[r][k] >= 0 /\ SlotOf(answers'[r][k]) = s => k <= v.copies[r]
  <2> SUFFICES ASSUME NEW r \in Readers, NEW k \in DOMAIN answers'[r],
                      answers'[r][k] >= 0, SlotOf(answers'[r][k]) = s
               PROVE  k <= v.copies[r]
    OBVIOUS
  <2>1. answers[r] \in Seq(Frames \cup {Unavailable})
    BY DEF IInv, TypeOK
  <2>2. k \in DOMAIN answers[r] /\ answers'[r][k] = answers[r][k]
    BY <2>1 DEF Unavailable
  <2> QED
    BY <1>3, <2>2 DEF Past
<1>4. Past(s, wview) => Past(s, wview)'
  BY <1>2, <1>3 DEF Past
<1>5. Past(s, users[s].view) => Past(s, users[s].view)'
  BY <1>3 DEF Past
<1>6. Sane(users[s].view)'
  BY <1>1, <1>2 DEF SlotOK, Sane
<1> QED
  BY <1>1, <1>2, <1>4, <1>5, <1>6 DEF CountOK, SlotOK

\* So it is enough to look at the reader that moves.
LEMMA ReaderMoves ==
    ASSUME IInv, UNCHANGED <<writerVars, users>>, NEW r \in Readers,
           \A q \in Readers \ {r} :
               /\ rview'[q] = rview[q] /\ rpc'[q] = rpc[q]
               /\ slot'[q] = slot[q] /\ answers'[q] = answers[q],
           rpc'[r] \in Holding <=> rpc[r] \in Holding,
           rpc[r] \in Holding => slot'[r] = slot[r],
           answers'[r] = answers[r] \/ answers'[r] = Append(answers[r], Unavailable),
           TypeOK', ReaderOK(r)'
    PROVE  IInv'
<1>1. WriterOK' /\ MsgOK'
  BY ReaderFrame
<1>2. ASSUME NEW s \in Slots PROVE CountOK(s)' /\ SlotOK(s)'
  <2>1. Holders(s)' = Holders(s)
    <3>1. \A q \in Readers : q \in Holders(s)' <=> q \in Holders(s)
      BY DEF Holders
    <3>2. Holders(s) \subseteq Readers /\ Holders(s)' \subseteq Readers
      BY DEF Holders
    <3> QED
      BY <3>1, <3>2
  <2> QED
    BY <2>1, SlotsKept
<1>3. ASSUME NEW q \in Readers PROVE ReaderOK(q)'
  BY OtherReaders
<1> QED
  BY <1>1, <1>2, <1>3 DEF IInv

LEMMA MessagesAreSane ==
    ASSUME IInv, NEW n \in Nat
    PROVE  /\ n <= Announced => /\ n \in Frames /\ publishedMsg[n] \in Views
                                /\ Sane(publishedMsg[n])
                                /\ publishedMsg[n].active = n
                                /\ publishedMsg[n].published = n
           /\ n <= Swung => /\ n \in Frames /\ activeMsg[n] \in Views
                            /\ activeMsg[n].active = n
<1>1. n <= Swung => n \in Frames
  BY SwungIsFrame, OrdersAssumption DEF IInv, Frames
<1>2. n <= Announced => n <= Swung
  BY SwungIsFrame DEF IInv
<1> QED
  BY <1>1, <1>2 DEF IInv, TypeOK, MsgOK, Sane

LEMMA CheckPublishedKeeps ==
    ASSUME IInv, NEW r \in Readers, CheckPublished(r)
    PROVE  IInv'
<1>1. PICK n \in rview[r].published .. Announced :
          /\ rview' = [rview EXCEPT ![r] =
                          CheckOrder([@ EXCEPT !.published = n], publishedMsg[n])]
          /\ Goto(r, "idle", IF n = 0 THEN "idle" ELSE "load")
          /\ answers' = IF n = 0
                          THEN [answers EXCEPT ![r] = Append(@, Unavailable)]
                          ELSE answers
  BY DEF CheckPublished
<1> DEFINE v == [rview[r] EXCEPT !.published = n]
<1>2. /\ UNCHANGED <<writerVars, users, slot>> /\ Len(answers[r]) < MaxCalls
      /\ rview[r] \in Views /\ ReaderOK(r) /\ rpc[r] = "idle"
      /\ answers[r] \in Seq(Frames \cup {Unavailable})
  BY <1>1 DEF CheckPublished, Goto, IInv, TypeOK
<1>3. n \in Nat /\ n <= Announced /\ rview[r].published <= n
  BY <1>1, <1>2, FieldsOfViews, SwungIsFrame DEF IInv
<1>4. /\ publishedMsg[n] \in Views /\ Sane(publishedMsg[n]) /\ n \in Frames
      /\ publishedMsg[n].published = n /\ publishedMsg[n].active = n
  BY <1>3, MessagesAreSane
<1>5. v \in Views /\ v.active = rview[r].active /\ v.published = n
  BY <1>2, <1>4 DEF Views
<1>6. Sane(v)
  BY <1>2, <1>3, <1>5, FieldsOfViews DEF ReaderOK, Sane
<1> HIDE DEF v
<1>7. rview' = [rview EXCEPT ![r] = Join(v, publishedMsg[n])]
  BY <1>1 DEF CheckOrder, AcquireView, v
<1>8. /\ rview'[r] \in Views /\ Sane(rview'[r]) /\ rview'[r].published >= n
      /\ rview'[r].active >= n /\ rview' \in [Readers -> Views]
  <2>1. rview'[r] = Join(v, publishedMsg[n])
    BY <1>7 DEF IInv, TypeOK
  <2>2. Join(v, publishedMsg[n]) \in Views
    BY <1>4, <1>5, JoinIsView
  <2>3. Sane(Join(v, publishedMsg[n]))
    BY <1>4, <1>5, <1>6, SaneJoin DEF IInv
  <2>4. /\ Join(v, publishedMsg[n]).published >= v.published
        /\ Join(v, publishedMsg[n]).active >= publishedMsg[n].active
    BY <1>4, <1>5, JoinKnowsBoth
  <2> QED
    BY <1>4, <1>5, <1>7, <2>1, <2>2, <2>3, <2>4 DEF IInv, TypeOK
<1>9. /\ rpc'[r] = IF n = 0 THEN "idle" ELSE "load"
      /\ answers'[r] = IF n = 0 THEN Append(answers[r], Unavailable) ELSE answers[r]
      /\ \A q \in Readers \ {r} :
            /\ rview'[q] = rview[q] /\ rpc'[q] = rpc[q]
            /\ slot'[q] = slot[q] /\ answers'[q] = answers[q]
  BY <1>1, <1>2 DEF Goto, IInv, TypeOK
<1>10. TypeOK'
  <2>1. /\ Append(answers[r], Unavailable) \in Seq(Frames \cup {Unavailable})
        /\ Len(Append(answers[r], Unavailable)) <= MaxCalls
    BY <1>2, OrdersAssumption
  <2>2. rpc' \in [Readers -> {"idle", "load", "register", "recheck", "leave", "copy"}]
    BY <1>1 DEF Goto, IInv, TypeOK
  <2>3. /\ answers' \in [Readers -> Seq(Frames \cup {Unavailable})]
        /\ \A q \in Readers : Len(answers'[q]) <= MaxCalls
    BY <1>1, <1>2, <2>1 DEF IInv, TypeOK
  <2> QED
    BY <1>2, <1>8, <2>2, <2>3 DEF IInv, TypeOK, writerVars
<1>11. ReaderOK(r)'
  <2>1. Swung' = Swung /\ frame' = frame
    BY <1>2, ReaderFrame DEF writerVars
  <2>2. n # 0 => frame >= 1
    BY <1>3, SwungIsFrame DEF IInv
  <2>3. n # 0 => rview'[r].published > 0 /\ rview'[r].active > 0
    BY <1>3, <1>8, FieldsOfViews
  <2>4. Sane(rview[r])'
    BY <1>8, <2>1 DEF Sane
  <2>5. n # 0 => answers'[r] = answers[r]
    BY <1>9
  <2> QED
    BY <1>2, <1>9, <2>1, <2>2, <2>3, <2>4, <2>5 DEF ReaderOK, Holding
<1> QED
  BY <1>2, <1>9, <1>10, <1>11, ReaderMoves DEF Holding

\* What a reader knows after it has read the active index of frame n.
LEMMA ActiveRead ==
    ASSUME IInv, NEW r \in Readers, NEW n \in rview[r].active .. Swung,
           rview[r].published > 0
    PROVE  LET v == Join([rview[r] EXCEPT !.active = n], activeMsg[n])
           IN  /\ v \in Views /\ Sane(v) /\ v.published > 0
               /\ v.active = n /\ v.fill >= rview[r].fill
               /\ n \in Nat /\ n <= Swung /\ rview[r].active <= n
<1> DEFINE u == [rview[r] EXCEPT !.active = n]
<1>1. rview[r] \in Views
  BY DEF IInv, TypeOK
<1>2. n \in Nat /\ n <= Swung /\ rview[r].active <= n
  BY <1>1, FieldsOfViews, SwungIsFrame DEF IInv
<1>3. n \in Frames /\ activeMsg[n] \in Views /\ activeMsg[n].active = n
  BY <1>2, MessagesAreSane
<1>4. /\ u \in Views /\ u.active = n /\ u.published = rview[r].published
      /\ u.fill = rview[r].fill
  BY <1>1, <1>3 DEF Views
<1> HIDE DEF u
<1>5. /\ Join(u, activeMsg[n]) \in Views
      /\ Join(u, activeMsg[n]).active = n
      /\ Join(u, activeMsg[n]).published >= rview[r].published
      /\ Join(u, activeMsg[n]).fill >= rview[r].fill
  BY <1>3, <1>4, JoinIsView, JoinKnowsBoth
<1>6. Join(u, activeMsg[n]).published > 0
  BY <1>1, <1>5, FieldsOfViews
<1>7. Sane(Join(u, activeMsg[n]))
  BY <1>2, <1>5, <1>6 DEF Sane
<1> QED
  BY <1>2, <1>5, <1>6, <1>7 DEF u

LEMMA LoadActiveKeeps ==
    ASSUME IInv, NEW r \in Readers, LoadActive(r)
    PROVE  IInv'
<1>1. PICK n \in rview[r].active .. Swung :
          /\ slot' = [slot EXCEPT ![r] = SlotOf(n)]
          /\ rview' = [rview EXCEPT ![r] =
                          Join([rview[r] EXCEPT !.active = n], activeMsg[n])]
  BY DEF LoadActive, LoadOrder, AcquireView
<1>2. /\ rpc[r] = "load" /\ rpc' = [rpc EXCEPT ![r] = "register"]
      /\ UNCHANGED <<writerVars, users, answers>>
  BY DEF LoadActive, Goto
<1>3. /\ ReaderOK(r) /\ rview[r].published > 0 /\ rview[r].active > 0
      /\ Len(answers[r]) < MaxCalls /\ frame >= 1
  BY <1>2 DEF IInv, ReaderOK
<1> DEFINE v == Join([rview[r] EXCEPT !.active = n], activeMsg[n])
<1>4. /\ v \in Views /\ Sane(v) /\ v.published > 0 /\ n \in Nat
      /\ v.active = n /\ rview[r].active <= n /\ rview[r].active \in Nat
  BY <1>3, ActiveRead, FieldsOfViews DEF IInv, TypeOK
<1> HIDE DEF v
<1>5. /\ rview'[r] = v /\ rpc'[r] = "register"
      /\ rview' \in [Readers -> Views]
      /\ rpc' \in [Readers -> {"idle", "load", "register", "recheck", "leave", "copy"}]
      /\ \A q \in Readers \ {r} :
            /\ rview'[q] = rview[q] /\ rpc'[q] = rpc[q]
            /\ slot'[q] = slot[q] /\ answers'[q] = answers[q]
  BY <1>1, <1>2, <1>4 DEF IInv, TypeOK, v
<1>6. slot' \in [Readers -> Slots]
  BY <1>1, <1>4, Parity DEF IInv, TypeOK
<1>7. TypeOK'
  BY <1>2, <1>5, <1>6 DEF IInv, TypeOK, writerVars
<1>8. ReaderOK(r)'
  <2>1. Swung' = Swung /\ frame' = frame
    BY <1>2, ReaderFrame DEF writerVars
  <2>2. Sane(rview[r])'
    BY <1>4, <1>5, <2>1 DEF Sane
  <2> QED
    BY <1>2, <1>3, <1>4, <1>5, <2>1, <2>2 DEF ReaderOK, Holding
<1> QED
  BY <1>2, <1>5, <1>7, <1>8, ReaderMoves DEF Holding

LEMMA RetryKeeps ==
    ASSUME IInv, NEW r \in Readers, Retry(r)
    PROVE  IInv'
<1>1. /\ rpc[r] = "register" /\ rpc' = [rpc EXCEPT ![r] = "load"]
      /\ UNCHANGED <<writerVars, users, slot, rview, answers>>
  BY DEF Retry, Goto
<1>2. rpc'[r] = "load" /\ \A q \in Readers \ {r} : rpc'[q] = rpc[q]
  BY <1>1 DEF IInv, TypeOK
<1>3. TypeOK'
  BY <1>1 DEF IInv, TypeOK, writerVars
<1>4. ReaderOK(r)'
  <2>1. Swung' = Swung /\ frame' = frame /\ ReaderOK(r)
    BY <1>1, ReaderFrame DEF writerVars, IInv
  <2>2. Sane(rview[r])'
    BY <1>1, <2>1 DEF Sane, ReaderOK
  <2> QED
    BY <1>1, <1>2, <2>1, <2>2 DEF ReaderOK, Holding
<1> QED
  BY <1>1, <1>2, <1>3, <1>4, ReaderMoves DEF Holding

\* A second look at the reader's own slot finds the frame stored there, for the slot
\* was given back after the frame before it was published.
LEMMA RecheckKeeps ==
    ASSUME IInv, NEW r \in Readers, Recheck(r)
    PROVE  IInv'
<1>1. PICK n \in rview[r].active .. Swung :
          /\ Goto(r, "recheck", IF SlotOf(n) = slot[r] THEN "copy" ELSE "leave")
          /\ rview' = [rview EXCEPT ![r] =
                          Join([rview[r] EXCEPT !.active = n], activeMsg[n])]
  BY DEF Recheck, RecheckOrder, AcquireView
<1>2. /\ rpc[r] = "recheck"
      /\ rpc' = [rpc EXCEPT ![r] = IF SlotOf(n) = slot[r] THEN "copy" ELSE "leave"]
      /\ UNCHANGED <<writerVars, users, slot, answers>>
  BY <1>1 DEF Recheck, Goto
<1>3. /\ ReaderOK(r) /\ rview[r].published > 0 /\ rview[r].active > 0
      /\ Len(answers[r]) < MaxCalls /\ frame >= 1 /\ slot[r] \in Slots
      /\ Content(slot[r]) <= rview[r].fill
      /\ Content(slot[r]) <= rview[r].active + 1
  BY <1>2 DEF IInv, ReaderOK, Holding, TypeOK
<1> DEFINE v == Join([rview[r] EXCEPT !.active = n], activeMsg[n])
<1>4. /\ v \in Views /\ Sane(v) /\ v.published > 0 /\ v.active = n
      /\ v.fill >= rview[r].fill /\ n \in Nat /\ n <= Swung /\ rview[r].active <= n
  BY <1>3, ActiveRead
<1> HIDE DEF v
<1>5. /\ rview'[r] = v
      /\ rpc'[r] = IF SlotOf(n) = slot[r] THEN "copy" ELSE "leave"
      /\ rview' \in [Readers -> Views]
      /\ rpc' \in [Readers -> {"idle", "load", "register", "recheck", "leave", "copy"}]
      /\ \A q \in Readers \ {r} :
            /\ rview'[q] = rview[q] /\ rpc'[q] = rpc[q]
            /\ slot'[q] = slot[q] /\ answers'[q] = answers[q]
  BY <1>1, <1>2, <1>4 DEF IInv, TypeOK, v
<1>6. TypeOK'
  BY <1>2, <1>5 DEF IInv, TypeOK, writerVars
<1>7. /\ Content(slot[r]) \in Nat /\ Content(slot[r]) <= n + 1
      /\ n <= Content(slot[r]) + 1 /\ SlotOf(Content(slot[r])) = slot[r]
  <2>1. /\ Content(slot[r]) \in {frame, frame - 1}
        /\ SlotOf(Content(slot[r])) = slot[r]
    BY <1>3, ContentOfSlot DEF IInv
  <2>2. rview[r].active \in Nat /\ frame \in Nat /\ n <= frame
    BY <1>4, FieldsOfViews, SwungIsFrame DEF IInv, TypeOK
  <2> QED
    BY <1>3, <1>4, <2>1, <2>2
<1>8. SlotOf(n) = slot[r] => n = Content(slot[r])
  BY <1>4, <1>7, SameSlot
<1>9. ReaderOK(r)'
  <2>1. /\ Swung' = Swung /\ frame' = frame /\ slot' = slot
        /\ Content(slot[r])' = Content(slot[r])
    BY <1>2, ReaderFrame DEF writerVars, Content
  <2>2. Sane(rview[r])'
    BY <1>4, <1>5, <2>1 DEF Sane
  <2>3. Content(slot[r]) <= v.fill /\ v.active > 0
    BY <1>3, <1>4, <1>7, FieldsOfViews DEF IInv, TypeOK
  <2> QED
    BY <1>2, <1>3, <1>4, <1>5, <1>7, <1>8, <2>1, <2>2, <2>3 DEF ReaderOK, Holding
<1> QED
  BY <1>2, <1>5, <1>6, <1>9, ReaderMoves DEF Holding

LEMMA TellKeeps ==
    ASSUME IInv, NEW q \in Readers, NEW r \in Readers, Tell(q, r)
    PROVE  IInv'
<1>1. /\ rpc[r] = "idle" /\ rview' = [rview EXCEPT ![r] = Join(rview[r], rview[q])]
      /\ UNCHANGED <<writerVars, users, rpc, slot, answers>>
  BY DEF Tell
<1>2. /\ rview[q] \in Views /\ rview[r] \in Views /\ ReaderOK(q) /\ ReaderOK(r)
  BY DEF IInv, TypeOK
<1>3. /\ Join(rview[r], rview[q]) \in Views /\ Sane(Join(rview[r], rview[q]))
  BY <1>2, JoinIsView, SaneJoin DEF IInv, ReaderOK
<1>4. /\ rview'[r] = Join(rview[r], rview[q])
      /\ \A u \in Readers \ {r} : rview'[u] = rview[u]
  BY <1>1 DEF IInv, TypeOK
<1>5. TypeOK'
  BY <1>1, <1>3 DEF IInv, TypeOK, writerVars
<1>6. ReaderOK(r)'
  <2>1. Swung' = Swung
    BY <1>1, ReaderFrame
  <2>2. Sane(rview[r])'
    BY <1>3, <1>4, <2>1 DEF Sane
  <2> QED
    BY <1>1, <2>2 DEF ReaderOK, Holding
<1> QED
  BY <1>1, <1>4, <1>5, <1>6, ReaderMoves DEF Holding

\* A reader that counts itself in or out of a slot leaves the other slot as it is.
LEMMA OtherSlot ==
    ASSUME IInv, UNCHANGED <<writerVars, slot>>, NEW r \in Readers,
           \A q \in Readers \ {r} : rpc'[q] = rpc[q] /\ answers'[q] = answers[q],
           \/ answers'[r] = answers[r]
           \/ \E n \in Frames : /\ SlotOf(n) = slot[r]
                                /\ answers'[r] = Append(answers[r], n),
           NEW s \in Slots, s # slot[r], users'[s] = users[s]
    PROVE  CountOK(s)' /\ SlotOK(s)'
<1>1. CountOK(s) /\ SlotOK(s)
  BY DEF IInv
<1>2. /\ Held(s)' = Held(s) /\ Content(s)' = Content(s) /\ Swung' = Swung
      /\ wview' = wview
  BY ReaderFrame DEF writerVars
<1>3. Holders(s)' = Holders(s)
  <2>1. \A q \in Readers : q \in Holders(s)' <=> q \in Holders(s)
    BY DEF Holders
  <2>2. Holders(s) \subseteq Readers /\ Holders(s)' \subseteq Readers
    BY DEF Holders
  <2> QED
    BY <2>1, <2>2
<1>4. ASSUME NEW v, Past(s, v)
      PROVE  \A q \in Readers : \A k \in DOMAIN answers'[q] :
                 answers'[q][k] >= 0 /\ SlotOf(answers'[q][k]) = s => k <= v.copies[q]
  <2> SUFFICES ASSUME NEW q \in Readers, NEW k \in DOMAIN answers'[q],
                      answers'[q][k] >= 0, SlotOf(answers'[q][k]) = s
               PROVE  k <= v.copies[q]
    OBVIOUS
  <2>1. answers[q] \in Seq(Frames \cup {Unavailable})
    BY DEF IInv, TypeOK
  <2>2. k \in DOMAIN answers[q] /\ answers'[q][k] = answers[q][k]
    <3>1. CASE answers'[q] = answers[q]
      BY <3>1
    <3>2. CASE q = r /\ answers'[r] # answers[r]
      <4>1. PICK n \in Frames : SlotOf(n) = slot[r] /\ answers'[r] = Append(answers[r], n)
        BY <3>2
      <4>2. k \in 1 .. Len(answers[r]) + 1
               /\ (k = Len(answers[r]) + 1 => answers'[r][k] = n)
        BY <2>1, <3>2, <4>1
      <4>3. k # Len(answers[r]) + 1
        BY <3>2, <4>1, <4>2
      <4>4. k \in 1 .. Len(answers[r]) /\ Len(answers[r]) \in Nat
        BY <2>1, <3>2, <4>2, <4>3
      <4> QED
        BY <2>1, <3>2, <4>1, <4>4
    <3> QED
      BY <3>1, <3>2
  <2> QED
    BY <1>4, <2>2 DEF Past
<1>5. Past(s, wview) => Past(s, wview)'
  BY <1>2, <1>4 DEF Past
<1>6. Past(s, users[s].view) => Past(s, users[s].view)'
  BY <1>4 DEF Past
<1>7. Sane(users[s].view)'
  BY <1>1, <1>2 DEF SlotOK, Sane
<1> QED
  BY <1>1, <1>2, <1>3, <1>5, <1>6, <1>7 DEF CountOK, SlotOK

LEMMA CountMoves ==
    ASSUME IInv, UNCHANGED <<writerVars, slot>>, NEW r \in Readers,
           NEW t \in Slots, t = slot[r],
           \A q \in Readers \ {r} :
               rview'[q] = rview[q] /\ rpc'[q] = rpc[q] /\ answers'[q] = answers[q],
           \/ answers'[r] = answers[r]
           \/ \E n \in Frames : /\ SlotOf(n) = t
                                /\ answers'[r] = Append(answers[r], n),
           \A s \in Slots : s # t => users'[s] = users[s],
           TypeOK', ReaderOK(r)',
           CountOK(t)', SlotOK(t)'
    PROVE  IInv'
<1>1. WriterOK' /\ MsgOK'
  BY ReaderFrame
<1>2. ASSUME NEW s \in Slots PROVE CountOK(s)' /\ SlotOK(s)'
  <2>1. CASE s # t
    BY <2>1, OtherSlot
  <2>2. CASE s = t
    BY <2>2
  <2> QED
    BY <2>1, <2>2
<1>3. ASSUME NEW q \in Readers PROVE ReaderOK(q)'
  <2>1. CASE q = r
    BY <2>1
  <2>2. CASE q # r
    BY <2>2, OtherReaders
  <2> QED
    BY <2>1, <2>2
<1> QED
  BY <1>1, <1>2, <1>3 DEF IInv

LEMMA RegisterKeeps ==
    ASSUME IInv, NEW r \in Readers, Register(r)
    PROVE  IInv'
<1>0. PICK s \in Slots : s = slot[r]
  BY DEF IInv, TypeOK
<1> DEFINE v == Join(rview[r], users[s].view)
<1>1. /\ rpc[r] = "register" /\ rpc' = [rpc EXCEPT ![r] = "recheck"]
      /\ users[s].count >= 0
      /\ users' = [users EXCEPT ![s].count = users[s].count + 1]
      /\ rview' = [rview EXCEPT ![r] = v]
      /\ UNCHANGED <<writerVars, slot, answers>>
  BY <1>0 DEF Register, Goto, RegisterOrder, AcquireView
<1>2. /\ s \in Slots /\ users[s].view \in Views /\ rview[r] \in Views
      /\ users[s].count \in Nat /\ ReaderOK(r) /\ CountOK(s) /\ SlotOK(s)
      /\ users[s] \in [count : Nat \cup {-1}, view : Views]
  BY <1>0, <1>1 DEF IInv, TypeOK
<1>3. ~Held(s) /\ users[s].count = Cardinality(Holders(s))
  BY <1>1, <1>2 DEF CountOK
<1>4. /\ v \in Views /\ Sane(v) /\ v.fill >= users[s].view.fill
      /\ v.active >= users[s].view.active /\ v.published >= rview[r].published
      /\ v.active >= rview[r].active
  BY <1>2, JoinIsView, JoinKnowsBoth, SaneJoin DEF IInv, ReaderOK, SlotOK
<1> HIDE DEF v
<1>5. /\ rview'[r] = v /\ rpc'[r] = "recheck"
      /\ \A q \in Readers \ {r} :
            rview'[q] = rview[q] /\ rpc'[q] = rpc[q] /\ answers'[q] = answers[q]
      /\ users'[s].count = users[s].count + 1 /\ users'[s].view = users[s].view
      /\ \A u \in Slots : u # s => users'[u] = users[u]
  BY <1>1, <1>2 DEF IInv, TypeOK
<1>6. TypeOK'
  <2>1. rpc' \in [Readers -> {"idle", "load", "register", "recheck", "leave", "copy"}]
    BY <1>1 DEF IInv, TypeOK
  <2>2. rview' \in [Readers -> Views]
    BY <1>1, <1>4 DEF IInv, TypeOK
  <2>3. users' \in [Slots -> [count : Nat \cup {-1}, view : Views]]
    <3>1. [users[s] EXCEPT !.count = users[s].count + 1]
              \in [count : Nat \cup {-1}, view : Views]
      BY <1>2
    <3> QED
      BY <1>1, <1>2, <3>1 DEF IInv, TypeOK
  <2> QED
    BY <1>1, <2>1, <2>2, <2>3 DEF IInv, TypeOK, writerVars
<1>7. /\ Held(s)' = Held(s) /\ Content(s)' = Content(s) /\ Swung' = Swung
      /\ frame' = frame /\ slot' = slot /\ answers' = answers
  BY <1>1, ReaderFrame DEF writerVars
<1>8. ReaderOK(r)'
  <2>1. Sane(rview[r])'
    BY <1>4, <1>5, <1>7 DEF Sane
  <2>2. /\ rview[r].published > 0 /\ rview[r].active > 0
        /\ Len(answers[r]) < MaxCalls /\ frame >= 1
    BY <1>1, <1>2 DEF ReaderOK
  <2>3. v.published > 0 /\ v.active > 0
    BY <1>2, <1>4, <2>2, FieldsOfViews
  <2>4. Content(s) <= v.fill /\ Content(s) <= v.active + 1
    <3>1. Content(s) <= users[s].view.fill /\ Content(s) <= users[s].view.active + 1
      BY <1>2, <1>3 DEF SlotOK
    <3>2. Content(s) \in Nat
      BY <1>2, ContentOfSlot, OrdersAssumption DEF IInv, Frames
    <3> QED
      BY <1>2, <1>4, <3>1, <3>2, FieldsOfViews
  <2>5. Content(slot[r])' = Content(s)
    BY <1>0, <1>7 DEF Content
  <2> QED
    BY <1>0, <1>5, <1>7, <2>1, <2>2, <2>3, <2>4, <2>5 DEF ReaderOK, Holding
<1>9. Holders(s)' = Holders(s) \cup {r} /\ r \notin Holders(s)
  <2>1. \A q \in Readers : q \in Holders(s)' <=> q \in Holders(s) \/ q = r
    BY <1>0, <1>5, <1>7 DEF Holders, Holding
  <2>2. r \notin Holders(s)
    BY <1>1 DEF Holders, Holding
  <2>3. Holders(s) \subseteq Readers /\ Holders(s)' \subseteq Readers
    BY DEF Holders
  <2> QED
    BY <2>1, <2>2, <2>3
<1>10. CountOK(s)'
  <2>1. Cardinality(Holders(s) \cup {r}) = Cardinality(Holders(s)) + 1
    BY <1>9, HoldersAreFinite, FS_AddElement
  <2> QED
    BY <1>3, <1>5, <1>7, <1>9, <2>1 DEF CountOK
<1>11. SlotOK(s)'
  BY <1>2, <1>3, <1>5, <1>7 DEF SlotOK, Sane, Past
<1> QED
  BY <1>0, <1>1, <1>5, <1>6, <1>7, <1>8, <1>10, <1>11, CountMoves

\* Counting out of a slot releases what the reader knows to its next owner.
LEMMA CountsOut ==
    ASSUME IInv, UNCHANGED <<writerVars, slot>>, NEW r \in Readers,
           NEW t \in Slots, t = slot[r], NEW w \in Views, Sane(w),
           rpc[r] \in Holding, rpc'[r] \notin Holding,
           \A q \in Readers \ {r} : rpc'[q] = rpc[q] /\ answers'[q] = answers[q],
           \/ answers'[r] = answers[r]
           \/ \E n \in Frames : /\ answers'[r] = Append(answers[r], n)
                                /\ w.copies[r] = Len(answers[r]) + 1,
           users' = [users EXCEPT ![t] = [count |-> users[t].count - 1,
                                          view |-> Join(users[t].view, w)]]
    PROVE  /\ CountOK(t)' /\ SlotOK(t)'
           /\ users' \in [Slots -> [count : Nat \cup {-1}, view : Views]]
           /\ \A s \in Slots : s # t => users'[s] = users[s]
<1>1. /\ users[t].view \in Views /\ CountOK(t) /\ SlotOK(t) /\ r \in Holders(t)
      /\ users \in [Slots -> [count : Nat \cup {-1}, view : Views]]
  BY DEF IInv, TypeOK, Holders
<1>2. ~Held(t) /\ users[t].count = Cardinality(Holders(t))
  BY <1>1 DEF CountOK
<1>3. /\ Held(t)' = Held(t) /\ Content(t)' = Content(t) /\ Swung' = Swung
  BY ReaderFrame DEF writerVars
<1> DEFINE v == Join(users[t].view, w)
<1>4. /\ v \in Views /\ v.fill >= users[t].view.fill
      /\ v.active >= users[t].view.active /\ v.copies[r] >= w.copies[r]
  BY <1>1, JoinIsView, JoinKnowsBoth
<1>5. Sane(v)
  BY <1>1, SaneJoin DEF IInv, SlotOK
<1>6. Past(t, v)
  BY <1>1, <1>2, PastJoin DEF IInv, TypeOK, SlotOK
<1> HIDE DEF v
<1>7. /\ users'[t].count = users[t].count - 1 /\ users'[t].view = v
      /\ \A s \in Slots : s # t => users'[s] = users[s]
  BY <1>1 DEF v
<1>8. /\ Holders(t)' = Holders(t) \ {r}
      /\ Cardinality(Holders(t) \ {r}) = Cardinality(Holders(t)) - 1
      /\ Cardinality(Holders(t) \ {r}) \in Nat
  <2>1. \A q \in Readers : q \in Holders(t)' <=> q \in Holders(t) /\ q # r
    BY DEF Holders
  <2>2. Holders(t) \subseteq Readers /\ Holders(t)' \subseteq Readers
    BY DEF Holders
  <2>3. IsFiniteSet(Holders(t)) /\ IsFiniteSet(Holders(t) \ {r})
    BY HoldersAreFinite, FS_Subset
  <2> QED
    BY <1>1, <2>1, <2>2, <2>3, FS_RemoveElement, FS_CardinalityType
<1>9. CountOK(t)'
  BY <1>2, <1>3, <1>7, <1>8 DEF CountOK
<1>10. Past(t, users[t].view)'
  <2> SUFFICES ASSUME NEW q \in Readers, NEW k \in DOMAIN answers'[q],
                      answers'[q][k] >= 0, SlotOf(answers'[q][k]) = t
               PROVE  k <= v.copies[q]
    BY <1>7 DEF Past
  <2>1. answers[q] \in Seq(Frames \cup {Unavailable})
    BY DEF IInv, TypeOK
  <2>2. CASE answers'[q] = answers[q]
    BY <1>6, <2>2 DEF Past
  <2>3. CASE answers'[q] # answers[q]
    <3>1. q = r
      BY <2>3
    <3>2. PICK n \in Frames : /\ answers'[q] = Append(answers[q], n)
                              /\ w.copies[r] = Len(answers[q]) + 1
      BY <2>3, <3>1
    <3>3. CASE k \in DOMAIN answers[q]
      <4>1. answers'[q][k] = answers[q][k]
        BY <2>1, <3>2, <3>3
      <4> QED
        BY <1>6, <3>3, <4>1 DEF Past
    <3>4. CASE k \notin DOMAIN answers[q]
      <4>1. k = Len(answers[q]) + 1
        BY <2>1, <3>2, <3>4
      <4>2. v.copies[r] \in Nat /\ w.copies[r] \in Nat
        BY <1>4, FieldsOfViews
      <4> QED
        BY <1>4, <3>1, <3>2, <4>1, <4>2
    <3> QED
      BY <3>3, <3>4
  <2> QED
    BY <2>2, <2>3
<1>11. SlotOK(t)'
  <2>1. Content(t) \in Nat
    BY ContentOfSlot, OrdersAssumption DEF IInv, Frames
  <2>2. Content(t) <= users[t].view.fill /\ Content(t) <= users[t].view.active + 1
    BY <1>1, <1>2 DEF SlotOK
  <2>3. Content(t) <= v.fill /\ Content(t) <= v.active + 1
    BY <1>1, <1>4, <2>1, <2>2, FieldsOfViews
  <2>4. Sane(users[t].view)'
    BY <1>3, <1>5, <1>7 DEF Sane
  <2> QED
    BY <1>2, <1>3, <1>7, <1>10, <2>3, <2>4 DEF SlotOK
<1>12. users' \in [Slots -> [count : Nat \cup {-1}, view : Views]]
  BY <1>1, <1>2, <1>4, <1>8 DEF v
<1> QED
  BY <1>7, <1>9, <1>11, <1>12

LEMMA LeaveKeeps ==
    ASSUME IInv, NEW r \in Readers, Leave(r)
    PROVE  IInv'
<1>0. PICK t \in Slots : t = slot[r]
  BY DEF IInv, TypeOK
<1>1. /\ rpc[r] = "leave" /\ rpc' = [rpc EXCEPT ![r] = "load"]
      /\ UNCHANGED <<writerVars, slot, rview, answers>>
      /\ users' = [users EXCEPT ![t] = [count |-> users[t].count - 1,
                                        view |-> Join(users[t].view, rview[r])]]
  BY <1>0 DEF Leave, Goto, Unregister, LeaveOrder, ReleaseView
<1>2. rview[r] \in Views /\ ReaderOK(r) /\ Sane(rview[r])
  BY DEF IInv, TypeOK, ReaderOK
<1>3. rpc'[r] = "load" /\ \A q \in Readers \ {r} : rpc'[q] = rpc[q]
  BY <1>1 DEF IInv, TypeOK
<1>4. /\ CountOK(t)' /\ SlotOK(t)'
      /\ users' \in [Slots -> [count : Nat \cup {-1}, view : Views]]
      /\ \A s \in Slots : s # t => users'[s] = users[s]
  BY <1>0, <1>1, <1>2, <1>3, CountsOut DEF Holding
<1>5. TypeOK'
  BY <1>1, <1>4 DEF IInv, TypeOK, writerVars
<1>6. ReaderOK(r)'
  <2>1. Swung' = Swung /\ frame' = frame
    BY <1>1, ReaderFrame DEF writerVars
  <2>2. Sane(rview[r])'
    BY <1>1, <1>2, <2>1 DEF Sane
  <2> QED
    BY <1>1, <1>2, <1>3, <2>1, <2>2 DEF ReaderOK, Holding
<1> QED
  BY <1>0, <1>1, <1>3, <1>4, <1>5, <1>6, CountMoves

\* The frame given back is the one the reader knew of when it looked again.
LEMMA ReleasedFrame ==
    ASSUME IInv, NEW r \in Readers, rpc[r] = "copy"
    PROVE  /\ Content(slot[r]) = rview[r].active /\ rview[r].active > 0
           /\ Content(slot[r]) \in Frames /\ SlotOf(Content(slot[r])) = slot[r]
<1>1. ReaderOK(r) /\ slot[r] \in Slots
  BY DEF IInv, TypeOK
<1> QED
  BY <1>1, ContentOfSlot DEF IInv, ReaderOK

LEMMA ReleaseKeeps ==
    ASSUME IInv, NEW r \in Readers, Release(r)
    PROVE  IInv'
<1>0. PICK t \in Slots : t = slot[r]
  BY DEF IInv, TypeOK
<1> DEFINE w == [rview[r] EXCEPT !.copies[r] = Len(answers[r]) + 1]
<1>1. /\ rpc[r] = "copy" /\ rpc' = [rpc EXCEPT ![r] = "idle"]
      /\ rview' = [rview EXCEPT ![r] = w]
      /\ UNCHANGED <<writerVars, slot>>
      /\ answers' = [answers EXCEPT ![r] = Append(@, Content(t))]
  BY <1>0 DEF Release, Goto
<1>2. /\ rview[r] \in Views /\ ReaderOK(r) /\ Sane(rview[r])
      /\ answers[r] \in Seq(Frames \cup {Unavailable})
      /\ Len(answers[r]) \in Nat /\ Len(answers[r]) + 1 <= MaxCalls
  BY <1>1, OrdersAssumption DEF IInv, TypeOK, ReaderOK
<1>3. /\ w \in Views /\ w.active = rview[r].active /\ w.published = rview[r].published
      /\ w.copies[r] = Len(answers[r]) + 1
  <2>1. rview[r].copies \in [Readers -> 0 .. MaxCalls]
    BY <1>2 DEF Views
  <2>2. [rview[r].copies EXCEPT ![r] = Len(answers[r]) + 1] \in [Readers -> 0 .. MaxCalls]
    BY <1>2, <2>1, OrdersAssumption
  <2> QED
    BY <1>2, <2>1, <2>2 DEF Views
<1> HIDE DEF w
<1>4. /\ rview'[r] = w /\ rpc'[r] = "idle"
      /\ answers'[r] = Append(answers[r], Content(t))
      /\ \A q \in Readers \ {r} :
            rview'[q] = rview[q] /\ rpc'[q] = rpc[q] /\ answers'[q] = answers[q]
  BY <1>1 DEF IInv, TypeOK
<1>5. users' = [users EXCEPT ![t] = [count |-> users[t].count - 1,
                                    view |-> Join(users[t].view, w)]]
  BY <1>0, <1>4 DEF Release, Unregister, ReleaseOrder, ReleaseView
<1>6. Sane(w)
  BY <1>2, <1>3 DEF Sane
<1>7. Content(t) \in Frames /\ SlotOf(Content(t)) = t
  BY <1>0, <1>1, ReleasedFrame
<1>8. /\ CountOK(t)' /\ SlotOK(t)'
      /\ users' \in [Slots -> [count : Nat \cup {-1}, view : Views]]
      /\ \A s \in Slots : s # t => users'[s] = users[s]
  <2>1. rpc[r] \in Holding /\ rpc'[r] \notin Holding
    BY <1>1, <1>4 DEF Holding
  <2> QED
    BY <1>0, <1>1, <1>3, <1>4, <1>5, <1>6, <1>7, <2>1, CountsOut
<1>9. TypeOK'
  <2>1. /\ Append(answers[r], Content(t)) \in Seq(Frames \cup {Unavailable})
        /\ Len(Append(answers[r], Content(t))) <= MaxCalls
    BY <1>2, <1>7
  <2>2. /\ answers' \in [Readers -> Seq(Frames \cup {Unavailable})]
        /\ \A q \in Readers : Len(answers'[q]) <= MaxCalls
    BY <1>1, <1>4, <2>1 DEF IInv, TypeOK
  <2>3. rpc' \in [Readers -> {"idle", "load", "register", "recheck", "leave", "copy"}]
    BY <1>1 DEF IInv, TypeOK
  <2>4. rview' \in [Readers -> Views]
    BY <1>1, <1>3 DEF IInv, TypeOK
  <2> QED
    BY <1>1, <1>8, <2>2, <2>3, <2>4 DEF IInv, TypeOK, writerVars
<1>10. ReaderOK(r)'
  <2>1. Swung' = Swung
    BY <1>1, ReaderFrame
  <2>2. Sane(rview[r])'
    BY <1>4, <1>6, <2>1 DEF Sane
  <2> QED
    BY <1>4, <2>2 DEF ReaderOK, Holding
<1> QED
  BY <1>0, <1>1, <1>4, <1>7, <1>8, <1>9, <1>10, CountMoves

-----------------------------------------------------------------------------
(* The guest frame thread.                                                    *)

\* A slot it neither takes, gives back nor stores into stays as it is.
LEMMA SlotStays ==
    ASSUME IInv, UNCHANGED <<rpc, slot, answers>>, NEW s \in Slots,
           Swung \in Nat, Swung' \in Nat, Swung' >= Swung,
           users'[s] = users[s], Held(s)' <=> Held(s), Content(s)' = Content(s),
           Held(s) => wview'.copies = wview.copies
    PROVE  CountOK(s)' /\ SlotOK(s)'
<1>1. CountOK(s) /\ SlotOK(s) /\ users[s].view \in Views
  BY DEF IInv, TypeOK
<1>2. Holders(s)' = Holders(s)
  BY DEF Holders
<1>3. Sane(users[s].view)'
  BY <1>1, FieldsOfViews DEF SlotOK, Sane
<1>4. Past(s, users[s].view)' = Past(s, users[s].view)
  BY DEF Past
<1>5. Held(s) => Past(s, wview)' = Past(s, wview)
  BY DEF Past
<1> QED
  BY <1>1, <1>2, <1>3, <1>4, <1>5 DEF CountOK, SlotOK

\* The readers are as they were if the slots they hold are.
LEMMA WriterMoves ==
    ASSUME IInv, UNCHANGED <<rpc, slot, rview, answers>>,
           frame' >= frame, frame' \in Nat,
           Swung \in Nat, Swung' \in Nat, Swung' >= Swung,
           TypeOK', WriterOK', MsgOK', \A s \in Slots : CountOK(s)' /\ SlotOK(s)',
           \A q \in Readers : rpc[q] \in Holding => Content(slot[q])' = Content(slot[q])
    PROVE  IInv'
<1>1. ASSUME NEW q \in Readers PROVE ReaderOK(q)'
  <2>1. ReaderOK(q) /\ rview[q] \in Views /\ frame \in Nat
    BY SwungIsFrame DEF IInv, TypeOK
  <2>2. Sane(rview[q])'
    BY <2>1, FieldsOfViews DEF ReaderOK, Sane
  <2> QED
    BY <2>1, <2>2 DEF ReaderOK, Holding
<1> QED
  BY <1>1 DEF IInv

LEMMA ClaimKeeps ==
    ASSUME IInv, Claim
    PROVE  IInv'
<1>0. frame \in Nat /\ frame + 1 \in Frames /\ Swung \in Nat
  BY SwungIsFrame, OrdersAssumption DEF IInv, Claim, Frames
<1>1. PICK t \in Slots : t = SlotOf(frame + 1) /\ t # SlotOf(frame)
  BY <1>0, Parity
<1>2. /\ wpc = "idle" /\ wpc' = "fill" /\ users[t].count = 0 /\ frame' = frame + 1
      /\ wview' = Join(wview, users[t].view)
      /\ UNCHANGED <<activeMsg, publishedMsg, rpc, slot, rview, answers>>
      /\ users' = [users EXCEPT ![t].count = -1]
  BY <1>1 DEF Claim, ClaimOrder, AcquireView
<1>3. /\ users[t].view \in Views /\ wview \in Views
      /\ users[t] \in [count : Nat \cup {-1}, view : Views]
      /\ CountOK(t) /\ SlotOK(t)
  BY DEF IInv, TypeOK
<1>4. ~Held(t) /\ Holders(t) = {}
  <2>1. ~Held(t)
    BY <1>2 DEF Held
  <2>2. Cardinality(Holders(t)) = 0
    BY <1>2, <1>3, <2>1 DEF CountOK
  <2> QED
    BY <2>1, <2>2, HoldersAreFinite, FS_EmptySet
<1>5. Swung = frame /\ Announced = frame /\ Swung' = frame /\ Announced' = frame
  BY <1>0, <1>2 DEF Swung, Announced
<1>6. /\ \A s \in Slots : s # t => /\ Content(s)' = Content(s) /\ users'[s] = users[s]
                                   /\ ~Held(s) /\ ~Held(s)'
      /\ Held(t)' /\ users'[t].count = -1 /\ users'[t].view = users[t].view
  <2>1. ASSUME NEW s \in Slots, s # t PROVE Content(s)' = Content(s)
    <3>1. SlotOf(frame) = s /\ SlotOf(frame') # s
      BY <1>0, <1>1, <1>2, <2>1, Parity DEF Slots
    <3>2. Content(s) = frame /\ Content(s)' = Later(frame' - 1, 0)
      BY <3>1 DEF Content
    <3> QED
      BY <1>0, <1>2, <3>2 DEF Later
  <2> QED
    BY <1>1, <1>2, <1>3, <2>1 DEF Held, IInv, TypeOK
<1>7. /\ wview' \in Views /\ wview'.active = Swung
      /\ wview'.active > 0 => wview'.published > 0
  <2>1. /\ wview.active = Swung /\ (wview.active > 0 => wview.published > 0)
        /\ users[t].view.active <= Swung
    BY <1>2, <1>3 DEF IInv, WriterOK, SlotOK, Sane
  <2>2. /\ wview' \in Views /\ wview'.active \in {wview.active, users[t].view.active}
        /\ wview'.active >= wview.active /\ wview'.published >= wview.published
    BY <1>2, <1>3, JoinIsView, JoinKnowsBoth
  <2> QED
    BY <1>3, <2>1, <2>2, FieldsOfViews
<1>8. TypeOK'
  <2>1. users' \in [Slots -> [count : Nat \cup {-1}, view : Views]]
    BY <1>2, <1>3 DEF IInv, TypeOK
  <2> QED
    BY <1>0, <1>2, <1>7, <2>1 DEF IInv, TypeOK
<1>9. WriterOK'
  BY <1>0, <1>2, <1>5, <1>7 DEF WriterOK
<1>10. MsgOK'
  BY <1>2, <1>5 DEF IInv, MsgOK
<1>11. ASSUME NEW s \in Slots PROVE CountOK(s)' /\ SlotOK(s)'
  <2>1. CASE s # t
    BY <1>0, <1>2, <1>5, <1>6, <2>1, SlotStays
  <2>2. CASE s = t
    <3>1. CountOK(t)'
      <4>1. Holders(t)' = {}
        BY <1>2, <1>4 DEF Holders
      <4> QED
        BY <1>6, <4>1 DEF CountOK
    <3>2. Past(t, Join(wview, users[t].view))
      BY <1>3, <1>4, PastJoin DEF IInv, TypeOK, SlotOK
    <3>3. Past(t, wview)'
      BY <1>2, <3>2 DEF Past
    <3>4. Sane(users[t].view)'
      BY <1>3, <1>5, <1>6 DEF SlotOK, Sane
    <3>5. SlotOK(t)'
      BY <1>6, <3>3, <3>4 DEF SlotOK
    <3> QED
      BY <2>2, <3>1, <3>5
  <2> QED
    BY <2>1, <2>2
<1>12. ASSUME NEW q \in Readers, rpc[q] \in Holding
       PROVE  Content(slot[q])' = Content(slot[q])
  <2>1. PICK s \in Slots : s = slot[q]
    BY DEF IInv, TypeOK
  <2>2. s # t
    BY <1>4, <1>12, <2>1 DEF Holders
  <2>3. Content(s)' = Content(s)
    BY <1>6, <2>2
  <2> QED
    BY <1>2, <2>1, <2>3
<1> QED
  BY <1>0, <1>2, <1>5, <1>8, <1>9, <1>10, <1>11, <1>12, WriterMoves

LEMMA FillKeeps ==
    ASSUME IInv, Fill
    PROVE  IInv'
<1>1. /\ wpc = "fill" /\ wpc' = "open" /\ wview' = [wview EXCEPT !.fill = frame]
      /\ UNCHANGED <<frame, users, activeMsg, publishedMsg, rpc, slot, rview, answers>>
  BY DEF Fill
<1>2. /\ Swung \in Nat /\ Swung' = Swung /\ Announced' = Announced /\ frame \in Nat
      /\ \A s : Content(s)' = Content(s) /\ (Held(s)' <=> Held(s))
  BY <1>1, SwungIsFrame DEF IInv, Swung, Announced, Content, Held
<1>3. /\ wview' \in Views /\ wview'.fill = frame /\ wview'.active = wview.active
      /\ wview'.published = wview.published /\ wview'.copies = wview.copies
  BY <1>1 DEF IInv, TypeOK, Views
<1>4. TypeOK'
  BY <1>1, <1>3 DEF IInv, TypeOK
<1>5. WriterOK' /\ MsgOK'
  BY <1>1, <1>2, <1>3 DEF IInv, WriterOK, MsgOK
<1>6. ASSUME NEW s \in Slots PROVE CountOK(s)' /\ SlotOK(s)'
  BY <1>1, <1>2, <1>3, SlotStays
<1>7. \A q \in Readers : Content(slot[q])' = Content(slot[q])
  BY <1>1 DEF Content
<1> QED
  BY <1>1, <1>2, <1>4, <1>5, <1>6, <1>7, WriterMoves

\* The slot goes back with everything the frame thread knows: the frame it stored,
\* and that the frame before is published.
LEMMA OpenKeeps ==
    ASSUME IInv, Open
    PROVE  IInv'
<1>0. frame \in Nat /\ Swung \in Nat /\ wview \in Views
  BY SwungIsFrame DEF IInv, TypeOK
<1>1. PICK t \in Slots : t = SlotOf(frame)
  BY <1>0, Parity
<1>2. /\ wpc = "open" /\ wpc' = "swing"
      /\ users' = [users EXCEPT ![t] = [count |-> 0, view |-> wview]]
      /\ UNCHANGED <<frame, wview, activeMsg, publishedMsg, rpc, slot, rview, answers>>
  BY <1>1 DEF Open, OpenOrder, ReleaseView
<1>3. /\ Swung' = Swung /\ Swung = frame - 1 /\ Announced' = Announced
      /\ \A s : Content(s)' = Content(s)
      /\ Held(t) /\ ~Held(t)' /\ Content(t) = frame
      /\ \A s \in Slots : s # t => ~Held(s) /\ ~Held(s)' /\ users'[s] = users[s]
  BY <1>1, <1>2 DEF Swung, Announced, Content, Held, IInv, TypeOK
<1>4. users'[t].count = 0 /\ users'[t].view = wview
  BY <1>2 DEF IInv, TypeOK
<1>5. CountOK(t) /\ SlotOK(t) /\ WriterOK
  BY DEF IInv
<1>6. TypeOK'
  BY <1>0, <1>2 DEF IInv, TypeOK
<1>7. WriterOK' /\ MsgOK'
  BY <1>2, <1>3 DEF IInv, WriterOK, MsgOK
<1>8. ASSUME NEW s \in Slots PROVE CountOK(s)' /\ SlotOK(s)'
  <2>1. CASE s # t
    BY <1>0, <1>2, <1>3, <2>1, SlotStays
  <2>2. CASE s = t
    <3>1. CountOK(t)'
      <4>1. Holders(t)' = {}
        BY <1>2, <1>3, <1>5 DEF Holders, CountOK
      <4> QED
        BY <1>3, <1>4, <4>1, FS_EmptySet DEF CountOK
    <3>2. Past(t, users[t].view)'
      BY <1>2, <1>3, <1>4, <1>5 DEF SlotOK, Past
    <3>3. Sane(users[t].view)'
      BY <1>0, <1>2, <1>3, <1>4, <1>5 DEF WriterOK, Sane
    <3>4. Content(t)' <= users'[t].view.fill /\ Content(t)' <= users'[t].view.active + 1
      BY <1>0, <1>2, <1>3, <1>4, <1>5 DEF WriterOK
    <3>5. SlotOK(t)'
      BY <1>3, <3>2, <3>3, <3>4 DEF SlotOK
    <3> QED
      BY <2>2, <3>1, <3>5
  <2> QED
    BY <2>1, <2>2
<1>9. \A q \in Readers : Content(slot[q])' = Content(slot[q])
  BY <1>2 DEF Content
<1> QED
  BY <1>0, <1>2, <1>3, <1>6, <1>7, <1>8, <1>9, WriterMoves

LEMMA SwingKeeps ==
    ASSUME IInv, Swing
    PROVE  IInv'
<1>1. /\ wpc = "swing" /\ wpc' = "announce" /\ wview' = [wview EXCEPT !.active = frame]
      /\ activeMsg' = [activeMsg EXCEPT ![frame] = wview']
      /\ UNCHANGED <<frame, users, publishedMsg, rpc, slot, rview, answers>>
  BY DEF Swing, SwingOrder, ReleaseView
<1>2. /\ Swung \in Nat /\ frame \in Nat /\ Swung = frame - 1 /\ Swung' = frame
      /\ Announced' = Announced /\ Announced = frame - 1
      /\ \A s : Content(s)' = Content(s) /\ ~Held(s) /\ ~Held(s)'
  BY <1>1, SwungIsFrame DEF IInv, Swung, Announced, Content, Held
<1>3. wview' \in Views /\ wview'.active = frame /\ frame \in Frames
  BY <1>1 DEF IInv, TypeOK, Views
<1>4. TypeOK'
  BY <1>1, <1>3 DEF IInv, TypeOK
<1>5. WriterOK'
  BY <1>1, <1>2, <1>3 DEF IInv, WriterOK
<1>6. MsgOK'
  <2> SUFFICES ASSUME NEW n \in Frames
               PROVE  /\ n <= Swung' => activeMsg'[n].active = n
                      /\ n <= Announced' => publishedMsg'[n].active = n
                                              /\ publishedMsg'[n].published = n
    BY DEF MsgOK
  <2>1. n \in Nat
    BY DEF Frames
  <2>2. CASE n = frame
    BY <1>1, <1>2, <1>3, <2>2 DEF IInv, TypeOK
  <2>3. CASE n # frame
    BY <1>1, <1>2, <2>1, <2>3 DEF IInv, TypeOK, MsgOK
  <2> QED
    BY <2>2, <2>3
<1>7. ASSUME NEW s \in Slots PROVE CountOK(s)' /\ SlotOK(s)'
  BY <1>1, <1>2, SlotStays
<1>8. \A q \in Readers : Content(slot[q])' = Content(slot[q])
  BY <1>1 DEF Content
<1> QED
  BY <1>1, <1>2, <1>4, <1>5, <1>6, <1>7, <1>8, WriterMoves

LEMMA AnnounceKeeps ==
    ASSUME IInv, Announce
    PROVE  IInv'
<1>1. /\ wpc = "announce" /\ wpc' = "idle" /\ wview' = [wview EXCEPT !.published = frame]
      /\ publishedMsg' = [publishedMsg EXCEPT ![frame] = wview']
      /\ UNCHANGED <<frame, users, activeMsg, rpc, slot, rview, answers>>
  BY DEF Announce, AnnounceOrder, ReleaseView
<1>2. /\ Swung \in Nat /\ frame \in Nat /\ Swung = frame /\ Swung' = frame
      /\ Announced' = frame /\ Announced = frame - 1 /\ frame >= 1
      /\ \A s : Content(s)' = Content(s) /\ ~Held(s) /\ ~Held(s)'
  BY <1>1, SwungIsFrame DEF IInv, Swung, Announced, Content, Held, WriterOK
<1>3. /\ wview' \in Views /\ wview'.published = frame /\ wview'.active = frame
      /\ frame \in Frames
  BY <1>1, <1>2 DEF IInv, TypeOK, Views, WriterOK
<1>4. TypeOK'
  BY <1>1, <1>3 DEF IInv, TypeOK
<1>5. WriterOK'
  BY <1>1, <1>2, <1>3 DEF IInv, WriterOK
<1>6. MsgOK'
  <2> SUFFICES ASSUME NEW n \in Frames
               PROVE  /\ n <= Swung' => activeMsg'[n].active = n
                      /\ n <= Announced' => publishedMsg'[n].active = n
                                              /\ publishedMsg'[n].published = n
    BY DEF MsgOK
  <2>1. n \in Nat
    BY DEF Frames
  <2>2. CASE n = frame
    BY <1>1, <1>2, <1>3, <2>2 DEF IInv, TypeOK, MsgOK
  <2>3. CASE n # frame
    BY <1>1, <1>2, <2>1, <2>3 DEF IInv, TypeOK, MsgOK
  <2> QED
    BY <2>2, <2>3
<1>7. ASSUME NEW s \in Slots PROVE CountOK(s)' /\ SlotOK(s)'
  BY <1>1, <1>2, SlotStays
<1>8. \A q \in Readers : Content(slot[q])' = Content(slot[q])
  BY <1>1 DEF Content
<1> QED
  BY <1>1, <1>2, <1>4, <1>5, <1>6, <1>7, <1>8, WriterMoves

-----------------------------------------------------------------------------
LEMMA NextKeeps == IInv /\ [Next]_vars => IInv'
<1> SUFFICES ASSUME IInv, [Next]_vars PROVE IInv'
  OBVIOUS
<1>1. CASE WriterStep
  BY <1>1, ClaimKeeps, FillKeeps, OpenKeeps, SwingKeeps, AnnounceKeeps DEF WriterStep
<1>2. ASSUME NEW r \in Readers, ReaderStep(r) PROVE IInv'
  BY <1>2, CheckPublishedKeeps, LoadActiveKeeps, RegisterKeeps, RetryKeeps, RecheckKeeps,
     LeaveKeeps, ReleaseKeeps DEF ReaderStep
<1>3. ASSUME NEW q \in Readers, NEW r \in Readers, Tell(q, r) PROVE IInv'
  BY <1>3, TellKeeps
<1>4. CASE UNCHANGED vars
  <2>1. /\ TypeOK' /\ WriterOK' /\ MsgOK'
    BY <1>4 DEF IInv, vars, writerVars, TypeOK, WriterOK, MsgOK, Swung, Announced
  <2>2. \A s \in Slots : CountOK(s)' /\ SlotOK(s)'
    BY <1>4 DEF IInv, vars, writerVars, CountOK, SlotOK, Held, Holders, Past, Sane,
                Swung, Content
  <2>3. \A r \in Readers : ReaderOK(r)'
    BY <1>4 DEF IInv, vars, writerVars, ReaderOK, Sane, Swung, Content
  <2> QED
    BY <2>1, <2>2, <2>3 DEF IInv
<1> QED
  BY <1>1, <1>2, <1>3, <1>4 DEF Next

LEMMA Inductive == Spec => []IInv
BY InitIInv, NextKeeps, PTL DEF Spec

\* Every state is one the declarations allow: no view names a store beyond the last
\* frame's or more copies than a reader may make, and no reader has more answers
\* than calls.
THEOREM TypeCorrect == Spec => []TypeOK
<1>1. IInv => TypeOK
  BY DEF IInv
<1> QED
  BY <1>1, Inductive, PTL

\* No two plain copies of PublishedSlot::snapshot race, on the orders the code names.
THEOREM NoRace == Spec => []NoDataRace
<1>1. IInv => NoDataRace
  <2> SUFFICES ASSUME IInv PROVE NoDataRace
    OBVIOUS
  <2>1. CopiesAfterFills
    BY DEF IInv, ReaderOK, Holding, CopiesAfterFills
  <2>2. FillsAfterCopies
    <3> SUFFICES ASSUME wpc = "fill", NEW r \in Readers
                 PROVE  /\ rpc[r] = "copy" => slot[r] # SlotOf(frame)
                        /\ \A k \in DOMAIN answers[r] :
                              answers[r][k] >= 0 /\ SlotOf(answers[r][k]) = SlotOf(frame)
                                  => k <= wview.copies[r]
      BY DEF FillsAfterCopies
    <3>1. PICK t \in Slots : t = SlotOf(frame)
      BY SwungIsFrame, Parity DEF IInv
    <3>2. Held(t) /\ CountOK(t) /\ SlotOK(t)
      BY <3>1 DEF Held, IInv
    <3>3. r \notin Holders(t) /\ Past(t, wview)
      BY <3>2 DEF CountOK, SlotOK
    <3> QED
      BY <3>1, <3>3 DEF Holders, Holding, Past
  <2> QED
    BY <2>1, <2>2 DEF NoDataRace
<1> QED
  BY <1>1, Inductive, PTL

-----------------------------------------------------------------------------
(* Every step is a step of the causal specification or leaves it as it is.    *)

known == [r \in Readers |-> rview[r].active]

\* A reader's step that leaves its answers alone is one by which it learns.
LEMMA ReaderLearns ==
    ASSUME IInv, UNCHANGED <<writerVars, answers>>, NEW r \in Readers,
           NEW v \in Views, rview' = [rview EXCEPT ![r] = v],
           v.active >= rview[r].active, v.active <= Swung
    PROVE  Causal!Learn(r)
<1>1. Swung' = Swung
  BY ReaderFrame
<1>2. rview[r].active \in Nat /\ v.active \in Nat /\ Swung \in Nat
  BY FieldsOfViews, SwungIsFrame DEF IInv, TypeOK
<1>3. known' = [known EXCEPT ![r] = v.active]
  BY DEF known, IInv, TypeOK
<1>4. v.active \in known[r] .. Swung
  BY <1>2 DEF known
<1> QED
  BY <1>1, <1>3, <1>4 DEF Causal!Learn, known

LEMMA StepIsCausal ==
    ASSUME IInv, IInv', [Next]_vars
    PROVE  [Causal!Next]_(Causal!causalVars)
<1>1. CASE WriterStep
  <2>1. UNCHANGED <<rview, answers>>
    BY <1>1 DEF WriterStep, Claim, Fill, Open, Swing, Announce
  <2>2. CASE Swing
    <3>1. Swung' = Swung + 1
      BY <2>2, SwungIsFrame DEF Swing, Swung, IInv
    <3> QED
      BY <2>1, <3>1 DEF Causal!Publish, Causal!Next
  <2>3. CASE ~Swing
    <3>1. Swung' = Swung
      BY <1>1, <2>3, SwungIsFrame DEF WriterStep, Claim, Fill, Open, Announce, Swung, IInv
    <3> QED
      BY <2>1, <3>1 DEF Causal!causalVars
  <2> QED
    BY <2>2, <2>3
<1>2. ASSUME NEW r \in Readers, ReaderStep(r)
      PROVE  [Causal!Next]_(Causal!causalVars)
  <2>1. UNCHANGED writerVars
    BY <1>2 DEF ReaderStep, CheckPublished, LoadActive, Register, Retry, Recheck, Leave,
                Release
  <2>2. Swung' = Swung /\ rview[r] \in Views /\ rview'[r] \in Views /\ ReaderOK(r)
    BY <2>1, ReaderFrame DEF IInv, TypeOK
  <2>3. rview'[r].active <= Swung
    BY <2>2 DEF IInv, ReaderOK, Sane
  <2>4. CASE /\ UNCHANGED answers /\ rview'[r].active >= rview[r].active
             /\ \E v : rview' = [rview EXCEPT ![r] = v]
    <3>1. rview' = [rview EXCEPT ![r] = rview'[r]]
      BY <2>4 DEF IInv, TypeOK
    <3>2. Causal!Learn(r)
      BY <2>1, <2>2, <2>3, <2>4, <3>1, ReaderLearns
    <3> QED
      BY <3>2 DEF Causal!Next
  <2>5. CASE CheckPublished(r)
    <3>1. PICK n \in rview[r].published .. Announced :
              /\ rview' = [rview EXCEPT ![r] =
                              Join([rview[r] EXCEPT !.published = n], publishedMsg[n])]
              /\ answers' = IF n = 0
                              THEN [answers EXCEPT ![r] = Append(@, Unavailable)]
                              ELSE answers
      BY <2>5 DEF CheckPublished, CheckOrder, AcquireView
    <3>2. n \in Nat /\ n <= Announced /\ rview[r].published <= n
      BY <2>2, <3>1, FieldsOfViews, SwungIsFrame DEF IInv
    <3>3. n \in Frames /\ publishedMsg[n] \in Views /\ publishedMsg[n].active = n
      BY <3>2, MessagesAreSane
    <3>4. /\ [rview[r] EXCEPT !.published = n] \in Views
          /\ [rview[r] EXCEPT !.published = n].active = rview[r].active
      BY <2>2, <3>3 DEF Views
    <3>5. /\ rview'[r] = Join([rview[r] EXCEPT !.published = n], publishedMsg[n])
          /\ rview'[r].active >= rview[r].active
          /\ rview'[r].active \in {rview[r].active, n}
      BY <3>1, <3>3, <3>4, JoinKnowsBoth DEF IInv, TypeOK
    <3>6. CASE n = 0
      <4>1. rview[r].published = 0 /\ rview[r].active = 0
        BY <2>2, <3>2, <3>6, FieldsOfViews DEF ReaderOK, Sane
      <4>2. rview'[r].active = 0
        BY <3>5, <3>6, <4>1
      <4>3. known' = known
        BY <3>1, <4>1, <4>2 DEF known, IInv, TypeOK
      <4>4. Causal!Refuse(r)
        BY <2>2, <3>1, <3>6, <4>1, <4>3 DEF Causal!Refuse, Causal!Unavailable, Unavailable,
                                            known
      <4> QED
        BY <4>4 DEF Causal!Next
    <3>7. CASE n # 0
      BY <2>4, <3>1, <3>5, <3>7
    <3> QED
      BY <3>6, <3>7
  <2>6. CASE LoadActive(r) \/ Recheck(r)
    <3>1. PICK n \in rview[r].active .. Swung :
              rview' = [rview EXCEPT ![r] =
                           Join([rview[r] EXCEPT !.active = n], activeMsg[n])]
      BY <2>6 DEF LoadActive, Recheck, LoadOrder, RecheckOrder, AcquireView
    <3>2. rpc[r] # "idle" /\ UNCHANGED answers
      BY <2>6 DEF LoadActive, Recheck, Goto
    <3>3. rview[r].published > 0
      BY <2>2, <3>2 DEF ReaderOK
    <3>4. /\ rview'[r] = Join([rview[r] EXCEPT !.active = n], activeMsg[n])
          /\ rview'[r].active = n /\ rview[r].active <= n
      BY <3>1, <3>3, ActiveRead DEF IInv, TypeOK
    <3>5. rview'[r].active >= rview[r].active
      BY <2>2, <3>4, FieldsOfViews
    <3> QED
      BY <2>4, <3>1, <3>2, <3>5
  <2>7. CASE Register(r)
    <3>1. /\ rview' = [rview EXCEPT ![r] = Join(rview[r], users[slot[r]].view)]
          /\ UNCHANGED answers
      BY <2>7 DEF Register, RegisterOrder, AcquireView
    <3>2. users[slot[r]].view \in Views
      BY DEF IInv, TypeOK
    <3>3. rview'[r].active >= rview[r].active
      BY <2>2, <3>1, <3>2, JoinKnowsBoth DEF IInv, TypeOK
    <3> QED
      BY <2>4, <3>1, <3>3
  <2>8. CASE Retry(r) \/ Leave(r)
    BY <2>2, <2>8 DEF Retry, Leave, Causal!causalVars
  <2>9. CASE Release(r)
    <3>1. /\ rview' = [rview EXCEPT ![r].copies[r] = Len(answers[r]) + 1]
          /\ answers' = [answers EXCEPT ![r] = Append(@, Content(slot[r]))]
          /\ rpc[r] = "copy"
      BY <2>9 DEF Release, Goto
    <3>2. Content(slot[r]) = rview[r].active /\ rview[r].active > 0
      BY <3>1, ReleasedFrame
    <3>3. known' = known /\ known[r] = rview[r].active
      BY <3>1 DEF known, IInv, TypeOK, Views
    <3>4. rview[r].active \in known[r] .. Swung
      BY <2>2, <3>3, SwungIsFrame, FieldsOfViews DEF IInv, ReaderOK, Sane
    <3>5. known = [known EXCEPT ![r] = rview[r].active]
      BY <3>3 DEF known
    <3>6. answers' = [answers EXCEPT ![r] = Append(@, rview[r].active)]
      BY <3>1, <3>2
    <3>7. Causal!Answer(r)
      BY <2>2, <3>2, <3>3, <3>4, <3>5, <3>6 DEF Causal!Answer, known
    <3> QED
      BY <3>7 DEF Causal!Next
  <2> QED
    BY <1>2, <2>5, <2>6, <2>7, <2>8, <2>9 DEF ReaderStep
<1>3. ASSUME NEW q \in Readers, NEW r \in Readers, Tell(q, r)
      PROVE  [Causal!Next]_(Causal!causalVars)
  <2>1. /\ rview' = [rview EXCEPT ![r] = Join(rview[r], rview[q])]
        /\ UNCHANGED <<writerVars, answers>>
    BY <1>3 DEF Tell
  <2>2. Swung' = Swung /\ rview[q] \in Views /\ rview[r] \in Views
    BY <2>1, ReaderFrame DEF IInv, TypeOK
  <2>3. Join(rview[r], rview[q]).active
            = IF known[q] > known[r] THEN known[q] ELSE known[r]
    BY <2>2, JoinIsView, FieldsOfViews DEF known, Later
  <2>4. known' = [known EXCEPT ![r] = IF known[q] > known[r] THEN known[q] ELSE known[r]]
    BY <2>1, <2>3 DEF known, IInv, TypeOK
  <2>5. Causal!Tell(q, r)
    BY <2>1, <2>2, <2>4 DEF Causal!Tell, known
  <2> QED
    BY <2>5 DEF Causal!Next
<1>4. CASE UNCHANGED vars
  BY <1>4 DEF vars, writerVars, Causal!causalVars, Swung
<1> QED
  BY <1>1, <1>2, <1>3, <1>4 DEF Next

\* The reads are causal on the orders the code names: a call never takes its thread
\* back to a frame older than one it knows, nor refuses what it knows to be there.
THEOREM ReadsCausal == Spec => ReadsAreCausal
<1>1. Init => Causal!Init
  BY OrdersAssumption DEF Init, Causal!Init, Swung, Nothing
<1>2. IInv /\ IInv' /\ [Next]_vars => [Causal!Next]_(Causal!causalVars)
  BY StepIsCausal
<1> QED
  BY <1>1, <1>2, Inductive, PTL DEF Spec, ReadsAreCausal, Causal!Spec

-----------------------------------------------------------------------------
(* What that is worth to one host thread.                                     *)

\* The answers of a thread never go back: each is a frame that has been published or
\* Unavailable (-1), and none is followed by an older one, so that Unavailable follows
\* no frame.
AnswersInOrder ==
    \A r \in Readers : \A j \in DOMAIN answers[r] :
        /\ answers[r][j] <= Swung
        /\ \A i \in 1 .. j : answers[r][i] <= answers[r][j]

\* What makes it inductive: no answer is newer than what its thread knows.
KnownInOrder ==
    /\ AnswersInOrder
    /\ \A r \in Readers : \A j \in DOMAIN answers[r] :
          answers[r][j] # 0 /\ answers[r][j] <= known[r]

Answerable == Frames \cup {Unavailable}

LEMMA AnswerTypes ==
    ASSUME IInv, NEW r \in Readers
    PROVE  /\ known[r] \in Nat /\ known[r] <= Swung /\ Swung \in Nat
           /\ answers[r] \in Seq(Answerable)
<1>1. known[r] = rview[r].active /\ rview[r] \in Views
  BY DEF known, IInv, TypeOK
<1>2. answers[r] \in Seq(Answerable)
  BY DEF IInv, TypeOK, Answerable
<1> QED
  BY <1>1, <1>2, FieldsOfViews, SwungIsFrame DEF IInv, ReaderOK, Sane

LEMMA AnswerIsInt == \A n \in Answerable : n \in Int /\ (n = -1 \/ n >= 0)
BY OrdersAssumption DEF Answerable, Frames, Unavailable

LEMMA Appended ==
    ASSUME NEW S, NEW s \in Seq(S), NEW n \in S
    PROVE  /\ Len(s) \in Nat /\ DOMAIN s = 1 .. Len(s)
           /\ \A i \in 1 .. Len(s) : s[i] \in S /\ Append(s, n)[i] = s[i]
           /\ DOMAIN Append(s, n) = 1 .. Len(s) + 1
           /\ Append(s, n)[Len(s) + 1] = n
OBVIOUS

\* An answer no older than the ones before it is in order.
LEMMA AppendInOrder ==
    ASSUME IInv, KnownInOrder, NEW r \in Readers, NEW n \in Answerable, n # 0,
           answers' = [answers EXCEPT ![r] = Append(@, n)],
           \A j \in DOMAIN answers[r] : answers[r][j] <= n,
           Swung' = Swung, NEW m \in Nat, n <= m, known[r] <= m, m <= Swung,
           known' = [known EXCEPT ![r] = m]
    PROVE  KnownInOrder'
<1> SUFFICES ASSUME NEW q \in Readers, NEW j \in DOMAIN answers'[q]
             PROVE  /\ answers'[q][j] <= Swung
                    /\ \A i \in 1 .. j : answers'[q][i] <= answers'[q][j]
                    /\ answers'[q][j] # 0 /\ answers'[q][j] <= known'[q]
  BY DEF KnownInOrder, AnswersInOrder
<1>1. /\ \A p \in Readers \ {r} : answers'[p] = answers[p] /\ known'[p] = known[p]
      /\ answers'[r] = Append(answers[r], n) /\ known'[r] = m
  BY DEF IInv, TypeOK, known
<1>2. CASE q # r
  BY <1>1, <1>2 DEF KnownInOrder, AnswersInOrder
<1>3. CASE q = r
  <2> DEFINE before == answers[r]
             last == Len(before) + 1
  <2>1. /\ Len(before) \in Nat /\ DOMAIN before = 1 .. Len(before)
        /\ DOMAIN answers'[r] = 1 .. last
        /\ answers'[r][last] = n
        /\ \A i \in 1 .. Len(before) :
              before[i] \in Answerable /\ answers'[r][i] = before[i]
    BY <1>1, AnswerTypes, Appended
  <2>2. /\ n \in Int /\ Swung \in Nat /\ known[r] \in Nat
        /\ \A i \in 1 .. Len(before) : before[i] \in Int
    BY <2>1, AnswerTypes, AnswerIsInt
  <2>3. \A i \in 1 .. Len(before) :
            /\ before[i] <= n /\ before[i] # 0 /\ before[i] <= known[r]
            /\ before[i] <= Swung
            /\ \A k \in 1 .. i : before[k] <= before[i]
    BY <2>1 DEF KnownInOrder, AnswersInOrder
  <2> HIDE DEF before
  <2>4. CASE j = last
    <3>1. \A i \in 1 .. j : answers'[r][i] <= n
      BY <2>1, <2>2, <2>3, <2>4
    <3> QED
      BY <1>1, <1>3, <2>1, <2>2, <2>4, <3>1
  <2>5. CASE j \in 1 .. Len(before)
    <3>1. \A i \in 1 .. j : answers'[r][i] <= answers'[r][j]
      BY <2>1, <2>2, <2>3, <2>5
    <3> QED
      BY <1>1, <1>3, <2>1, <2>2, <2>3, <2>5, <3>1
  <2> QED
    BY <1>3, <2>1, <2>4, <2>5
<1> QED
  BY <1>2, <1>3

LEMMA StepInOrder ==
    ASSUME IInv, IInv', KnownInOrder, [Causal!Next]_(Causal!causalVars)
    PROVE  KnownInOrder'
<1>1. known = [r \in Readers |-> known[r]] /\ \A r \in Readers : known[r] \in Nat
  BY AnswerTypes DEF known
<1>2. /\ \A r \in Readers : \A j \in DOMAIN answers[r] :
            answers[r][j] \in Answerable /\ answers[r][j] \in Int
      /\ Swung \in Nat
  <2>1. ASSUME NEW r \in Readers, NEW j \in DOMAIN answers[r]
        PROVE  answers[r][j] \in Answerable
    <3>1. answers[r] \in Seq(Answerable)
      BY AnswerTypes
    <3> QED
      BY <3>1
  <2>2. Swung \in Nat
    BY SwungIsFrame DEF IInv
  <2> QED
    BY <2>1, <2>2, AnswerIsInt
<1>3. ASSUME UNCHANGED answers, Swung' \in {Swung, Swung + 1},
             \A r \in Readers : known'[r] \in Nat /\ known'[r] >= known[r]
      PROVE  KnownInOrder'
  BY <1>1, <1>2, <1>3 DEF KnownInOrder, AnswersInOrder
<1>4. CASE UNCHANGED Causal!causalVars
  BY <1>1, <1>2, <1>3, <1>4 DEF Causal!causalVars, known
<1>5. CASE Causal!Publish
  BY <1>1, <1>2, <1>3, <1>5 DEF Causal!Publish, known
<1>6. ASSUME NEW r \in Readers, Causal!Learn(r) PROVE KnownInOrder'
  <2>1. PICK n \in known[r] .. Swung : known' = [known EXCEPT ![r] = n]
    BY <1>6 DEF Causal!Learn, known
  <2>2. UNCHANGED answers /\ Swung' = Swung
    BY <1>6 DEF Causal!Learn
  <2>3. \A p \in Readers : known'[p] \in Nat /\ known'[p] >= known[p]
    BY <1>1, <1>2, <2>1
  <2> QED
    BY <1>2, <1>3, <2>2, <2>3
<1>7. ASSUME NEW r \in Readers, Causal!Answer(r) PROVE KnownInOrder'
  <2>1. PICK n \in known[r] .. Swung :
            /\ n > 0
            /\ known' = [known EXCEPT ![r] = n]
            /\ answers' = [answers EXCEPT ![r] = Append(@, n)]
    BY <1>7 DEF Causal!Answer, known
  <2>2. n \in Answerable /\ n # 0 /\ n \in Nat /\ n <= Swung /\ known[r] <= n /\ n <= n
    BY <1>1, <1>2, <2>1, SwungIsFrame, OrdersAssumption DEF Answerable, Frames, IInv
  <2>3. \A j \in DOMAIN answers[r] : answers[r][j] <= n
    BY <1>1, <1>2, <2>2 DEF KnownInOrder
  <2>4. Swung' = Swung
    BY <1>7 DEF Causal!Answer
  <2> QED
    BY <2>1, <2>2, <2>3, <2>4, AppendInOrder, Zenon
<1>8. ASSUME NEW r \in Readers, Causal!Refuse(r) PROVE KnownInOrder'
  <2>1. /\ known[r] = 0 /\ known' = known /\ Swung' = Swung
        /\ answers' = [answers EXCEPT ![r] = Append(@, Unavailable)]
    BY <1>8 DEF Causal!Refuse, Causal!Unavailable, Unavailable, known
  <2>2. \A j \in DOMAIN answers[r] : answers[r][j] <= Unavailable
    BY <1>2, <2>1, AnswerIsInt DEF KnownInOrder, Unavailable
  <2>3. known' = [known EXCEPT ![r] = 0]
    BY <1>1, <2>1
  <2>4. /\ Unavailable \in Answerable /\ Unavailable # 0 /\ Unavailable <= 0
        /\ 0 \in Nat /\ known[r] <= 0 /\ 0 <= Swung
    BY <1>2, <2>1 DEF Answerable, Unavailable
  <2> QED
    BY <2>1, <2>2, <2>3, <2>4, AppendInOrder, Zenon
<1>9. ASSUME NEW q \in Readers, NEW r \in Readers, Causal!Tell(q, r) PROVE KnownInOrder'
  <2>1. /\ known' = [known EXCEPT ![r] = IF known[q] > @ THEN known[q] ELSE @]
        /\ UNCHANGED answers /\ Swung' = Swung
    BY <1>9 DEF Causal!Tell, known
  <2>2. \A p \in Readers : known'[p] \in Nat /\ known'[p] >= known[p]
    BY <1>1, <2>1
  <2> QED
    BY <1>2, <1>3, <2>1, <2>2
<1> QED
  BY <1>4, <1>5, <1>6, <1>7, <1>8, <1>9 DEF Causal!Next

\* Whatever the stores a host thread's loads return, as long as the orders the code names
\* hold, its calls see the game go forward and never lose it again.
THEOREM AnswersNeverGoBack == Spec => []AnswersInOrder
<1>1. Init => KnownInOrder
  BY DEF Init, KnownInOrder, AnswersInOrder
<1>2. KnownInOrder /\ IInv /\ IInv' /\ [Next]_vars => KnownInOrder'
  BY StepIsCausal, StepInOrder
<1>3. KnownInOrder => AnswersInOrder
  BY DEF KnownInOrder
<1> QED
  BY <1>1, <1>2, <1>3, Inductive, PTL DEF Spec
=============================================================================

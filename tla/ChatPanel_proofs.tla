-------------------------- MODULE ChatPanel_proofs --------------------------
(***************************************************************************)
(* What the chat panel keeps, for any merchants, sessions, questions and   *)
(* number of requests on their way.                                        *)
(***************************************************************************)
EXTENDS ChatPanel, SequenceTheorems, TLAPS

LEMMA RemoveAtProperties ==
    ASSUME NEW S, NEW s \in Seq(S), NEW i \in 1..Len(s)
    PROVE  /\ RemoveAt(s, i) \in Seq(S)
           /\ Len(RemoveAt(s, i)) = Len(s) - 1
           /\ \A k \in 1..(Len(s) - 1) : RemoveAt(s, i)[k] = IF k < i THEN s[k] ELSE s[k + 1]
<1> DEFINE l == SubSeq(s, 1, i - 1)
           r == SubSeq(s, i + 1, Len(s))
<1>1. Len(s) \in Nat /\ \A k \in 1..Len(s) : s[k] \in S
  BY LenProperties, ElementOfSeq
<1>2. l \in Seq(S) /\ Len(l) = i - 1 /\ \A k \in 1..(i - 1) : l[k] = s[k]
  <2>1. \A k \in 1..(i - 1) : s[k] \in S
    BY <1>1
  <2> QED BY <1>1, <2>1, SubSeqProperties
<1>3. r \in Seq(S) /\ Len(r) = Len(s) - i /\ \A k \in 1..(Len(s) - i) : r[k] = s[i + k]
  <2>1. \A k \in (i + 1)..Len(s) : s[k] \in S
    BY <1>1
  <2>2. /\ r \in Seq(S)
        /\ Len(r) = IF i + 1 <= Len(s) THEN Len(s) - (i + 1) + 1 ELSE 0
        /\ \A k \in 1..(Len(s) - (i + 1) + 1) : r[k] = s[(i + 1) + k - 1]
    BY <1>1, <2>1, SubSeqProperties
  <2> QED BY <1>1, <2>2
<1>4. /\ l \o r \in Seq(S) /\ Len(l \o r) = Len(l) + Len(r)
      /\ \A k \in 1..(Len(l) + Len(r)) : (l \o r)[k] = IF k <= Len(l) THEN l[k] ELSE r[k - Len(l)]
  BY <1>2, <1>3, ConcatProperties
<1>5. RemoveAt(s, i) = l \o r
  BY DEF RemoveAt
<1> HIDE DEF l, r
<1>6. ASSUME NEW k \in 1..(Len(s) - 1)
      PROVE  (l \o r)[k] = IF k < i THEN s[k] ELSE s[k + 1]
  <2>1. k \in Nat /\ i \in Nat /\ Len(s) \in Nat /\ 1 <= k /\ k <= Len(s) - 1 /\ i <= Len(s) /\ 1 <= i
    BY <1>1
  <2>2. (l \o r)[k] = IF k <= i - 1 THEN l[k] ELSE r[k - (i - 1)]
    BY <1>2, <1>3, <1>4, <2>1
  <2>3. CASE k < i
    <3>1. k \in 1..(i - 1)
      BY <2>1, <2>3
    <3> QED BY <1>2, <2>1, <2>2, <2>3, <3>1
  <2>4. CASE ~(k < i)
    <3>1. k - (i - 1) \in 1..(Len(s) - i) /\ i + (k - (i - 1)) = k + 1 /\ ~(k <= i - 1)
      BY <2>1, <2>4
    <3>2. r[k - (i - 1)] = s[k + 1]
      BY <1>3, <3>1
    <3> QED BY <2>2, <2>4, <3>1, <3>2
  <2> QED BY <2>3, <2>4
<1> QED BY <1>1, <1>2, <1>3, <1>4, <1>5, <1>6

(***************************************************************************)
(* Where a request is once the i-th one has left.                          *)
(***************************************************************************)
Place(k, i) == IF k < i THEN k ELSE k - 1

Kept(s, t, i) == \A k \in DOMAIN s : k # i => Place(k, i) \in DOMAIN t /\ t[Place(k, i)] = s[k]

From(s, t, i) == \A j \in DOMAIN t : \E k \in DOMAIN s : k # i /\ j = Place(k, i)

LEMMA Removal ==
    ASSUME NEW S, NEW s \in Seq(S), NEW i \in DOMAIN s, NEW t, t = RemoveAt(s, i)
    PROVE  t \in Seq(S) /\ Kept(s, t, i) /\ From(s, t, i)
<1>1. i \in 1..Len(s) /\ Len(s) \in Nat /\ DOMAIN s = 1..Len(s)
  BY LenProperties
<1>2. /\ t \in Seq(S) /\ Len(t) = Len(s) - 1
      /\ \A k \in 1..(Len(s) - 1) : t[k] = IF k < i THEN s[k] ELSE s[k + 1]
  BY <1>1, RemoveAtProperties
<1>3. DOMAIN t = 1..(Len(s) - 1)
  BY <1>2, LenProperties
<1>4. Kept(s, t, i)
  <2> SUFFICES ASSUME NEW k \in 1..Len(s), k # i
               PROVE  Place(k, i) \in 1..(Len(s) - 1) /\ t[Place(k, i)] = s[k]
    BY <1>1, <1>3 DEF Kept
  <2>1. CASE k < i
    <3>1. Place(k, i) = k /\ k \in 1..(Len(s) - 1)
      BY <1>1, <2>1 DEF Place
    <3> QED BY <1>2, <2>1, <3>1
  <2>2. CASE k > i
    <3>1. Place(k, i) = k - 1 /\ k - 1 \in 1..(Len(s) - 1) /\ ~(k - 1 < i) /\ (k - 1) + 1 = k
      BY <1>1, <2>2 DEF Place
    <3> QED BY <1>2, <3>1
  <2> QED BY <1>1, <2>1, <2>2
<1>5. From(s, t, i)
  <2> SUFFICES ASSUME NEW j \in 1..(Len(s) - 1) PROVE \E k \in 1..Len(s) : k # i /\ j = Place(k, i)
    BY <1>1, <1>3 DEF From
  <2>1. CASE j < i
    <3>1. j \in 1..Len(s) /\ j # i /\ j = Place(j, i)
      BY <1>1, <2>1 DEF Place
    <3> QED BY <3>1
  <2>2. CASE ~(j < i)
    <3>1. j + 1 \in 1..Len(s) /\ j + 1 # i /\ j = Place(j + 1, i)
      BY <1>1, <2>2 DEF Place
    <3> QED BY <3>1
  <2> QED BY <2>1, <2>2
<1> QED BY <1>2, <1>4, <1>5
-----------------------------------------------------------------------------
LEMMA Bounds == MaxTurns \in Nat /\ MaxWait \in Nat /\ MaxPages \in Nat \ {0} /\ MaxClicks \in Nat
BY PanelConfig

LEMMA RequestTypes ==
    ASSUME NEW m \in Merchants, NEW o \in BOOLEAN, NEW s \in Sessions \cup {None}
    PROVE  /\ Request("create", m, None, 0) \in Requests
           /\ SessionsOf(m, o) \in Seq(Requests)
           /\ Messages(m, s) \in Seq(Requests)
           /\ SessionsOf(m, o) \o Messages(m, s) \in Seq(Requests)
<1>0. <<>> \in Seq(Requests)
  BY EmptySeq
<1>1. Request("create", m, None, 0) \in Requests /\ Request("sessions", m, None, 0) \in Requests
  BY DEF Request, Requests
<1>2. ASSUME s # None PROVE Request("messages", m, s, 1) \in Requests
  BY <1>2, Bounds DEF Request, Requests
<1> HIDE DEF Requests
<1>3. <<Request("sessions", m, None, 0)>> \in Seq(Requests)
  BY <1>1
<1>4. ASSUME s # None PROVE <<Request("messages", m, s, 1)>> \in Seq(Requests)
  BY <1>2, <1>4
<1>5. SessionsOf(m, o) \in Seq(Requests) /\ Messages(m, s) \in Seq(Requests)
  BY <1>0, <1>3, <1>4 DEF SessionsOf, Messages
<1> QED BY <1>1, <1>5, ConcatProperties

LEMMA AskedTypes ==
    ASSUME TypeOK
    PROVE  /\ DOMAIN asked = 1..Len(asked) /\ Len(asked) \in Nat
           /\ \A i \in DOMAIN asked :
                  /\ asked[i] \in Requests /\ asked[i].merchant \in Merchants
                  /\ HasMessages(asked[i]) => asked[i].session \in Sessions /\ asked[i].page \in 1..MaxPages
<1>1. asked \in Seq(Requests)
  BY DEF TypeOK
<1>2. DOMAIN asked = 1..Len(asked) /\ Len(asked) \in Nat
  BY <1>1, LenProperties
<1>3. \A i \in DOMAIN asked : asked[i] \in Requests
  BY <1>1, <1>2, ElementOfSeq
<1> QED BY <1>2, <1>3 DEF Requests, HasMessages

LEMMA AskTypes ==
    ASSUME TypeOK, NEW more \in Seq(Requests), Ask(more) PROVE asked' \in Seq(Requests)
BY ConcatProperties DEF TypeOK, Ask

LEMMA ExchangeTypes ==
    ASSUME TypeOK, NEW i \in DOMAIN asked, NEW more \in Seq(Requests), Exchange(i, more)
    PROVE  asked' \in Seq(Requests) /\ overtaken' \in BOOLEAN
<1>1. asked \in Seq(Requests) /\ overtaken \in BOOLEAN /\ Overtakes(i) \in BOOLEAN
  BY DEF TypeOK, Overtakes, HasMessages
<1>2. RemoveAt(asked, i) \in Seq(Requests)
  BY <1>1, Removal
<1>3. asked' \in Seq(Requests)
  BY <1>2, ConcatProperties DEF Exchange
<1> QED BY <1>1, <1>3 DEF Exchange

\* The messages after each of the steps that change them.
LEMMA ShownSteps ==
    ASSUME NEW x \in Messagings, NEW v
    PROVE  /\ [x EXCEPT !.unanswered = @ \ {v}] \in Messagings
           /\ [x EXCEPT !.of = {}, !.unanswered = {}] \in Messagings
           /\ \A n \in Turns, s \in Sessions :
                  [x EXCEPT !.of = @ \cup {s}, !.unanswered = @ \cup {n}] \in Messagings
BY DEF Messagings

LEMMA OlderTypes ==
    ASSUME NEW x \in Messagings, NEW s \in Sessions, NEW p \in 1..MaxPages, NEW b \in BOOLEAN
    PROVE  [x EXCEPT !.of = @ \cup {s}, !.page = p, !.more = b] \in Messagings
BY DEF Messagings

LEMMA BusySteps ==
    ASSUME NEW x \in Busies, NEW b \in BOOLEAN
    PROVE  [x EXCEPT !.loading = b] \in Busies /\ [x EXCEPT !.creating = b] \in Busies
BY DEF Busies

LEMMA TypeInit == ASSUME Init PROVE TypeOK
<1>1. asked \in Seq(Requests)
  BY EmptySeq DEF Init
<1>2. clicks \in 0..MaxClicks /\ 1 \in 1..MaxPages
  BY Bounds DEF Init
<1> QED BY <1>1, <1>2 DEF Init, TypeOK, Messagings, Busies

\* What every state has, without the definition of TypeOK.
LEMMA Parts ==
    ASSUME TypeOK
    PROVE  /\ merchant \in Merchants /\ owner \in [Sessions -> Merchants \cup {None}]
           /\ open \in BOOLEAN /\ listed \subseteq Sessions /\ session \in Sessions \cup {None}
           /\ shown \in Messagings /\ busy \in Busies /\ busy.loading \in BOOLEAN
           /\ stream \in Turns \cup {0} /\ turns \in Turns \cup {0} /\ error \in Waits \cup {None}
           /\ asked \in Seq(Requests) /\ overtaken \in BOOLEAN /\ clicks \in 0..MaxClicks
           /\ Click => clicks' \in 0..MaxClicks
           /\ shown.page \in 1..MaxPages
<1>1. Click => clicks' \in 0..MaxClicks
  BY Bounds DEF TypeOK, Click
<1> QED BY <1>1 DEF TypeOK, Messagings, Busies

LEMMA UserTypes == ASSUME TypeOK, User PROVE TypeOK'
<1> USE Parts
<1>1. ASSUME Open PROVE TypeOK'
  <2>1. asked' \in Seq(Requests) /\ busy' \in Busies
    BY <1>1, RequestTypes, AskTypes, BusySteps DEF Open
  <2> QED BY <1>1, <2>1 DEF Open, TypeOK
<1>2. ASSUME Close PROVE TypeOK'
  BY <1>2 DEF Close, TypeOK
<1>3. ASSUME NEW m \in Merchants, SwitchMerchant(m) PROVE TypeOK'
  <2>1. asked' \in Seq(Requests)
    BY <1>3, RequestTypes, AskTypes DEF SwitchMerchant
  <2>2. (busy.loading \/ open) \in BOOLEAN
    OBVIOUS
  <2>3. busy' \in Busies
    BY <1>3, <2>2, BusySteps DEF SwitchMerchant
  <2> QED BY <1>3, <2>1, <2>3 DEF SwitchMerchant, TypeOK
<1>4. ASSUME NEW s \in Sessions, Select(s) PROVE TypeOK'
  <2>1. asked' \in Seq(Requests)
    BY <1>4, RequestTypes, AskTypes DEF Select
  <2> QED BY <1>4, <2>1 DEF Select, TypeOK
<1>5. ASSUME Create PROVE TypeOK'
  <2>0. Request("create", merchant, None, 0) \in Requests
    BY RequestTypes
  <2>1. <<Request("create", merchant, None, 0)>> \in Seq(Requests)
    BY <2>0
  <2>2. asked' \in Seq(Requests) /\ busy' \in Busies
    BY <1>5, <2>1, AskTypes, BusySteps DEF Create
  <2> QED BY <1>5, <2>2 DEF Create, TypeOK
<1>6. ASSUME LoadOlder PROVE TypeOK'
  <2>0. session \in Sessions /\ shown.page + 1 \in 1..MaxPages
    BY <1>6, Bounds DEF LoadOlder
  <2>1. Request("older", merchant, session, shown.page + 1) \in Requests
    BY <2>0 DEF Request, Requests
  <2>2. <<Request("older", merchant, session, shown.page + 1)>> \in Seq(Requests)
    BY <2>1
  <2>3. asked' \in Seq(Requests)
    BY <1>6, <2>2, AskTypes DEF LoadOlder
  <2> QED BY <1>6, <2>3 DEF LoadOlder, TypeOK
<1>7. ASSUME Send PROVE TypeOK'
  <2>1. session \in Sessions /\ turns + 1 \in Turns
    BY <1>7, Bounds DEF Send, MaySend, Turns
  <2>2. shown' \in Messagings
    BY <1>7, <2>1, ShownSteps DEF Send, Question
  <2> QED BY <1>7, <2>1, <2>2 DEF Send, Question, TypeOK
<1>8. ASSUME Abort PROVE TypeOK'
  <2>1. shown' \in Messagings
    BY <1>8, ShownSteps DEF Abort, WithoutAnswer
  <2> QED BY <1>8, <2>1 DEF Abort, TypeOK
<1> QED BY <1>1, <1>2, <1>3, <1>4, <1>5, <1>6, <1>7, <1>8 DEF User, Retry

LEMMA AnswerTypes == ASSUME TypeOK, NEW i \in DOMAIN asked, Answer(i) PROVE TypeOK'
<1> USE Parts
<1>0. /\ <<>> \in Seq(Requests) /\ asked[i].merchant \in Merchants
      /\ HasMessages(asked[i]) => asked[i].session \in Sessions /\ asked[i].page \in 1..MaxPages
  BY EmptySeq, AskedTypes
<1>1. CASE AnswerSessions(i)
  <2>1. session' \in Sessions \cup {None} /\ listed' \subseteq Sessions
    BY <1>1 DEF AnswerSessions, Chosen, ServerSessions
  <2>2. (IF session' = session THEN <<>> ELSE Messages(merchant, session')) \in Seq(Requests)
    BY <1>0, <2>1, RequestTypes
  <2>3. asked' \in Seq(Requests) /\ overtaken' \in BOOLEAN
    BY <1>1, <2>2, ExchangeTypes DEF AnswerSessions
  <2>4. busy' \in Busies
    BY <1>1, BusySteps DEF AnswerSessions
  <2> QED BY <1>1, <2>1, <2>3, <2>4 DEF AnswerSessions, TypeOK
<1>2. CASE FailSessions(i)
  <2>1. asked' \in Seq(Requests) /\ overtaken' \in BOOLEAN
    BY <1>0, <1>2, ExchangeTypes DEF FailSessions
  <2>2. busy' \in Busies
    BY <1>2, BusySteps DEF FailSessions
  <2> QED BY <1>2, <2>1, <2>2 DEF FailSessions, TypeOK
<1>3. CASE AnswerCreate(i)
  <2>1. PICK s \in Sessions :
            /\ owner' = [owner EXCEPT ![s] = asked[i].merchant]
            /\ listed' = listed \cup {s} /\ session' = s
            /\ Exchange(i, Messages(merchant, s))
    BY <1>3 DEF AnswerCreate
  <2>2. Messages(merchant, s) \in Seq(Requests)
    BY RequestTypes
  <2>3. asked' \in Seq(Requests) /\ overtaken' \in BOOLEAN
    BY <2>1, <2>2, ExchangeTypes
  <2>4. shown' \in Messagings /\ busy' \in Busies
    BY <1>3, ShownSteps, BusySteps DEF AnswerCreate
  <2>5. owner' \in [Sessions -> Merchants \cup {None}] /\ listed' \subseteq Sessions
    BY <1>0, <2>1
  <2> QED BY <1>3, <2>1, <2>3, <2>4, <2>5 DEF AnswerCreate, TypeOK
<1>4. CASE FailCreate(i)
  <2>1. asked' \in Seq(Requests) /\ overtaken' \in BOOLEAN
    BY <1>0, <1>4, ExchangeTypes DEF FailCreate
  <2>2. busy' \in Busies
    BY <1>4, BusySteps DEF FailCreate
  <2> QED BY <1>4, <2>1, <2>2 DEF FailCreate, TypeOK
<1>5. CASE AnswerMessages(i)
  <2>1. asked' \in Seq(Requests) /\ overtaken' \in BOOLEAN
    BY <1>0, <1>5, ExchangeTypes DEF AnswerMessages
  <2>2. shown' \in Messagings
    BY <1>0, <1>5, Bounds DEF AnswerMessages, HasMessages, Messagings
  <2> QED BY <1>5, <2>1, <2>2 DEF AnswerMessages, TypeOK
<1>6. CASE FailMessages(i)
  <2>1. asked' \in Seq(Requests) /\ overtaken' \in BOOLEAN
    BY <1>0, <1>6, ExchangeTypes DEF FailMessages
  <2>2. shown' \in Messagings
    BY <1>6, ShownSteps DEF FailMessages, Emptied
  <2> QED BY <1>6, <2>1, <2>2 DEF FailMessages, TypeOK
<1>7. CASE AnswerOlder(i)
  <2>1. asked' \in Seq(Requests) /\ overtaken' \in BOOLEAN
    BY <1>0, <1>7, ExchangeTypes DEF AnswerOlder
  <2>2. shown' \in Messagings
    <3>1. asked[i].session \in Sessions /\ asked[i].page \in 1..MaxPages
      BY <1>0, <1>7 DEF AnswerOlder, HasMessages
    <3>2. PICK more \in BOOLEAN :
              shown' = [shown EXCEPT !.of = @ \cup {asked[i].session}, !.page = asked[i].page, !.more = more]
      BY <1>7 DEF AnswerOlder
    <3>3. shown \in Messagings
      OBVIOUS
    <3> HIDE Parts
    <3> QED BY <3>1, <3>2, <3>3, OlderTypes
  <2> QED BY <1>7, <2>1, <2>2 DEF AnswerOlder, TypeOK
<1>8. CASE FailOlder(i)
  <2>1. asked' \in Seq(Requests) /\ overtaken' \in BOOLEAN
    BY <1>0, <1>8, ExchangeTypes DEF FailOlder
  <2> QED BY <1>8, <2>1 DEF FailOlder, TypeOK
<1> QED BY <1>1, <1>2, <1>3, <1>4, <1>5, <1>6, <1>7, <1>8 DEF Answer

LEMMA TypeStep == ASSUME TypeOK, [Next]_vars PROVE TypeOK'
<1>1. CASE User BY <1>1, UserTypes
<1>2. CASE CountDown
  <2>1. error \in Waits /\ error > 0
    BY <1>2, Parts DEF CountDown
  <2>2. error - 1 \in Waits
    BY <2>1, Bounds DEF Waits
  <2> QED BY <1>2, <2>2 DEF CountDown, TypeOK
<1>3. CASE StreamEnds
  <2>1. shown' \in Messagings
    BY <1>3, Parts, ShownSteps DEF StreamEnds
  <2>2. blank' \subseteq Turns
    BY <1>3 DEF StreamEnds, TypeOK
  <2> QED BY <1>3, <2>1, <2>2 DEF StreamEnds, TypeOK
<1>4. CASE StreamFails
  <2>1. shown' \in Messagings
    BY <1>4, Parts, ShownSteps DEF StreamFails, WithoutAnswer
  <2> QED BY <1>4, <2>1 DEF StreamFails, TypeOK
<1>5. ASSUME NEW i \in DOMAIN asked, Answer(i) PROVE TypeOK'
  BY <1>5, AnswerTypes
<1>6. CASE UNCHANGED vars
  BY <1>6 DEF vars, TypeOK
<1> QED BY <1>1, <1>2, <1>3, <1>4, <1>5, <1>6 DEF Next

\* The panel keeps its types.
THEOREM TypeCorrect == Spec => []TypeOK
<1> QED BY TypeInit, TypeStep, PTL DEF Spec

(***************************************************************************)
(* No answer is empty but the one being streamed and those whose stream    *)
(* said nothing.  The invariant is inductive by itself: a question needs a *)
(* silent stream, under which it explains every empty answer by its own.   *)
(***************************************************************************)
LEMMA EmptyStep == ASSUME TypeOK, EmptyAnswerExplained, [Next]_vars PROVE EmptyAnswerExplained'
<1>0. stream \in Turns \cup {0} /\ turns \in Turns \cup {0} /\ shown \in Messagings
  BY Parts
<1>1. ASSUME UNCHANGED <<shown, stream, blank>> PROVE EmptyAnswerExplained'
  BY <1>1 DEF EmptyAnswerExplained
<1>2. ASSUME shown'.unanswered = {} PROVE EmptyAnswerExplained'
  BY <1>2 DEF EmptyAnswerExplained
<1>3. ASSUME shown'.unanswered = shown.unanswered, UNCHANGED <<stream, blank>> PROVE EmptyAnswerExplained'
  BY <1>3 DEF EmptyAnswerExplained
<1>4. ASSUME blank' = blank, shown'.unanswered = shown.unanswered \ {stream} PROVE EmptyAnswerExplained'
  BY <1>4 DEF EmptyAnswerExplained
<1>5. CASE Send
  <2>1. stream = 0 /\ stream' = turns + 1 /\ blank' = blank
    BY <1>5 DEF Send, MaySend, Question
  <2>2. shown.unanswered \subseteq blank
    <3>1. shown.unanswered \subseteq Turns /\ 0 \notin Turns
      BY <1>0 DEF Messagings, Turns
    <3> QED BY <2>1, <3>1 DEF EmptyAnswerExplained
  <2>3. shown' = [shown EXCEPT !.of = @ \cup {session}, !.unanswered = @ \cup {turns + 1}]
    BY <1>5 DEF Send, Question
  <2>4. shown'.unanswered = shown.unanswered \cup {turns + 1}
    BY <1>0, <2>3 DEF Messagings
  <2> QED BY <2>1, <2>2, <2>4 DEF EmptyAnswerExplained
<1>6. CASE User
  <2>1. CASE Abort
    BY <1>0, <1>4, <2>1 DEF Abort, WithoutAnswer, Messagings
  <2>2. ASSUME NEW m \in Merchants, SwitchMerchant(m) PROVE EmptyAnswerExplained'
    BY <1>1, <2>2 DEF SwitchMerchant
  <2>3. ASSUME NEW s \in Sessions, Select(s) PROVE EmptyAnswerExplained'
    BY <1>1, <2>3 DEF Select
  <2>4. CASE Open \/ Close \/ Create \/ LoadOlder
    BY <1>1, <2>4 DEF Open, Close, Create, LoadOlder
  <2> QED BY <1>5, <1>6, <2>1, <2>2, <2>3, <2>4 DEF User, Retry
<1>7. CASE StreamEnds \/ StreamFails
  <2>1. CASE blank' = blank \cup {stream} /\ shown' = shown
    BY <2>1 DEF EmptyAnswerExplained
  <2>2. CASE blank' = blank /\ shown' = [shown EXCEPT !.unanswered = @ \ {stream}]
    BY <1>0, <1>4, <2>2 DEF Messagings
  <2> QED BY <1>7, <2>1, <2>2 DEF StreamEnds, StreamFails, WithoutAnswer
<1>8. ASSUME NEW i \in DOMAIN asked, Answer(i) PROVE EmptyAnswerExplained'
  <2>1. CASE AnswerSessions(i) \/ FailSessions(i) \/ FailCreate(i) \/ FailOlder(i)
    BY <1>1, <2>1 DEF AnswerSessions, FailSessions, FailCreate, FailOlder
  <2>2. CASE AnswerCreate(i)
    BY <1>0, <1>2, <2>2 DEF AnswerCreate, Messagings
  <2>3. CASE AnswerMessages(i)
    BY <1>2, <2>3 DEF AnswerMessages
  <2>4. CASE FailMessages(i)
    BY <1>0, <1>2, <2>4 DEF FailMessages, Emptied, Messagings
  <2>5. CASE AnswerOlder(i)
    BY <1>0, <1>3, <2>5 DEF AnswerOlder, Messagings
  <2> QED BY <1>8, <2>1, <2>2, <2>3, <2>4, <2>5 DEF Answer
<1>9. CASE CountDown \/ UNCHANGED vars
  BY <1>1, <1>9 DEF CountDown, vars
<1> QED BY <1>6, <1>7, <1>8, <1>9 DEF Next

\* Whatever is answered when, an empty answer is the one being streamed, or its
\* stream ended well with nothing to say.
THEOREM EmptyAnswerCorrect == Spec => []EmptyAnswerExplained
<1>1. Init => EmptyAnswerExplained
  BY DEF Init, EmptyAnswerExplained
<1> QED BY <1>1, TypeCorrect, EmptyStep, PTL DEF Spec
(***************************************************************************)
(* The messages shown.  While nothing has been overtaken, every request    *)
(* for the messages of a session that is no longer selected is followed by *)
(* one for the selected session's, and so is whatever else is shown.       *)
(***************************************************************************)
IsFresh(q, x) == q.op = "messages" /\ q.session = x

Covered(s, x) ==
    \A k \in DOMAIN s : HasMessages(s[k]) /\ s[k].session # x
                            => \E j \in DOMAIN s : j > k /\ IsFresh(s[j], x)

Settled(s, x, of) == of \subseteq {x} \/ \E j \in DOMAIN s : IsFresh(s[j], x)

OrderInv == overtaken \/ (Covered(asked, session) /\ Settled(asked, session, shown.of))

\* A step that asks for nothing of another session, and shows nothing of one.
LEMMA AppendSame ==
    ASSUME NEW s \in Seq(Requests), NEW m \in Seq(Requests), NEW x, NEW of, NEW ofNext, NEW t,
           t = s \o m, \A k \in DOMAIN m : HasMessages(m[k]) => m[k].session = x,
           Covered(s, x), Settled(s, x, of), ofNext \subseteq of \cup {x}
    PROVE  Covered(t, x) /\ Settled(t, x, ofNext)
<1>1. /\ DOMAIN s = 1..Len(s) /\ DOMAIN m = 1..Len(m) /\ DOMAIN t = 1..(Len(s) + Len(m))
      /\ Len(s) \in Nat /\ Len(m) \in Nat
      /\ \A k \in 1..(Len(s) + Len(m)) : t[k] = IF k <= Len(s) THEN s[k] ELSE m[k - Len(s)]
  BY ConcatProperties, LenProperties
<1>2. \A k \in DOMAIN s : k \in DOMAIN t /\ t[k] = s[k]
  BY <1>1
<1>3. \A k \in DOMAIN t : k \in DOMAIN s \/ \E l \in DOMAIN m : t[k] = m[l]
  <2> SUFFICES ASSUME NEW k \in 1..(Len(s) + Len(m)), k \notin 1..Len(s)
               PROVE  \E l \in 1..Len(m) : t[k] = m[l]
    BY <1>1
  <2>1. k - Len(s) \in 1..Len(m) /\ ~(k <= Len(s))
    BY <1>1
  <2> QED BY <1>1, <2>1
<1>4. Covered(t, x)
  <2> SUFFICES ASSUME NEW k \in DOMAIN t, HasMessages(t[k]), t[k].session # x
               PROVE  \E j \in DOMAIN t : j > k /\ IsFresh(t[j], x)
    BY DEF Covered
  <2>1. k \in DOMAIN s
    BY <1>3
  <2>2. PICK j \in DOMAIN s : j > k /\ IsFresh(s[j], x)
    BY <1>2, <2>1 DEF Covered
  <2> QED BY <1>2, <2>2
<1>5. Settled(t, x, ofNext)
  BY <1>2 DEF Settled
<1> QED BY <1>4, <1>5

\* A step that selects a session and asks for its messages, last.
LEMMA AppendFresh ==
    ASSUME NEW s \in Seq(Requests), NEW q \in Requests, NEW x, NEW of, IsFresh(q, x), NEW t, t = Append(s, q)
    PROVE  Covered(t, x) /\ Settled(t, x, of)
<1>1. /\ Len(s) \in Nat /\ DOMAIN t = 1..(Len(s) + 1) /\ t[Len(s) + 1] = q
  BY AppendProperties, LenProperties
<1>2. Len(s) + 1 \in DOMAIN t /\ IsFresh(t[Len(s) + 1], x) /\ HasMessages(q) /\ q.session = x
  BY <1>1 DEF IsFresh, HasMessages
<1>3. Covered(t, x)
  <2> SUFFICES ASSUME NEW k \in DOMAIN t, HasMessages(t[k]), t[k].session # x
               PROVE  \E j \in DOMAIN t : j > k /\ IsFresh(t[j], x)
    BY DEF Covered
  <2>1. k # Len(s) + 1
    BY <1>1, <1>2
  <2>2. Len(s) + 1 > k
    BY <1>1, <2>1
  <2> QED BY <1>2, <2>2
<1> QED BY <1>2, <1>3 DEF Settled

\* An answer that overtakes nothing: what it shows is of the selected session,
\* or another answer will replace it.
LEMMA AnswerOvertakesNone ==
    ASSUME NEW s \in Seq(Requests), NEW i \in DOMAIN s, NEW t, t = RemoveAt(s, i),
           NEW x, NEW of, NEW ofNext,
           ~(HasMessages(s[i]) /\ \E j \in 1..(i - 1) : HasMessages(s[j])),
           Covered(s, x), Settled(s, x, of),
           \/ IsFresh(s[i], x) /\ ofNext \subseteq {x}
           \/ ~IsFresh(s[i], x) /\ ofNext \subseteq of \cup {x}
           \/ HasMessages(s[i]) /\ s[i].session # x
    PROVE  Covered(t, x) /\ Settled(t, x, ofNext)
<1>1. Kept(s, t, i) /\ From(s, t, i)
  BY Removal
<1>2. DOMAIN s = 1..Len(s) /\ Len(s) \in Nat /\ i \in Nat
  BY LenProperties
<1>3. ASSUME NEW k \in DOMAIN s, NEW j \in DOMAIN s, k < j, k # i, j # i
      PROVE  Place(k, i) < Place(j, i)
  BY <1>2, <1>3 DEF Place
<1>4. Covered(t, x)
  <2> SUFFICES ASSUME NEW l \in DOMAIN t, HasMessages(t[l]), t[l].session # x
               PROVE  \E n \in DOMAIN t : n > l /\ IsFresh(t[n], x)
    BY DEF Covered
  <2>1. PICK k \in DOMAIN s : k # i /\ l = Place(k, i)
    BY <1>1 DEF From
  <2>2. t[l] = s[k]
    BY <1>1, <2>1 DEF Kept
  <2>3. PICK j \in DOMAIN s : j > k /\ IsFresh(s[j], x)
    BY <2>2 DEF Covered
  <2>4. j # i
    <3>1. SUFFICES ASSUME j = i PROVE FALSE
      OBVIOUS
    <3>2. k \in 1..(i - 1) /\ HasMessages(s[k]) /\ HasMessages(s[i])
      BY <1>2, <2>2, <2>3, <3>1 DEF IsFresh, HasMessages
    <3> QED BY <3>2
  <2>5. Place(j, i) \in DOMAIN t /\ t[Place(j, i)] = s[j]
    BY <1>1, <2>4 DEF Kept
  <2>6. Place(j, i) > l
    BY <1>2, <1>3, <2>1, <2>3, <2>4 DEF Place
  <2> QED BY <2>3, <2>5, <2>6
<1>5. ASSUME NEW j \in DOMAIN s, j # i, IsFresh(s[j], x) PROVE Settled(t, x, ofNext)
  <2>1. Place(j, i) \in DOMAIN t /\ t[Place(j, i)] = s[j]
    BY <1>1, <1>5 DEF Kept
  <2> QED BY <1>5, <2>1 DEF Settled
<1>6. Settled(t, x, ofNext)
  <2>1. CASE IsFresh(s[i], x) /\ ofNext \subseteq {x}
    BY <2>1 DEF Settled
  <2>2. CASE ~IsFresh(s[i], x) /\ ofNext \subseteq of \cup {x}
    <3>1. CASE of \subseteq {x}
      BY <2>2, <3>1 DEF Settled
    <3>2. CASE ~(of \subseteq {x})
      <4>1. PICK j \in DOMAIN s : IsFresh(s[j], x)
        BY <3>2 DEF Settled
      <4> QED BY <1>5, <2>2, <4>1
    <3> QED BY <3>1, <3>2
  <2>3. CASE HasMessages(s[i]) /\ s[i].session # x
    <3>1. PICK j \in DOMAIN s : j > i /\ IsFresh(s[j], x)
      BY <2>3 DEF Covered
    <3>2. j # i
      BY <1>2, <3>1
    <3> QED BY <1>5, <3>1, <3>2
  <2> QED BY <2>1, <2>2, <2>3
<1> QED BY <1>4, <1>6
LEMMA ShownUserStep == ASSUME TypeOK, OrderInv, User PROVE OrderInv'
<1>0. /\ merchant \in Merchants /\ session \in Sessions \cup {None} /\ shown \in Messagings
      /\ asked \in Seq(Requests) /\ open \in BOOLEAN /\ <<>> \in Seq(Requests)
  BY Parts, EmptySeq
<1>1. SUFFICES ASSUME ~overtaken PROVE Covered(asked', session') /\ Settled(asked', session', shown'.of)
  <2>1. CASE overtaken
    <3>1. overtaken' = overtaken
      BY DEF User, Open, Close, Create, LoadOlder, Send, Retry, Abort, Question, SwitchMerchant, Select
    <3> QED BY <2>1, <3>1 DEF OrderInv
  <2> QED BY <2>1 DEF OrderInv
<1>2. Covered(asked, session) /\ Settled(asked, session, shown.of)
  BY <1>1 DEF OrderInv
<1>3. ASSUME NEW more \in Seq(Requests), Ask(more), session' = session, shown' = shown,
             \A k \in DOMAIN more : HasMessages(more[k]) => more[k].session = session
      PROVE  Covered(asked', session') /\ Settled(asked', session', shown'.of)
  <2>1. shown.of \subseteq shown.of \cup {session} /\ asked' = asked \o more
    BY <1>3 DEF Ask
  <2> QED BY <1>0, <1>2, <1>3, <2>1, AppendSame
<1>4. ASSUME UNCHANGED <<asked, session>>, shown'.of \subseteq shown.of \cup {session}
      PROVE  Covered(asked', session') /\ Settled(asked', session', shown'.of)
  BY <1>2, <1>4 DEF Settled
<1>5. ASSUME NEW q \in Requests, Ask(<<q>>), ~HasMessages(q) \/ q.session = session, session' = session, shown' = shown
      PROVE  Covered(asked', session') /\ Settled(asked', session', shown'.of)
  <2>1. <<q>> \in Seq(Requests) /\ \A k \in DOMAIN <<q>> : <<q>>[k] = q
    OBVIOUS
  <2> QED BY <1>3, <1>5, <2>1
<1>6. CASE Open
  <2>1. Ask(<<Request("sessions", merchant, None, 0)>>) /\ session' = session /\ shown' = shown
    BY <1>6 DEF Open, SessionsOf
  <2>2. Request("sessions", merchant, None, 0) \in Requests /\ ~HasMessages(Request("sessions", merchant, None, 0))
    BY <1>0 DEF Request, Requests, HasMessages
  <2> QED BY <1>5, <2>1, <2>2
<1>7. CASE Create
  <2>1. Ask(<<Request("create", merchant, None, 0)>>) /\ session' = session /\ shown' = shown
    BY <1>7 DEF Create
  <2>2. Request("create", merchant, None, 0) \in Requests /\ ~HasMessages(Request("create", merchant, None, 0))
    BY <1>0 DEF Request, Requests, HasMessages
  <2> QED BY <1>5, <2>1, <2>2
<1>8. CASE LoadOlder
  <2>0. session \in Sessions /\ shown.page + 1 \in 1..MaxPages
    BY <1>8, Parts, Bounds DEF LoadOlder
  <2>1. Ask(<<Request("older", merchant, session, shown.page + 1)>>) /\ session' = session /\ shown' = shown
    BY <1>8 DEF LoadOlder
  <2>2. /\ Request("older", merchant, session, shown.page + 1) \in Requests
        /\ Request("older", merchant, session, shown.page + 1).session = session
    BY <1>0, <2>0 DEF Request, Requests
  <2> QED BY <1>5, <2>1, <2>2
<1>9. ASSUME NEW m \in Merchants, SwitchMerchant(m)
      PROVE  Covered(asked', session') /\ Settled(asked', session', shown'.of)
  <2> DEFINE a == SessionsOf(m, open)
             b == Messages(m, session)
  <2>1. a \in Seq(Requests) /\ b \in Seq(Requests) /\ a \o b \in Seq(Requests)
    BY <1>0, RequestTypes
  <2>2. \A k \in DOMAIN a : ~HasMessages(a[k])
    BY DEF SessionsOf, Request, HasMessages
  <2>3. \A k \in DOMAIN b : b[k].session = session
    BY DEF Messages, Request
  <2>4. Ask(a \o b) /\ session' = session /\ shown' = shown
    BY <1>9 DEF SwitchMerchant
  <2> HIDE DEF a, b
  <2>5. /\ DOMAIN a = 1..Len(a) /\ DOMAIN b = 1..Len(b) /\ DOMAIN (a \o b) = 1..(Len(a) + Len(b))
        /\ Len(a) \in Nat /\ Len(b) \in Nat
        /\ \A k \in 1..(Len(a) + Len(b)) : (a \o b)[k] = IF k <= Len(a) THEN a[k] ELSE b[k - Len(a)]
    BY <2>1, ConcatProperties, LenProperties
  <2>6. ASSUME NEW k \in DOMAIN (a \o b), HasMessages((a \o b)[k]) PROVE (a \o b)[k].session = session
    <3>1. CASE k <= Len(a)
      <4>1. k \in DOMAIN a /\ (a \o b)[k] = a[k]
        BY <2>5, <3>1
      <4> QED BY <2>2, <2>6, <4>1
    <3>2. CASE ~(k <= Len(a))
      <4>1. k - Len(a) \in DOMAIN b /\ (a \o b)[k] = b[k - Len(a)]
        BY <2>5, <3>2
      <4> QED BY <2>3, <4>1
    <3> QED BY <3>1, <3>2
  <2> QED BY <1>3, <2>1, <2>4, <2>6
<1>10. ASSUME NEW s \in Sessions, Select(s)
       PROVE  Covered(asked', session') /\ Settled(asked', session', shown'.of)
  <2>1. Request("messages", merchant, s, 1) \in Requests /\ IsFresh(Request("messages", merchant, s, 1), s)
    BY <1>0, Bounds DEF Request, Requests, IsFresh
  <2>2. asked' = Append(asked, Request("messages", merchant, s, 1)) /\ session' = s
    BY <1>0, <1>10, PanelConfig DEF Select, Ask, Messages
  <2> QED BY <1>0, <2>1, <2>2, AppendFresh
<1>11. CASE Close \/ Send \/ Retry \/ Abort
  BY <1>0, <1>4, <1>11 DEF Close, Send, Retry, Abort, Question, WithoutAnswer, Messagings
<1> QED BY <1>6, <1>7, <1>8, <1>9, <1>10, <1>11 DEF User

LEMMA ShownAnswerStep == ASSUME TypeOK, OrderInv, NEW i \in DOMAIN asked, Answer(i) PROVE OrderInv'
<1>0. /\ merchant \in Merchants /\ session \in Sessions \cup {None} /\ shown \in Messagings
      /\ asked \in Seq(Requests) /\ <<>> \in Seq(Requests)
      /\ RemoveAt(asked, i) \in Seq(Requests)
  BY Parts, EmptySeq, Removal
<1>1. CASE overtaken
  <2>1. overtaken' = (overtaken \/ Overtakes(i))
    BY DEF Answer, AnswerSessions, FailSessions, AnswerCreate, FailCreate, AnswerMessages, FailMessages,
           AnswerOlder, FailOlder, Exchange
  <2> QED BY <1>1, <2>1 DEF OrderInv
<1>2. CASE Overtakes(i)
  <2>1. overtaken' = (overtaken \/ Overtakes(i))
    BY DEF Answer, AnswerSessions, FailSessions, AnswerCreate, FailCreate, AnswerMessages, FailMessages,
           AnswerOlder, FailOlder, Exchange
  <2> QED BY <1>2, <2>1 DEF OrderInv
<1>3. SUFFICES ASSUME ~overtaken, ~Overtakes(i)
               PROVE  Covered(asked', session') /\ Settled(asked', session', shown'.of)
  BY <1>1, <1>2 DEF OrderInv
<1>4. /\ Covered(asked, session) /\ Settled(asked, session, shown.of)
      /\ ~(HasMessages(asked[i]) /\ \E j \in 1..(i - 1) : HasMessages(asked[j]))
  BY <1>3 DEF OrderInv, Overtakes
<1>5. ASSUME Exchange(i, <<>>), session' = session,
             \/ IsFresh(asked[i], session) /\ shown'.of \subseteq {session}
             \/ ~IsFresh(asked[i], session) /\ shown'.of \subseteq shown.of \cup {session}
             \/ HasMessages(asked[i]) /\ asked[i].session # session
      PROVE  Covered(asked', session') /\ Settled(asked', session', shown'.of)
  <2>1. asked' = RemoveAt(asked, i)
    BY <1>0, <1>5, ConcatEmptySeq DEF Exchange
  <2>2. PICK of, t : of = shown'.of /\ t = asked'
    OBVIOUS
  <2>3. Covered(t, session) /\ Settled(t, session, of)
    BY <1>0, <1>4, <1>5, <2>1, <2>2, AnswerOvertakesNone
  <2> QED BY <1>5, <2>2, <2>3
<1>6. ASSUME NEW s \in Sessions, Exchange(i, Messages(merchant, s)), session' = s
      PROVE  Covered(asked', session') /\ Settled(asked', session', shown'.of)
  <2>1. Request("messages", merchant, s, 1) \in Requests /\ IsFresh(Request("messages", merchant, s, 1), s)
    BY <1>0, Bounds DEF Request, Requests, IsFresh
  <2>2. asked' = Append(RemoveAt(asked, i), Request("messages", merchant, s, 1))
    BY <1>0, <1>6, PanelConfig DEF Exchange, Messages
  <2> QED BY <1>0, <1>6, <2>1, <2>2, AppendFresh
<1>7. CASE AnswerSessions(i)
  <2>1. CASE session' = session
    BY <1>5, <1>7, <2>1 DEF AnswerSessions, IsFresh
  <2>2. CASE session' # session
    <3>1. session' \in Sessions
      BY <1>0, <1>7, <2>2 DEF AnswerSessions, Chosen, ServerSessions
    <3> QED BY <1>6, <1>7, <2>2, <3>1 DEF AnswerSessions
  <2> QED BY <2>1, <2>2
<1>8. CASE AnswerCreate(i)
  BY <1>6, <1>8 DEF AnswerCreate
<1>9. CASE FailSessions(i) \/ FailCreate(i)
  BY <1>5, <1>9 DEF FailSessions, FailCreate, IsFresh
<1>10. CASE AnswerMessages(i)
  <2>1. shown'.of = {asked[i].session} /\ HasMessages(asked[i]) /\ asked[i].op = "messages"
    BY <1>10 DEF AnswerMessages, HasMessages
  <2> QED BY <1>5, <1>10, <2>1 DEF AnswerMessages, IsFresh
<1>11. CASE FailMessages(i)
  <2>1. shown'.of = {}
    BY <1>0, <1>11 DEF FailMessages, Emptied, Messagings
  <2> QED BY <1>5, <1>11, <2>1 DEF FailMessages, IsFresh
<1>12. CASE AnswerOlder(i)
  <2>1. shown'.of = shown.of \cup {asked[i].session} /\ HasMessages(asked[i]) /\ asked[i].op = "older"
    BY <1>0, <1>12 DEF AnswerOlder, HasMessages, Messagings
  <2> QED BY <1>5, <1>12, <2>1 DEF AnswerOlder, IsFresh
<1>13. CASE FailOlder(i)
  BY <1>5, <1>13 DEF FailOlder, IsFresh
<1> QED BY <1>7, <1>8, <1>9, <1>10, <1>11, <1>12, <1>13 DEF Answer

LEMMA OrderStep == ASSUME TypeOK, OrderInv, [Next]_vars PROVE OrderInv'
<1>0. shown \in Messagings
  BY Parts
<1>1. CASE User
  BY <1>1, ShownUserStep
<1>2. CASE CountDown \/ StreamEnds \/ StreamFails \/ UNCHANGED vars
  <2>1. UNCHANGED <<asked, session, overtaken>> /\ shown'.of = shown.of
    BY <1>0, <1>2 DEF CountDown, StreamEnds, StreamFails, WithoutAnswer, Messagings, vars
  <2> QED BY <2>1 DEF OrderInv
<1>3. ASSUME NEW i \in DOMAIN asked, Answer(i) PROVE OrderInv'
  BY <1>3, ShownAnswerStep
<1> QED BY <1>1, <1>2, <1>3 DEF Next

\* With no answer overtaken and none on its way, only the selected session's messages are shown.
THEOREM ShownCorrect == Spec => []ShownIsSelected
<1>1. Init => OrderInv
  BY DEF Init, OrderInv, Covered, Settled
<1>2. OrderInv => ShownIsSelected
  BY DEF OrderInv, Settled, IsFresh, ShownIsSelected, HasMessages
<1> QED BY <1>1, <1>2, TypeCorrect, OrderStep, PTL DEF Spec
-----------------------------------------------------------------------------
(***************************************************************************)
(* The panel says it is loading or creating only as long as the request is *)
(* on its way whose end resets the flag: what is asked, answered, closed   *)
(* or selected meanwhile takes neither away.                               *)
(***************************************************************************)
OnItsWay(op) == \E k \in DOMAIN asked : asked[k].op = op

PanelWaits ==
    /\ busy.loading => OnItsWay("sessions")
    /\ busy.creating => OnItsWay("create")

LEMMA WaitsInit == ASSUME Init PROVE PanelWaits
BY DEF Init, PanelWaits

LEMMA Joined ==
    ASSUME NEW s \in Seq(Requests), NEW m \in Seq(Requests), NEW t, t = s \o m
    PROVE  /\ \A k \in DOMAIN s : k \in DOMAIN t /\ t[k] = s[k]
           /\ \A k \in DOMAIN m : Len(s) + k \in DOMAIN t /\ t[Len(s) + k] = m[k]
<1>1. /\ DOMAIN s = 1..Len(s) /\ DOMAIN m = 1..Len(m) /\ DOMAIN t = 1..(Len(s) + Len(m))
      /\ Len(s) \in Nat /\ Len(m) \in Nat
      /\ \A k \in 1..(Len(s) + Len(m)) : t[k] = IF k <= Len(s) THEN s[k] ELSE m[k - Len(s)]
  BY ConcatProperties, LenProperties
<1>2. ASSUME NEW k \in DOMAIN m PROVE Len(s) + k \in DOMAIN t /\ t[Len(s) + k] = m[k]
  <2>1. Len(s) + k \in DOMAIN t /\ ~(Len(s) + k <= Len(s)) /\ (Len(s) + k) - Len(s) = k
    BY <1>1
  <2> QED BY <1>1, <2>1
<1> QED BY <1>1, <1>2

\* What is asked stays on its way, and is joined by what is asked now.
LEMMA AskKeeps ==
    ASSUME TypeOK, NEW more \in Seq(Requests), Ask(more)
    PROVE  /\ \A op : OnItsWay(op) => OnItsWay(op)'
           /\ \A k \in DOMAIN more : OnItsWay(more[k].op)'
<1>1. asked \in Seq(Requests) /\ asked' = asked \o more
  BY DEF TypeOK, Ask
<1>2. /\ \A k \in DOMAIN asked : k \in DOMAIN asked' /\ asked'[k] = asked[k]
      /\ \A k \in DOMAIN more : \E j \in DOMAIN asked' : asked'[j] = more[k]
  <2>1. PICK s, t : s = asked /\ t = asked'
    OBVIOUS
  <2>2. s \in Seq(Requests) /\ t = s \o more
    BY <1>1, <2>1
  <2>3. ASSUME NEW k \in DOMAIN s PROVE k \in DOMAIN t /\ t[k] = s[k]
    BY <2>2, Joined
  <2>4. ASSUME NEW k \in DOMAIN more PROVE Len(s) + k \in DOMAIN t /\ t[Len(s) + k] = more[k]
    BY <2>2, Joined
  <2> QED BY <2>1, <2>3, <2>4
<1>3. ASSUME NEW op, OnItsWay(op) PROVE OnItsWay(op)'
  BY <1>2, <1>3 DEF OnItsWay
<1>4. ASSUME NEW k \in DOMAIN more PROVE OnItsWay(more[k].op)'
  BY <1>2 DEF OnItsWay
<1> QED BY <1>3, <1>4

\* Only the kind of request that is answered can run out.
LEMMA ExchangeKeeps ==
    ASSUME TypeOK, NEW i \in DOMAIN asked, NEW more \in Seq(Requests), Exchange(i, more),
           NEW op, op # asked[i].op, OnItsWay(op)
    PROVE  OnItsWay(op)'
<1> DEFINE u == RemoveAt(asked, i)
<1>1. asked \in Seq(Requests)
  BY DEF TypeOK
<1>2. PICK k \in DOMAIN asked : asked[k].op = op
  BY DEF OnItsWay
<1>3. u \in Seq(Requests) /\ Kept(asked, u, i)
  BY <1>1, Removal
<1>4. Place(k, i) \in DOMAIN u /\ u[Place(k, i)] = asked[k]
  BY <1>2, <1>3 DEF Kept
<1> HIDE DEF u
<1>5. PICK t : t = asked' /\ t = u \o more
  BY DEF Exchange, u
<1>6. Place(k, i) \in DOMAIN t /\ t[Place(k, i)] = u[Place(k, i)]
  BY <1>3, <1>4, <1>5, Joined
<1>7. Place(k, i) \in DOMAIN asked' /\ asked'[Place(k, i)].op = op
  BY <1>2, <1>4, <1>5, <1>6
<1> QED BY <1>7 DEF OnItsWay

LEMMA WaitsUser == ASSUME TypeOK, PanelWaits, User PROVE PanelWaits'
<1>0. /\ merchant \in Merchants /\ session \in Sessions \cup {None} /\ busy \in Busies
      /\ open \in BOOLEAN /\ shown \in Messagings
  BY Parts
<1>1. ASSUME NEW more \in Seq(Requests), Ask(more),
             \/ busy'.loading = busy.loading
             \/ \E k \in DOMAIN more : more[k].op = "sessions",
             \/ busy'.creating = busy.creating
             \/ \E k \in DOMAIN more : more[k].op = "create"
      PROVE  PanelWaits'
  BY <1>1, AskKeeps DEF PanelWaits
<1>2. ASSUME UNCHANGED <<asked, busy>> PROVE PanelWaits'
  BY <1>2 DEF PanelWaits, OnItsWay
<1>3. ASSUME NEW q \in Requests
      PROVE  <<q>> \in Seq(Requests) /\ 1 \in DOMAIN <<q>> /\ <<q>>[1] = q
  OBVIOUS
<1>4. Request("sessions", merchant, None, 0) \in Requests
      /\ Request("sessions", merchant, None, 0).op = "sessions"
  BY <1>0 DEF Request, Requests
<1>5. CASE Open
  <2>1. /\ Ask(<<Request("sessions", merchant, None, 0)>>)
        /\ busy' = [busy EXCEPT !.loading = TRUE]
    BY <1>5 DEF Open, SessionsOf
  <2>2. busy'.creating = busy.creating
    BY <1>0, <2>1 DEF Busies
  <2>3. \E k \in DOMAIN <<Request("sessions", merchant, None, 0)>> :
           <<Request("sessions", merchant, None, 0)>>[k].op = "sessions"
    BY <1>3, <1>4
  <2> QED BY <1>1, <1>3, <1>4, <2>1, <2>2, <2>3
<1>6. CASE Create
  <2>1. Request("create", merchant, None, 0) \in Requests
        /\ Request("create", merchant, None, 0).op = "create"
    BY <1>0 DEF Request, Requests
  <2>2. /\ Ask(<<Request("create", merchant, None, 0)>>)
        /\ busy' = [busy EXCEPT !.creating = TRUE]
    BY <1>6 DEF Create
  <2>3. busy'.loading = busy.loading
    BY <1>0, <2>2 DEF Busies
  <2>4. \E k \in DOMAIN <<Request("create", merchant, None, 0)>> :
           <<Request("create", merchant, None, 0)>>[k].op = "create"
    BY <1>3, <2>1
  <2> QED BY <1>1, <1>3, <2>1, <2>2, <2>3, <2>4
<1>7. ASSUME NEW m \in Merchants, SwitchMerchant(m) PROVE PanelWaits'
  <2> DEFINE more == SessionsOf(m, open) \o Messages(m, session)
  <2>1. /\ more \in Seq(Requests) /\ SessionsOf(m, open) \in Seq(Requests)
        /\ Messages(m, session) \in Seq(Requests)
    BY <1>0, RequestTypes
  <2>2. Ask(more) /\ busy' = [busy EXCEPT !.loading = busy.loading \/ open]
    BY <1>7 DEF SwitchMerchant
  <2>3. /\ busy'.creating = busy.creating
        /\ busy'.loading = (busy.loading \/ open)
    BY <1>0, <2>2, Zenon DEF Busies
  <2>4. ASSUME open PROVE \E k \in DOMAIN more : more[k].op = "sessions"
    <3>1. SessionsOf(m, open) = <<Request("sessions", m, None, 0)>>
      BY <2>4 DEF SessionsOf
    <3>2. Request("sessions", m, None, 0) \in Requests
          /\ Request("sessions", m, None, 0).op = "sessions"
      BY DEF Request, Requests
    <3>3. 1 \in DOMAIN SessionsOf(m, open) /\ SessionsOf(m, open)[1].op = "sessions"
      BY <1>3, <3>1, <3>2
    <3> QED BY <2>1, <3>3, Joined
  <2> HIDE DEF more
  <2>5. CASE open
    BY <1>1, <2>1, <2>2, <2>3, <2>4, <2>5
  <2>6. CASE ~open
    <3>1. busy'.loading => busy.loading
      BY <2>3, <2>6, Zenon
    <3>2. more \in Seq(Requests) /\ Ask(more)
      BY <2>1, <2>2
    <3> QED BY <2>3, <3>1, <3>2, AskKeeps DEF PanelWaits
  <2> QED BY <2>5, <2>6
<1>8. ASSUME NEW s \in Sessions, Select(s) PROVE PanelWaits'
  <2>1. Messages(merchant, s) \in Seq(Requests)
    BY <1>0, RequestTypes
  <2> QED BY <1>1, <1>8, <2>1 DEF Select
<1>9. CASE LoadOlder
  <2>1. session \in Sessions /\ shown.page + 1 \in 1..MaxPages
    BY <1>9, Parts, Bounds DEF LoadOlder
  <2>2. Request("older", merchant, session, shown.page + 1) \in Requests
    BY <1>0, <2>1 DEF Request, Requests
  <2> QED BY <1>1, <1>3, <1>9, <2>2 DEF LoadOlder
<1>10. CASE Close \/ Send \/ Retry \/ Abort
  BY <1>2, <1>10 DEF Close, Send, Retry, Abort, Question
<1> QED BY <1>5, <1>6, <1>7, <1>8, <1>9, <1>10 DEF User

LEMMA WaitsAnswer ==
    ASSUME TypeOK, PanelWaits, NEW i \in DOMAIN asked, Answer(i) PROVE PanelWaits'
<1>0. /\ merchant \in Merchants /\ session \in Sessions \cup {None} /\ busy \in Busies
      /\ open \in BOOLEAN /\ <<>> \in Seq(Requests)
  BY Parts, EmptySeq
<1>1. ASSUME NEW more \in Seq(Requests), Exchange(i, more),
             asked[i].op = "sessions" => ~busy'.loading,
             asked[i].op = "create" => ~busy'.creating,
             busy'.loading => busy.loading, busy'.creating => busy.creating
      PROVE  PanelWaits'
  <2>1. busy'.loading => OnItsWay("sessions")'
    BY <1>1, ExchangeKeeps DEF PanelWaits
  <2>2. busy'.creating => OnItsWay("create")'
    BY <1>1, ExchangeKeeps DEF PanelWaits
  <2> QED BY <2>1, <2>2 DEF PanelWaits
<1>2. ASSUME busy' = [busy EXCEPT !.loading = FALSE]
      PROVE  ~busy'.loading /\ busy'.creating = busy.creating
  BY <1>0, <1>2 DEF Busies
<1>3. ASSUME busy' = [busy EXCEPT !.creating = FALSE]
      PROVE  ~busy'.creating /\ busy'.loading = busy.loading
  BY <1>0, <1>3 DEF Busies
<1>4. CASE AnswerSessions(i)
  <2>1. session' \in Sessions \cup {None}
    BY <1>0, <1>4 DEF AnswerSessions, Chosen, ServerSessions
  <2>2. (IF session' = session THEN <<>> ELSE Messages(merchant, session')) \in Seq(Requests)
    BY <1>0, <2>1, RequestTypes
  <2> QED BY <1>1, <1>2, <1>4, <2>2 DEF AnswerSessions
<1>5. CASE FailSessions(i)
  BY <1>0, <1>1, <1>2, <1>5 DEF FailSessions
<1>6. CASE AnswerCreate(i)
  <2>1. PICK s \in Sessions : Exchange(i, Messages(merchant, s))
    BY <1>6 DEF AnswerCreate
  <2>2. Messages(merchant, s) \in Seq(Requests)
    BY <1>0, RequestTypes
  <2> QED BY <1>1, <1>3, <1>6, <2>1, <2>2 DEF AnswerCreate
<1>7. CASE FailCreate(i)
  BY <1>0, <1>1, <1>3, <1>7 DEF FailCreate
<1>8. CASE AnswerMessages(i) \/ FailMessages(i) \/ AnswerOlder(i) \/ FailOlder(i)
  BY <1>0, <1>1, <1>8 DEF AnswerMessages, FailMessages, AnswerOlder, FailOlder
<1> QED BY <1>4, <1>5, <1>6, <1>7, <1>8 DEF Answer

(***************************************************************************)
(* The panel never waits for nothing: a flag that keeps it from selecting  *)
(* or creating a session is up only while the request is on its way whose  *)
(* answer or failure takes it down.  With the fairness of fetch this is    *)
(* why the loading and creating of PanelSettles end.                       *)
(***************************************************************************)
THEOREM WaitsCorrect == Spec => []PanelWaits
<1>1. Init => TypeOK /\ PanelWaits
  BY TypeInit, WaitsInit
<1>2. TypeOK /\ PanelWaits /\ [Next]_vars => (TypeOK /\ PanelWaits)'
  <2>1. ASSUME UNCHANGED <<asked, busy>>, PanelWaits PROVE PanelWaits'
    BY <2>1 DEF PanelWaits, OnItsWay
  <2>2. ASSUME PanelWaits, CountDown \/ StreamEnds \/ StreamFails \/ UNCHANGED vars
        PROVE  PanelWaits'
    BY <2>1, <2>2 DEF CountDown, StreamEnds, StreamFails, vars
  <2> QED BY <2>2, TypeStep, WaitsUser, WaitsAnswer DEF Next
<1> QED BY <1>1, <1>2, PTL DEF Spec
=============================================================================

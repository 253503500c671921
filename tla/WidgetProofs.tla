------------------------------- MODULE WidgetProofs -------------------------------
(***************************************************************************)
(* What TLAPS proves of the two widgets at the reader's hands: of Composer *)
(* for any words, any history limit and any order of keys, messages,       *)
(* failures and reconnects; and of LogView for any messages, days, heights *)
(* and screen, any retention cap and any order of rebuilds, keys, clicks   *)
(* and scrolling.  They share no state.                                    *)
(***************************************************************************)
EXTENDS Composer, LogView, FiniteSetTheorems, WellFoundedInduction, TLAPS

--------------------------------------------------------------------------------
(* The input bar and the lines typed into it.                                  *)

\* The texts of the lines in the app's queue are texts.
LEMMA HeadOfInbox ==
  ASSUME inbox \in Seq(Message), inbox # <<>>
  PROVE  /\ Head(inbox) \in Message
         /\ Head(inbox).kind = "LineSubmitted" => Head(inbox).text \in Text
         /\ Tail(inbox) \in Seq(Message)
<1>1. Head(inbox) \in Message /\ Tail(inbox) \in Seq(Message)
  OBVIOUS
<1> QED BY <1>1 DEF Message, CtrlR

\* What _remember leaves: at most HistoryLimit texts, the newest of them the one
\* remembered, if they were at most HistoryLimit before.
LEMMA RememberResult ==
  ASSUME recall \in Seq(Text), Len(recall) <= HistoryLimit, NEW text \in Text, Remember(text)
  PROVE  /\ recall' \in Seq(Text) /\ Len(recall') <= HistoryLimit
         /\ Len(recall') > 0 /\ recall'[Len(recall')] = text
<1> USE LimitAssumption
<1>1. CASE recall # <<>> /\ Last(recall) = text
  BY <1>1 DEF Remember, Last
<1>2. CASE ~(recall # <<>> /\ Last(recall) = text)
  <2> DEFINE all == Append(recall, text)
  <2> DEFINE excess == IF Len(all) > HistoryLimit THEN Len(all) - HistoryLimit ELSE 0
  <2>1. recall' = SubSeq(all, excess + 1, Len(all))
    BY <1>2 DEF Remember
  <2>2. all \in Seq(Text) /\ Len(all) = Len(recall) + 1 /\ all[Len(all)] = text
    OBVIOUS
  <2>3. excess \in Nat /\ excess < Len(all) /\ Len(all) - excess <= HistoryLimit
    BY <2>2
  <2> HIDE DEF all, excess
  <2>4. /\ recall' \in Seq(Text) /\ Len(recall') = Len(all) - excess
        /\ \A i \in 1..Len(recall') : recall'[i] = all[excess + i]
    BY <2>1, <2>2, <2>3
  <2> QED BY <2>2, <2>3, <2>4
<1> QED BY <1>1, <1>2

LEMMA InitTyped == Init => TypeOK
<1> SUFFICES ASSUME Init PROVE TypeOK
  OBVIOUS
<1>1. Empty \in Text /\ <<>> \in Seq(Text) /\ <<>> \in Seq(Message) /\ Len(<<>>) = 0
  BY DEF Empty, Text
<1>2. lost \in BOOLEAN /\ connected \in BOOLEAN /\ swallowed \in BOOLEAN
  BY DEF Init
<1> QED BY <1>1, <1>2, LimitAssumption DEF Init, TypeOK, NoWords

LEMMA RestoreTyped ==
  ASSUME TypeOK, NEW text \in Text, Restore(text)
  PROVE  value' \in Text /\ pending' \in Text
  BY DEF TypeOK, Restore

LEMMA BarTyped ==
  ASSUME TypeOK, Bar
  PROVE  TypeOK'
<1>1. ASSUME NEW w \in Word \cup {Blank}, Type(w) PROVE TypeOK'
  <2>1. value' \in Text
    BY <1>1 DEF Type, TypeOK, Text
  <2>2. typed' \subseteq Word
    BY <1>1 DEF Type, TypeOK
  <2> QED BY <1>1, <2>1, <2>2 DEF Type, Key, TypeOK, app, core
<1>2. CASE Erase
  BY <1>2 DEF Erase, Key, GiveUp, TypeOK, app, core, Empty, Text, Words
<1>3. CASE PressEnter
  BY <1>3 DEF PressEnter, Key, TypeOK, app, core
<1>4. CASE HistoryPrev
  <2>1. index' \in 1..Len(recall)
    BY <1>4 DEF HistoryPrev, TypeOK
  <2>2. value' \in Text /\ stash' \in Text
    BY <1>4, <2>1 DEF HistoryPrev, TypeOK
  <2> QED BY <1>4, <2>1, <2>2 DEF HistoryPrev, Key, GiveUp, TypeOK, app, core, Words, NoWords
<1>5. CASE HistoryNext
  <2>1. index' \in 0..Len(recall)
    BY <1>5 DEF HistoryNext, TypeOK
  <2>2. value' \in Text
    BY <1>5, <2>1 DEF HistoryNext, TypeOK
  <2> QED BY <1>5, <2>1, <2>2 DEF HistoryNext, Key, GiveUp, TypeOK, app, core, Words
<1>6. CASE InputSubmitted
  <2> DEFINE text == Head(submitted)
  <2>1. text \in Text /\ submitted' \in Seq(Text)
    BY <1>6 DEF InputSubmitted, TypeOK
  <2>2. value' \in Text /\ stash' \in Text /\ given' \subseteq Word
    <3>1. value' \in {value, Empty} /\ stash' \in {stash, Empty}
      BY <1>6 DEF InputSubmitted, bar
    <3>2. \A t : Words(t) \subseteq Word
      BY DEF Words
    <3>3. Forgotten \subseteq Word
      <4>1. \A texts : WordsIn(texts) \subseteq Word
        BY <3>2 DEF WordsIn
      <4> QED BY <3>2, <4>1 DEF Forgotten
    <3>4. given' \subseteq given \cup Words(value) \cup Forgotten
      BY <1>6 DEF InputSubmitted
    <3>5. Empty \in Text
      BY DEF Empty, Text
    <3> QED BY <3>1, <3>2, <3>3, <3>4, <3>5 DEF TypeOK
  <2>3. inbox' \in Seq(Message)
    <3>1. Line(text) \in Message
      BY <2>1 DEF Line, Message
    <3>2. inbox' = inbox \/ inbox' = Append(inbox, Line(text))
      BY <1>6 DEF InputSubmitted
    <3>3. inbox \in Seq(Message)
      BY DEF TypeOK
    <3>4. \A s \in Seq(Message), m \in Message : Append(s, m) \in Seq(Message)
      OBVIOUS
    <3> QED BY <3>1, <3>2, <3>3, <3>4, Zenon
  <2>4. recall' \in Seq(Text) /\ Len(recall') <= HistoryLimit /\ index' \in 0..Len(recall')
    <3>1. CASE Remember(text) /\ index' = 0
      BY <2>1, <3>1, RememberResult DEF TypeOK
    <3>2. CASE recall' = recall /\ index' = index
      BY <3>2 DEF TypeOK
    <3> QED BY <1>6, <3>1, <3>2 DEF InputSubmitted, bar
  <2> QED BY <1>6, <2>1, <2>2, <2>3, <2>4 DEF InputSubmitted, TypeOK, app, core
<1> QED BY <1>1, <1>2, <1>3, <1>4, <1>5, <1>6 DEF Bar

LEMMA AppTyped ==
  ASSUME TypeOK, App
  PROVE  TypeOK'
<1>1. CASE LineRefused
  <2>1. Head(inbox).text \in Text /\ inbox' \in Seq(Message)
    BY <1>1, HeadOfInbox DEF LineRefused, Handle, TypeOK
  <2>2. value' \in Text /\ pending' \in Text
    BY <1>1, <2>1, RestoreTyped DEF LineRefused
  <2> QED BY <1>1, <2>1, <2>2 DEF LineRefused, Handle, TypeOK, core
<1>2. CASE LineWritten
  <2>1. Head(inbox).text \in Text /\ inbox' \in Seq(Message)
    BY <1>2, HeadOfInbox DEF LineWritten, Handle, TypeOK
  <2>2. swallowed' \in BOOLEAN
    BY <1>2 DEF LineWritten, TypeOK
  <2> QED BY <1>2, <2>1, <2>2 DEF LineWritten, Handle, TypeOK, core
<1>3. CASE Drained
  BY <1>3 DEF Drained, TypeOK, bar, core, history, Empty, Text
<1>4. CASE DrainFails
  <2>1. value' \in Text /\ pending' \in Text
    BY <1>4, RestoreTyped DEF DrainFails, TypeOK
  <2> QED BY <1>4, <2>1 DEF DrainFails, TypeOK, core, history, Empty, Text
<1>5. CASE SessionEnded
  <2>1. inbox' \in Seq(Message)
    BY <1>5, HeadOfInbox DEF SessionEnded, Handle, TypeOK
  <2>2. value' \in Text /\ pending' \in Text
    <3>1. value' \in {value, Empty} /\ pending' \in {pending, value}
      BY <1>5 DEF SessionEnded, Stash
    <3>2. Empty \in Text
      BY DEF Empty, Text
    <3> QED BY <3>1, <3>2 DEF TypeOK
  <2>3. lost' \in BOOLEAN /\ pump' \in {"idle", "sending", "exited"}
    BY <1>5 DEF SessionEnded, TypeOK
  <2> QED BY <1>5, <2>1, <2>2, <2>3 DEF SessionEnded, Handle, TypeOK, core
<1>6. CASE Reconnect
  <2>1. inbox' \in Seq(Message)
    BY <1>6, HeadOfInbox DEF Reconnect, Handle, TypeOK
  <2>2. value' \in Text /\ pending' \in Text
    <3>1. value' \in {value, pending} /\ pending' \in {pending, Empty}
      BY <1>6 DEF Reconnect, Unstash
    <3>2. Empty \in Text
      BY DEF Empty, Text
    <3> QED BY <3>1, <3>2 DEF TypeOK
  <2>3. /\ lost' \in BOOLEAN /\ connected' \in BOOLEAN
        /\ bridge' \in {"first", "again", "open", "ended"}
    BY <1>6 DEF Reconnect, TypeOK
  <2> QED BY <1>6, <2>1, <2>2, <2>3 DEF Reconnect, Handle, TypeOK
<1>7. CASE PressCtrlR
  BY <1>7 DEF PressCtrlR, TypeOK, bar, app, core, history, Message
<1> QED BY <1>1, <1>2, <1>3, <1>4, <1>5, <1>6, <1>7 DEF App

LEMMA ClientTyped ==
  ASSUME TypeOK, Client
  PROVE  TypeOK'
<1>1. CASE Opens
  BY <1>1 DEF Opens, Behind, TypeOK, bar, app, history
<1>2. CASE Ends
  <2>1. inbox' \in Seq(Message) /\ connected' \in BOOLEAN
    <3>1. Ended(bridge = "first") \in Message
      BY DEF Ended, Message
    <3>2. connected' \in BOOLEAN
      BY <1>2 DEF Ends, TypeOK
    <3> QED BY <1>2, <3>1, <3>2 DEF Ends, TypeOK
  <2> QED BY <1>2, <2>1 DEF Ends, Behind, TypeOK, bar, app, history
<1> QED BY <1>1, <1>2 DEF Client

\* Every variable of the composer stays well typed, and the history within its
\* limit.
THEOREM TypeCorrect == Spec => []TypeOK
<1>1. Init => TypeOK
  BY InitTyped
<1>2. TypeOK /\ [Next]_vars => TypeOK'
  <2> SUFFICES ASSUME TypeOK, [Next]_vars PROVE TypeOK'
    OBVIOUS
  <2>1. CASE UNCHANGED vars
    BY <2>1 DEF vars, bar, app, core, history, TypeOK
  <2> QED BY <2>1, BarTyped, AppTyped, ClientTyped DEF Next
<1> QED BY <1>1, <1>2, PTL DEF Spec

--------------------------------------------------------------------------------
\* The stash belongs to one disconnect (app.py:449-461, 602-624): the property is
\* inductive as it stands.
THEOREM StashIsForOneDisconnect == Spec => []StashOnlyWhileLost
<1>1. Init => StashOnlyWhileLost
  BY DEF Init, StashOnlyWhileLost
<1>2. StashOnlyWhileLost /\ [Next]_vars => StashOnlyWhileLost'
  <2> SUFFICES ASSUME StashOnlyWhileLost, [Next]_vars PROVE StashOnlyWhileLost'
    OBVIOUS
  <2>1. CASE Bar
    <3>1. lost' = lost /\ pending' = pending
      BY <2>1 DEF Bar, Type, Erase, PressEnter, HistoryPrev, HistoryNext, InputSubmitted, Key, app
    <3>2. lost => value' \in {value, Empty}
      BY <2>1 DEF Bar, Type, Erase, PressEnter, HistoryPrev, HistoryNext, InputSubmitted, Key, bar
    <3> QED BY <3>1, <3>2 DEF StashOnlyWhileLost
  <2>2. CASE LineRefused \/ DrainFails
    BY <2>2 DEF LineRefused, DrainFails, Restore, StashOnlyWhileLost
  <2>3. CASE LineWritten \/ Drained \/ PressCtrlR
    BY <2>3 DEF LineWritten, Drained, PressCtrlR, bar, app, StashOnlyWhileLost
  <2>4. CASE SessionEnded
    BY <2>4 DEF SessionEnded, Stash, StashOnlyWhileLost
  <2>5. CASE Reconnect
    <3>1. lost => lost' = FALSE /\ pending' = Empty
      BY <2>5 DEF Reconnect, Unstash
    <3>2. ~lost => lost' = lost /\ pending' = pending
      BY <2>5 DEF Reconnect
    <3> QED BY <3>1, <3>2 DEF StashOnlyWhileLost
  <2>6. CASE Client
    <3>1. value' = value /\ lost' = lost /\ pending' = pending
      BY <2>6 DEF Client, Opens, Ends, Behind, bar, app
    <3> QED BY <3>1 DEF StashOnlyWhileLost
  <2>7. CASE UNCHANGED vars
    BY <2>7 DEF vars, bar, app, StashOnlyWhileLost
  <2> QED BY <2>1, <2>2, <2>3, <2>4, <2>5, <2>6, <2>7 DEF Next, App
<1> QED BY <1>1, <1>2, PTL DEF Spec

--------------------------------------------------------------------------------
(* No word is lost.                                                          *)

\* Where a word can be, one place after the other.
Held(w) ==
  \/ w \in Words(value) \/ w \in Words(Draft) \/ w \in Words(pending)
  \/ \E i \in DOMAIN recall : w \in Words(recall[i])
  \/ \E i \in DOMAIN submitted : w \in Words(submitted[i])

LEMMA HeldIsReachable ==
  /\ \A w : w \in Reachable <=> Held(w)
  /\ \A w : w \in Reachable' <=> Held(w)'
<1>1. \A w : w \in Reachable <=> Held(w)
  BY DEF Reachable, Held, WordsIn, Range
<1>2. \A w : w \in Reachable' <=> Held(w)'
  BY DEF Reachable, Held, WordsIn, Range
<1> QED BY <1>1, <1>2

LEMMA WordsOfEmpty == Words(Empty) = NoWords
  BY DEF Words, Empty, NoWords, Range

\* A word typed onto a text is one of its words.
LEMMA WordsOfAppend ==
  ASSUME NEW text \in Text, NEW v \in Word \cup {Blank}
  PROVE  Words(Append(text, v)) = Words(text) \cup ({v} \cap Word)
<1>1. Append(text, v) \in Text /\ Len(Append(text, v)) = Len(text) + 1
  BY DEF Text
<1>2. /\ \A i \in 1..Len(text) : Append(text, v)[i] = text[i]
      /\ Append(text, v)[Len(text) + 1] = v
  BY DEF Text
<1>3. DOMAIN text = 1..Len(text) /\ Len(text) \in Nat
      /\ DOMAIN Append(text, v) = 1..(Len(text) + 1)
  BY <1>1 DEF Text
<1>4. Range(Append(text, v)) = Range(text) \cup {v}
  BY <1>2, <1>3 DEF Range
<1> QED BY <1>4 DEF Words

\* No key and no submission loses a word but those it is known to give up.
LEMMA BarHolds ==
  ASSUME TypeOK, Bar, NEW w \in Word, w \notin given',
         Held(w) \/ w \in typed' \ typed
  PROVE  Held(w)'
<1>1. ASSUME NEW v \in Word \cup {Blank}, Type(v) PROVE Held(w)'
  <2>1. Words(value') = Words(value) \cup ({v} \cap Word)
    BY <1>1, WordsOfAppend DEF Type, TypeOK
  <2>2. w \in typed' \ typed => w = v
    BY <1>1 DEF Type
  <2>3. recall' = recall /\ stash' = stash /\ pending' = pending /\ submitted' = submitted
    BY <1>1 DEF Type, Key, app
  <2>4. Draft' = Draft
    BY <1>1 DEF Type, Draft
  <2> QED BY <2>1, <2>2, <2>3, <2>4 DEF Held
<1> SUFFICES ASSUME Held(w), \A v \in Word \cup {Blank} : ~Type(v) PROVE Held(w)'
  <2>1. CASE \A v \in Word \cup {Blank} : ~Type(v)
    <3>1. typed' = typed
      BY <2>1 DEF Bar, Erase, PressEnter, HistoryPrev, HistoryNext, GiveUp, InputSubmitted
    <3> QED BY <2>1, <3>1
  <2> QED BY <1>1, <2>1
<1>2. CASE Erase
  BY <1>2 DEF Erase, Key, GiveUp, app, Held, Draft
<1>3. CASE PressEnter
  <2>1. \A i \in DOMAIN submitted : i \in DOMAIN submitted' /\ submitted'[i] = submitted[i]
    BY <1>3 DEF PressEnter, TypeOK
  <2> QED BY <1>3, <2>1 DEF PressEnter, Key, app, Held, Draft
<1>4. CASE HistoryPrev
  <2>1. index' # 0
    BY <1>4 DEF HistoryPrev, TypeOK
  <2>2. CASE index = 0
    <3>1. w \notin Words(Draft) /\ Draft' = value
      BY <1>4, <2>1, <2>2, WordsOfEmpty DEF HistoryPrev, Draft, NoWords
    <3> QED BY <1>4, <3>1 DEF HistoryPrev, Key, app, Held
  <2>3. CASE index # 0
    <3>1. w \notin Words(value) /\ Draft' = Draft
      BY <1>4, <2>1, <2>3 DEF HistoryPrev, GiveUp, Draft
    <3> QED BY <1>4, <3>1 DEF HistoryPrev, Key, app, Held
  <2> QED BY <2>2, <2>3
<1>5. CASE HistoryNext
  <2>1. w \notin Words(value)
    BY <1>5 DEF HistoryNext, GiveUp
  <2>2. Draft = stash /\ (Draft' = stash \/ value' = stash)
    BY <1>5 DEF HistoryNext, Draft
  <2> QED BY <1>5, <2>1, <2>2 DEF HistoryNext, Key, app, Held
<1>6. CASE InputSubmitted
  <2> DEFINE text == Head(submitted)
  <2>1. text \in Text /\ DOMAIN submitted = 1..Len(submitted) /\ text = submitted[1]
    BY <1>6 DEF InputSubmitted, TypeOK
  <2>2. \A i \in DOMAIN submitted : i = 1 \/ (i - 1 \in DOMAIN submitted' /\ submitted'[i - 1] = submitted[i])
    BY <1>6 DEF InputSubmitted, TypeOK
  <2>3. pending' = pending
    BY <1>6 DEF InputSubmitted, app
  <2>4. CASE text = Empty
    <3>1. w \notin Words(text)
      BY <2>4, WordsOfEmpty DEF NoWords
    <3>2. value' = value /\ Draft' = Draft /\ recall' = recall
      BY <1>6, <2>4, WordsOfEmpty DEF InputSubmitted, bar, IsBlank, Draft
    <3> QED BY <2>1, <2>2, <2>3, <3>1, <3>2 DEF Held
  <2>5. CASE IsBlank(text)
    <3>1. w \notin Words(text)
      BY <2>5 DEF IsBlank, NoWords
    <3>2. /\ given' = given \cup (Words(value) \ Words(text))
          /\ Draft' = Draft /\ recall' = recall
      BY <1>6, <2>5 DEF InputSubmitted, IsBlank, Draft
    <3> QED BY <2>1, <2>2, <2>3, <3>1, <3>2 DEF Held
  <2>6. CASE Words(text) # NoWords
    <3>1. /\ given' = given \cup (Words(value) \ Words(text)) \cup Forgotten
          /\ Remember(text)
      BY <1>6, <2>6, WordsOfEmpty DEF InputSubmitted, IsBlank
    <3>2. Len(recall') \in DOMAIN recall' /\ recall'[Len(recall')] = text
      BY <2>1, <3>1, RememberResult DEF TypeOK
    <3>3. w \in Words(text) => Held(w)'
      BY <3>2 DEF Held
    <3>4. w \notin Words(Draft)
      BY <3>1 DEF Forgotten
    <3>5. (\E i \in DOMAIN recall : w \in Words(recall[i]))
            => \E i \in DOMAIN recall' : w \in Words(recall'[i])
      <4>1. w \notin WordsIn(recall) \ WordsIn(recall')
        BY <3>1 DEF Forgotten
      <4>2. (\E i \in DOMAIN recall : w \in Words(recall[i])) <=> w \in WordsIn(recall)
        BY DEF WordsIn, Range
      <4>3. (\E i \in DOMAIN recall' : w \in Words(recall'[i])) <=> w \in WordsIn(recall')
        BY DEF WordsIn, Range
      <4> QED BY <4>1, <4>2, <4>3
    <3> QED BY <2>1, <2>2, <2>3, <3>1, <3>3, <3>4, <3>5 DEF Held
  <2> QED BY <1>6, <2>4, <2>5, <2>6 DEF InputSubmitted
<1> QED BY <1>2, <1>3, <1>4, <1>5, <1>6 DEF Bar

\* Neither a failed send nor a disconnect nor a reconnect loses a word: the bar
\* and the stash are never both taken when one is moved into the other.
LEMMA AppHolds ==
  ASSUME StashOnlyWhileLost, App \/ Client, NEW w, Held(w)
  PROVE  Held(w)'
<1>1. index' = index /\ stash' = stash /\ recall' = recall /\ submitted' = submitted
  BY DEF App, LineRefused, LineWritten, Drained, DrainFails, SessionEnded, Reconnect,
         PressCtrlR, Client, Opens, Ends, Behind, Handle, bar
<1>2. SUFFICES w \in Words(value) \cup Words(pending) => w \in Words(value') \cup Words(pending')
  BY <1>1 DEF Held, Draft
<1>3. CASE LineRefused \/ DrainFails
  <2>1. (value' = value \/ value = Empty) /\ (pending' = pending \/ pending = Empty)
    BY <1>3 DEF LineRefused, DrainFails, Restore
  <2> QED BY <2>1, WordsOfEmpty DEF NoWords
<1>4. CASE SessionEnded
  <2>1. \/ value' = value /\ pending' = pending
        \/ pending = Empty /\ pending' = value
    BY <1>4 DEF SessionEnded, Stash, StashOnlyWhileLost
  <2> QED BY <2>1, WordsOfEmpty DEF NoWords
<1>5. CASE Reconnect
  <2>1. \/ value' = value /\ pending' = pending
        \/ value = Empty /\ value' = pending
        \/ pending = Empty /\ value' = value
    BY <1>5 DEF Reconnect, Unstash, StashOnlyWhileLost
  <2> QED BY <2>1, WordsOfEmpty DEF NoWords
<1>6. CASE LineWritten \/ Drained \/ PressCtrlR \/ Client
  BY <1>6 DEF LineWritten, Drained, PressCtrlR, Client, Opens, Ends, Behind, bar, app
<1> QED BY <1>3, <1>4, <1>5, <1>6 DEF App

\* Every word the user typed can be brought back, unless a key of the user's
\* gave it up: for any number of lines, failures, disconnects and reconnects.
THEOREM WordsAreKept == Spec => []DraftKept
<1>1. Init => DraftKept
  BY DEF Init, DraftKept, NoWords
<1>2. TypeOK /\ TypeOK' /\ StashOnlyWhileLost /\ DraftKept /\ [Next]_vars => DraftKept'
  <2> SUFFICES ASSUME TypeOK, TypeOK', StashOnlyWhileLost, DraftKept, [Next]_vars,
                      NEW w \in typed', w \notin given'
               PROVE  w \in Reachable'
    BY DEF DraftKept
  <2>1. CASE UNCHANGED vars
    <3>1. w \in Reachable
      BY <2>1 DEF vars, history, DraftKept
    <3> QED BY <2>1, <3>1, HeldIsReachable DEF vars, bar, app, Held, Draft
  <2>2. CASE Bar
    <3>1. given \subseteq given' /\ w \in Word
      BY <2>2 DEF Bar, Type, Erase, PressEnter, HistoryPrev, HistoryNext, GiveUp,
                  InputSubmitted, TypeOK
    <3>2. Held(w) \/ w \in typed' \ typed
      BY <3>1, HeldIsReachable DEF DraftKept
    <3> QED BY <2>2, <3>1, <3>2, BarHolds, HeldIsReachable
  <2>3. CASE App \/ Client
    <3>1. typed' = typed /\ given' = given
      BY <2>3 DEF App, LineRefused, LineWritten, Drained, DrainFails, SessionEnded, Reconnect,
                  PressCtrlR, Client, Opens, Ends, Behind, Handle, history
    <3>2. Held(w)
      BY <3>1, HeldIsReachable DEF DraftKept
    <3> QED BY <2>3, <3>2, AppHolds, HeldIsReachable
  <2> QED BY <2>1, <2>2, <2>3 DEF Next
<1> QED BY <1>1, <1>2, TypeCorrect, StashIsForOneDisconnect, PTL DEF Spec

--------------------------------------------------------------------------------
(* Least and greatest numbers.                                                 *)

LEMMA LeastOf ==
  ASSUME NEW S \in SUBSET Nat, S # {}
  PROVE  Min(S) \in S /\ \A j \in S : Min(S) <= j
<1>1. PICK x \in S : \A y \in S : <<y, x>> \notin OpToRel(<, Nat)
  BY WFMin, NatLessThanWellFounded
<1>2. \A y \in S : x <= y
  <2> SUFFICES ASSUME NEW y \in S PROVE x <= y
    OBVIOUS
  <2>1. x \in Nat /\ y \in Nat
    OBVIOUS
  <2>2. <<y, x>> \notin OpToRel(<, Nat)
    BY <1>1
  <2>3. ~(y < x)
    BY <2>1, <2>2 DEF OpToRel
  <2> QED
    BY <2>1, <2>3
<1> QED
  BY <1>2 DEF Min

LEMMA GreatestOf ==
  ASSUME NEW bound \in Nat, NEW S \in SUBSET (0 .. bound), S # {}
  PROVE  Max(S) \in S /\ \A j \in S : Max(S) >= j
<1> DEFINE T == {bound - j : j \in S}
<1>1. T \in SUBSET Nat /\ T # {}
  <2>1. \A j \in S : bound - j \in Nat
    OBVIOUS
  <2> QED
    BY <2>1, Zenon
<1>2. PICK x \in T : \A y \in T : x <= y
  BY <1>1, LeastOf
<1>3. PICK i \in S : x = bound - i
  BY <1>2
<1>4. \A j \in S : i >= j
  <2> SUFFICES ASSUME NEW j \in S PROVE i >= j
    OBVIOUS
  <2>1. bound - i <= bound - j
    BY <1>2, <1>3
  <2>2. i \in Nat /\ j \in Nat
    OBVIOUS
  <2> QED
    BY <2>1, <2>2
<1> QED
  BY <1>4 DEF Max

\* The larger and the smaller of two numbers.
LEMMA MaxOfTwo ==
  ASSUME NEW a \in Int, NEW b \in Int
  PROVE  /\ Max({a, b}) \in {a, b} /\ Max({a, b}) >= a /\ Max({a, b}) >= b
         /\ Min({a, b}) \in {a, b} /\ Min({a, b}) <= a /\ Min({a, b}) <= b
<1>1. Max({a, b}) \in {a, b} /\ \A y \in {a, b} : Max({a, b}) >= y
  <2>1. \E x \in {a, b} : \A y \in {a, b} : x >= y
    OBVIOUS
  <2> QED
    BY <2>1 DEF Max
<1>2. Min({a, b}) \in {a, b} /\ \A y \in {a, b} : Min({a, b}) <= y
  <2>1. \E x \in {a, b} : \A y \in {a, b} : x =< y
    OBVIOUS
  <2> QED
    BY <2>1 DEF Min
<1> QED
  BY <1>1, <1>2

--------------------------------------------------------------------------------
(* Rows and lines.                                                             *)

Row == [kind : {"date", "message", "marker"}, id : Id, height : 1 .. View]

\* Any number of rows takes a number of lines.
LEMMA LinesFinite ==
  ASSUME NEW rs \in Seq(Row), NEW k \in Nat
  PROVE  IsFiniteSet(LinesOf(rs, 1 .. k - 1)) /\ FirstLine(rs, k) \in Nat
<1>1. IsFiniteSet(1 .. k - 1) /\ IsFiniteSet(1 .. View)
  <2>1. 1 \in Int /\ k - 1 \in Int /\ View \in Int
    BY ViewAssumption
  <2> QED
    BY <2>1, FS_Interval, Zenon
<1>2. IsFiniteSet((1 .. k - 1) \X (1 .. View))
  BY <1>1, FS_Product, Zenon
<1>3. LinesOf(rs, 1 .. k - 1) \in SUBSET ((1 .. k - 1) \X (1 .. View))
  BY DEF LinesOf
<1> QED
  BY <1>2, <1>3, FS_Subset, FS_CardinalityType, Zenon DEF FirstLine

\* The first row starts at line 0.
LEMMA LinesStart ==
  ASSUME NEW rs \in Seq(Row)
  PROVE  FirstLine(rs, 0) = 0 /\ FirstLine(rs, 1) = 0
<1>1. LinesOf(rs, 1 .. 0 - 1) = {} /\ LinesOf(rs, 1 .. 1 - 1) = {}
  BY DEF LinesOf
<1> QED
  BY <1>1, FS_EmptySet, Zenon DEF FirstLine

\* Row k takes as many lines as it is high.
LEMMA LinesStep ==
  ASSUME NEW rs \in Seq(Row), NEW k \in DOMAIN rs
  PROVE  FirstLine(rs, k + 1) = FirstLine(rs, k) + rs[k].height
<1> DEFINE h    == rs[k].height
           own  == {k} \X (1 .. h)
           past == LinesOf(rs, 1 .. k - 1)
<1>0. k \in Nat /\ k >= 1 /\ rs[k] \in Row /\ View \in Nat
  BY ViewAssumption
<1>1. k \in Nat /\ k >= 1 /\ rs[k] \in Row /\ h \in 1 .. View /\ View \in Nat
  BY <1>0 DEF Row
<1>2. IsFiniteSet(past) /\ Cardinality(past) \in Nat
  BY <1>1, LinesFinite, FS_CardinalityType
<1>3. IsFiniteSet(own) /\ Cardinality(own) = h
  <2>1. IsFiniteSet(1 .. h) /\ Cardinality(1 .. h) = h
    <3> HIDE DEF h
    <3>1. h \in Int /\ 1 \in Int /\ ~(1 > h) /\ h - 1 + 1 = h
      BY <1>1
    <3>2. IsFiniteSet(1 .. h) /\ Cardinality(1 .. h) = IF 1 > h THEN 0 ELSE h - 1 + 1
      BY <3>1, FS_Interval, Zenon
    <3> QED
      BY <3>1, <3>2
  <2>2. IsFiniteSet({k}) /\ Cardinality({k}) = 1
    BY FS_Singleton, Zenon
  <2>3. IsFiniteSet(own) /\ Cardinality(own) = Cardinality({k}) * Cardinality(1 .. h)
    BY <2>1, <2>2, FS_Product, Zenon
  <2> QED
    BY <1>1, <2>1, <2>2, <2>3
<1>4. LinesOf(rs, 1 .. (k + 1) - 1) = past \cup own
  <2>1. LinesOf(rs, 1 .. (k + 1) - 1) = LinesOf(rs, (1 .. k - 1) \cup {k})
    <3>1. 1 .. (k + 1) - 1 = (1 .. k - 1) \cup {k}
      BY <1>1
    <3> QED
      BY <3>1, Zenon
  <2>2. \A place \in (1 .. k) \X (1 .. View) : place = <<place[1], place[2]>>
    OBVIOUS
  <2>3. LinesOf(rs, {k}) = own
    BY <1>1 DEF LinesOf
  <2>4. LinesOf(rs, (1 .. k - 1) \cup {k}) = past \cup LinesOf(rs, {k})
    BY <1>1 DEF LinesOf
  <2> QED
    BY <2>1, <2>3, <2>4, Zenon
<1>5. past \cap own = {}
  BY <1>1 DEF LinesOf
<1>6. Cardinality(past \cup own) = Cardinality(past) + Cardinality(own) - Cardinality({})
  <2>1. Cardinality(past \cup own) = Cardinality(past) + Cardinality(own) - Cardinality(past \cap own)
    <3> HIDE DEF past, own
    <3> QED
      BY <1>2, <1>3, FS_Union, Zenon
  <2> QED
    BY <1>5, <2>1, Zenon
<1>7. Cardinality({}) = 0
  BY FS_EmptySet, Zenon
<1>8. FirstLine(rs, k + 1) = Cardinality(past \cup own) /\ FirstLine(rs, k) = Cardinality(past)
  <2>1. FirstLine(rs, k + 1) = Cardinality(LinesOf(rs, 1 .. (k + 1) - 1))
    BY Zenon DEF FirstLine
  <2>2. FirstLine(rs, k) = Cardinality(past)
    BY Zenon DEF FirstLine
  <2> HIDE DEF own, past
  <2> QED
    BY <1>4, <2>1, <2>2, Zenon
<1> HIDE DEF own, past, h
<1>9. FirstLine(rs, k + 1) = FirstLine(rs, k) + h
  BY <1>1, <1>2, <1>3, <1>6, <1>7, <1>8
<1> QED
  BY <1>9 DEF h

\* A later row starts no higher.
LEMMA LinesMonotone ==
  ASSUME NEW rs \in Seq(Row), NEW j \in Nat, NEW k \in Nat, j <= k
  PROVE  FirstLine(rs, j) <= FirstLine(rs, k)
<1>1. LinesOf(rs, 1 .. j - 1) \in SUBSET LinesOf(rs, 1 .. k - 1)
  BY DEF LinesOf
<1> QED
  BY <1>1, LinesFinite, FS_Subset, Zenon DEF FirstLine

\* A row of the list ends within its lines.
LEMMA LinesWithin ==
  ASSUME NEW rs \in Seq(Row), NEW k \in DOMAIN rs
  PROVE  /\ FirstLine(rs, k) \in Nat /\ FirstLine(rs, k + 1) \in Nat /\ Lines(rs) \in Nat
         /\ FirstLine(rs, k) < FirstLine(rs, k + 1) /\ FirstLine(rs, k + 1) <= Lines(rs)
         /\ FirstLine(rs, k + 1) <= FirstLine(rs, k) + View
<1>0. k \in Nat /\ Len(rs) \in Nat /\ k + 1 <= Len(rs) + 1 /\ rs[k] \in Row /\ View \in Nat
  BY ViewAssumption
<1>1. rs[k].height \in 1 .. View
  BY <1>0 DEF Row
<1>2. FirstLine(rs, k) \in Nat /\ FirstLine(rs, k + 1) \in Nat /\ Lines(rs) \in Nat
  BY <1>0, LinesFinite DEF Lines
<1>3. FirstLine(rs, k + 1) <= Lines(rs)
  BY <1>0, LinesMonotone DEF Lines
<1> QED
  BY <1>0, <1>1, <1>2, <1>3, LinesStep

\* The last place to scroll to shows the last line.
LEMMA MaxScrollFacts ==
  ASSUME NEW rs \in Seq(Row)
  PROVE  /\ Lines(rs) \in Nat /\ MaxScroll(rs) \in Nat
         /\ MaxScroll(rs) = IF Lines(rs) > View THEN Lines(rs) - View ELSE 0
<1>1. Lines(rs) \in Nat /\ View \in Nat
  <2>1. Len(rs) + 1 \in Nat
    OBVIOUS
  <2> QED
    BY <2>1, LinesFinite, ViewAssumption DEF Lines
<1> DEFINE m == MaxScroll(rs)
           d == Lines(rs) - View
<1>2. d \in Int /\ 0 \in Int
  BY <1>1
<1>3. m \in {0, d} /\ m >= 0 /\ m >= d
  <2> HIDE DEF d
  <2>1. Max({0, d}) \in {0, d} /\ Max({0, d}) >= 0 /\ Max({0, d}) >= d
    BY <1>2, MaxOfTwo
  <2> QED
    BY <2>1, Zenon DEF MaxScroll, d
<1> HIDE DEF m
<1>4. m \in Nat /\ m = IF Lines(rs) > View THEN Lines(rs) - View ELSE 0
  BY <1>1, <1>3
<1> QED
  BY <1>1, <1>4 DEF m

--------------------------------------------------------------------------------
(* A set of rows in the order of their slots.                                  *)

LEMMA SlotIsNumber ==
  ASSUME NEW row \in Row
  PROVE  /\ Slot(row) \in Nat
         /\ row.kind = "date" => Slot(row) = 3 * row.id
         /\ row.kind = "message" => Slot(row) = 3 * row.id + 1
         /\ row.kind = "marker" => Slot(row) = 3 * row.id + 2
<1>1. Part["date"] = 0 /\ Part["message"] = 1 /\ Part["marker"] = 2
  BY DEF Part
<1>2. row.id \in Nat /\ row.kind \in {"date", "message", "marker"}
  BY BoundsAssumption DEF Row, Id
<1> QED
  BY <1>1, <1>2 DEF Slot

Apart(R) == \A r, s \in R : Slot(r) = Slot(s) => r = s

Place(R, row) == 1 + Cardinality(Above(R, row))

LEMMA PlaceRange ==
  ASSUME NEW R \in SUBSET Row, IsFiniteSet(R), NEW row \in R
  PROVE  /\ IsFiniteSet(Above(R, row)) /\ Cardinality(Above(R, row)) \in Nat
         /\ Place(R, row) \in 1 .. Cardinality(R) /\ Cardinality(R) \in Nat
<1>1. row \notin Above(R, row)
  BY SlotIsNumber DEF Above
<1>2. Above(R, row) \in SUBSET R
  BY DEF Above
<1>3. /\ IsFiniteSet(Above(R, row)) /\ Cardinality(Above(R, row)) <= Cardinality(R)
      /\ Cardinality(R) = Cardinality(Above(R, row)) => R = Above(R, row)
  BY <1>2, FS_Subset, Zenon
<1>4. Cardinality(Above(R, row)) \in Nat /\ Cardinality(R) \in Nat
  BY <1>3, FS_CardinalityType, Zenon
<1>5. Cardinality(R) # Cardinality(Above(R, row))
  BY <1>1, <1>3
<1> QED
  BY <1>3, <1>4, <1>5 DEF Place

LEMMA PlaceMonotone ==
  ASSUME NEW R \in SUBSET Row, IsFiniteSet(R), NEW r \in R, NEW s \in R, Slot(r) < Slot(s)
  PROVE  Place(R, r) < Place(R, s)
<1>1. r \notin Above(R, r)
  BY SlotIsNumber DEF Above
<1>2. Above(R, r) \cup {r} \in SUBSET Above(R, s)
  <2>1. r \in Above(R, s)
    BY DEF Above
  <2>2. ASSUME NEW t \in Above(R, r) PROVE t \in Above(R, s)
    <3>1. t \in R /\ Slot(t) < Slot(r)
      BY DEF Above
    <3>2. Slot(t) \in Nat /\ Slot(r) \in Nat /\ Slot(s) \in Nat
      BY <3>1, SlotIsNumber
    <3> QED
      BY <3>1, <3>2 DEF Above
  <2> QED
    BY <2>1, <2>2
<1>3. /\ IsFiniteSet(Above(R, r)) /\ Cardinality(Above(R, r)) \in Nat
      /\ IsFiniteSet(Above(R, s)) /\ Cardinality(Above(R, s)) \in Nat
  BY PlaceRange
<1>4. Cardinality(Above(R, r) \cup {r}) = Cardinality(Above(R, r)) + 1
  BY <1>1, <1>3, FS_AddElement
<1>5. Cardinality(Above(R, r) \cup {r}) <= Cardinality(Above(R, s))
  BY <1>2, <1>3, FS_Subset, Zenon
<1> QED
  BY <1>3, <1>4, <1>5 DEF Place

\* Rows in their places: every row once, each above those of the larger slots.
LEMMA InOrderFacts ==
  ASSUME NEW R \in SUBSET Row, IsFiniteSet(R), Apart(R)
  PROVE  /\ InOrder(R) \in Seq(Row) /\ InOrder(R) \in Seq(R)
         /\ \A r \in R : \E k \in DOMAIN InOrder(R) : InOrder(R)[k] = r
         /\ \A i, j \in DOMAIN InOrder(R) :
               i < j <=> Slot(InOrder(R)[i]) < Slot(InOrder(R)[j])
<1> DEFINE n == Cardinality(R)
           P == [r \in R |-> Place(R, r)]
           q == InOrder(R)
<1>1. n \in Nat
  BY FS_CardinalityType
<1>2. IsFiniteSet(1 .. n) /\ Cardinality(1 .. n) = n
  <2> HIDE DEF n
  <2>1. IsFiniteSet(1 .. n) /\ Cardinality(1 .. n) = IF 1 > n THEN 0 ELSE n - 1 + 1
    <3>1. n \in Int /\ 1 \in Int
      BY <1>1
    <3> QED
      BY <3>1, FS_Interval, Zenon
  <2> QED
    BY <1>1, <2>1
<1>3. P \in [R -> 1 .. n]
  BY PlaceRange
<1>4. \A r, s \in R : Place(R, r) = Place(R, s) => r = s
  <2> SUFFICES ASSUME NEW r \in R, NEW s \in R, Place(R, r) = Place(R, s) PROVE r = s
    OBVIOUS
  <2>1. Slot(r) \in Nat /\ Slot(s) \in Nat /\ Place(R, r) \in Nat /\ Place(R, s) \in Nat
    BY SlotIsNumber, PlaceRange
  <2>2. ~(Slot(r) < Slot(s)) /\ ~(Slot(s) < Slot(r))
    BY <2>1, PlaceMonotone
  <2> QED
    BY <2>1, <2>2 DEF Apart
<1>5. P \in Injection(R, 1 .. n)
  BY <1>3, <1>4 DEF Injection, IsInjective
<1>6. P \in Surjection(R, 1 .. n)
  <2> HIDE DEF P
  <2> QED
    BY <1>2, <1>5, FS_Injection
<1>7. \A k \in 1 .. n : \E r \in R : Place(R, r) = k
  BY <1>6 DEF Surjection
<1>8. \A r \in R, k \in 1 .. n : Place(R, r) = k <=> Cardinality(Above(R, r)) = k - 1
  BY PlaceRange DEF Place
<1>9. q = [k \in 1 .. n |-> CHOOSE r \in R : Cardinality(Above(R, r)) = k - 1]
  BY DEF InOrder
<1>10. \A k \in 1 .. n : q[k] \in R /\ Place(R, q[k]) = k
  <2> SUFFICES ASSUME NEW k \in 1 .. n PROVE q[k] \in R /\ Place(R, q[k]) = k
    OBVIOUS
  <2>1. q[k] = CHOOSE r \in R : Cardinality(Above(R, r)) = k - 1
    BY <1>9
  <2>2. \E r \in R : Cardinality(Above(R, r)) = k - 1
    BY <1>7, <1>8
  <2>3. q[k] \in R /\ Cardinality(Above(R, q[k])) = k - 1
    BY <2>1, <2>2, Zenon
  <2> QED
    BY <1>8, <2>3
<1>11. DOMAIN q = 1 .. n
  BY <1>9
<1> HIDE DEF q, n
<1>12. q \in Seq(R)
  <2>1. q \in [1 .. n -> R]
    BY <1>9, <1>10, <1>11
  <2> QED
    BY <1>1, <2>1
<1>13. q \in Seq(Row)
  BY <1>12
<1>14. \A r \in R : \E k \in 1 .. n : q[k] = r
  <2> SUFFICES ASSUME NEW r \in R PROVE q[Place(R, r)] = r /\ Place(R, r) \in 1 .. n
    OBVIOUS
  <2>1. Place(R, r) \in 1 .. n
    BY PlaceRange DEF n
  <2> QED
    BY <1>4, <1>10, <2>1
<1>15. \A i, j \in 1 .. n : i < j <=> Slot(q[i]) < Slot(q[j])
  <2> SUFFICES ASSUME NEW i \in 1 .. n, NEW j \in 1 .. n
               PROVE  i < j <=> Slot(q[i]) < Slot(q[j])
    OBVIOUS
  <2>1. /\ q[i] \in R /\ q[j] \in R /\ Place(R, q[i]) = i /\ Place(R, q[j]) = j
        /\ Slot(q[i]) \in Nat /\ Slot(q[j]) \in Nat
    BY <1>10, SlotIsNumber
  <2>2. Slot(q[i]) < Slot(q[j]) => i < j
    BY <2>1, PlaceMonotone
  <2>3. Slot(q[j]) < Slot(q[i]) => j < i
    BY <2>1, PlaceMonotone
  <2>4. Slot(q[i]) = Slot(q[j]) => i = j
    BY <2>1 DEF Apart
  <2> QED
    BY <1>1, <2>1, <2>2, <2>3, <2>4
<1> QED
  BY <1>11, <1>12, <1>13, <1>14, <1>15 DEF q

LEMMA IdsAreNumbers == Id \subseteq Nat
  BY BoundsAssumption DEF Id

\* The rows of a buffer are told apart by their slots, and there are finitely many.
LEMMA RowSetFacts ==
  ASSUME NEW ids \in SUBSET Id, NEW mark, NEW date
  PROVE  /\ RowSet(ids, mark, date) \in SUBSET Row
         /\ Apart(RowSet(ids, mark, date)) /\ IsFiniteSet(RowSet(ids, mark, date))
<1> DEFINE R == RowSet(ids, mark, date)
           Kinds == {"date", "message", "marker"}
<1>1. 1 \in 1 .. View /\ MaxId \in Nat /\ \A i \in ids : Height[i] \in 1 .. View
  BY HeightAssumption, ViewAssumption, BoundsAssumption
<1>2. R \in SUBSET Row
  BY <1>1 DEF RowSet, Row, MessageRow, Separator, Marker
<1>3. \A r, s \in R : r.kind = s.kind /\ r.id = s.id => r = s
  BY DEF RowSet, MessageRow, Separator, Marker
<1>4. \A r \in R : r \in Row /\ Slot(r) \in 0 .. 3 * MaxId + 2
  <2> SUFFICES ASSUME NEW r \in R PROVE Slot(r) \in 0 .. 3 * MaxId + 2
    BY <1>2
  <2>1. r.id \in 1 .. MaxId /\ r.kind \in Kinds
    BY <1>2 DEF Row, Id
  <2> QED
    BY <1>1, <1>2, <2>1, SlotIsNumber
<1>5. Apart(R)
  <2> SUFFICES ASSUME NEW r \in R, NEW s \in R, Slot(r) = Slot(s) PROVE r = s
    BY DEF Apart
  <2>1. r \in Row /\ s \in Row
    BY <1>2
  <2>2. r.id \in Nat /\ r.kind \in Kinds /\ s.id \in Nat /\ s.kind \in Kinds
    BY <2>1, BoundsAssumption DEF Row, Id
  <2>3. r.id = s.id /\ r.kind = s.kind
    BY <2>1, <2>2, SlotIsNumber
  <2> QED
    BY <1>3, <2>3
<1> DEFINE f == [r \in R |-> Slot(r)]
<1>6. f \in Injection(R, 0 .. 3 * MaxId + 2)
  BY <1>4, <1>5 DEF Apart, Injection, IsInjective
<1>7. IsFiniteSet(0 .. 3 * MaxId + 2)
  <2>1. 0 \in Int /\ 3 * MaxId + 2 \in Int
    BY <1>1
  <2> QED
    BY <2>1, FS_Interval, Zenon
<1>8. IsFiniteSet(R)
  <2> HIDE DEF f
  <2> QED
    BY <1>6, <1>7, FS_Injection
<1> QED
  BY <1>2, <1>5, <1>8

\* What is above a message is its separator, and what is below it its marker: so
\* separators are followed by messages, and there is at most one marker.
WellLaid(rs) ==
  /\ rs \in Seq(Row)
  /\ \A k \in DOMAIN rs : ~IsMessage(rs[k]) => rs[k].height = 1
  /\ \A k \in DOMAIN rs : rs[k].kind = "date" => k + 1 \in MessagesIn(rs)
  /\ \A j, k \in DOMAIN rs : rs[j].kind = "marker" /\ rs[k].kind = "marker" => j = k

LEMMA RowsWellLaid ==
  ASSUME NEW ids \in SUBSET Id, NEW mark, NEW date
  PROVE  WellLaid(Rows(ids, mark, date))
<1> DEFINE R == RowSet(ids, mark, date)
           q == InOrder(R)
<1>1. R \in SUBSET Row /\ Apart(R) /\ IsFiniteSet(R)
  BY RowSetFacts
<1>2. /\ \A r \in R : r.kind # "message" => r.height = 1
      /\ \A r \in R : r.kind = "date" => r.id \in ids
      /\ \A i \in ids : MessageRow(i) \in R
      /\ \A r, s \in R : r.kind = "marker" /\ s.kind = "marker" => r = s
  BY DEF RowSet, MessageRow, Separator, Marker
<1> HIDE DEF R
<1>3. /\ q \in Seq(Row) /\ q \in Seq(R)
      /\ \A r \in R : \E k \in DOMAIN q : q[k] = r
      /\ \A i, j \in DOMAIN q : i < j <=> Slot(q[i]) < Slot(q[j])
  BY <1>1, InOrderFacts
<1> HIDE DEF q
<1>4. \A k \in DOMAIN q : k \in Nat /\ q[k] \in R /\ q[k] \in Row /\ Slot(q[k]) \in Nat
  BY <1>3, SlotIsNumber
<1>5. \A k \in DOMAIN q : ~IsMessage(q[k]) => q[k].height = 1
  BY <1>2, <1>4 DEF IsMessage
<1>6. \A j, k \in DOMAIN q : q[j].kind = "marker" /\ q[k].kind = "marker" => j = k
  <2> SUFFICES ASSUME NEW j \in DOMAIN q, NEW k \in DOMAIN q,
                      q[j].kind = "marker", q[k].kind = "marker"
               PROVE  j = k
    OBVIOUS
  <2>1. q[j] = q[k]
    BY <1>2, <1>4
  <2>2. ~(j < k) /\ ~(k < j)
    BY <1>3, <1>4, <2>1
  <2> QED
    BY <1>4, <2>2
<1>7. \A k \in DOMAIN q : q[k].kind = "date" => k + 1 \in MessagesIn(q)
  <2> SUFFICES ASSUME NEW k \in DOMAIN q, q[k].kind = "date" PROVE k + 1 \in MessagesIn(q)
    OBVIOUS
  <2> DEFINE i == q[k].id
  <2>1. i \in ids /\ i \in Nat /\ MessageRow(i) \in R
    <3>1. i \in ids
      BY <1>2, <1>4
    <3>2. \A j \in ids : j \in Nat
      BY IdsAreNumbers, Zenon
    <3> QED
      BY <1>2, <3>1, <3>2, Zenon
  <2>2. PICK m \in DOMAIN q : q[m] = MessageRow(i)
    BY <1>3, <2>1
  <2>3. Slot(q[k]) = 3 * i /\ Slot(q[m]) = 3 * i + 1 /\ IsMessage(q[m])
    <3>1. MessageRow(i).kind = "message" /\ MessageRow(i).id = i
      BY DEF MessageRow
    <3> QED
      BY <1>4, <2>2, <3>1, SlotIsNumber DEF IsMessage
  <2> HIDE DEF i
  <2>4. k < m
    BY <1>3, <2>1, <2>3
  <2>5. k + 1 \in DOMAIN q
    BY <1>3, <2>4
  <2>6. k + 1 = m
    <3> SUFFICES ASSUME k + 1 < m PROVE FALSE
      BY <1>4, <2>4
    <3>1. Slot(q[k]) < Slot(q[k + 1]) /\ Slot(q[k + 1]) < Slot(q[m])
      <4>1. k < k + 1
        BY <1>4
      <4> QED
        BY <1>3, <2>5, <4>1
    <3> QED
      BY <1>4, <2>1, <2>3, <2>5, <3>1
  <2> QED
    BY <2>3, <2>6 DEF MessagesIn
<1> QED
  BY <1>3, <1>5, <1>6, <1>7 DEF WellLaid, Rows, q, R

--------------------------------------------------------------------------------
(* Finding rows.                                                               *)

LEMMA MessagesInRows ==
  ASSUME NEW rs \in Seq(Row)
  PROVE  /\ Len(rs) \in Nat /\ MessagesIn(rs) \in SUBSET (1 .. Len(rs))
         /\ MessagesIn(rs) \cup {NoRow} \in SUBSET (0 .. Len(rs))
  BY DEF MessagesIn, NoRow

\* get_option_index finds the message if it is there, and no other row.
LEMMA RowOfFacts ==
  ASSUME NEW rs \in Seq(Row), NEW id
  PROVE  /\ RowOf(rs, id) # NoRow =>
              RowOf(rs, id) \in MessagesIn(rs) /\ rs[RowOf(rs, id)].id = id
         /\ \A k \in MessagesIn(rs) : rs[k].id = id => RowOf(rs, id) # NoRow
<1> DEFINE here == {k \in MessagesIn(rs) : rs[k].id = id}
<1>1. here \cup {NoRow} \in SUBSET (0 .. Len(rs)) /\ Len(rs) \in Nat
  BY MessagesInRows
<1>2. RowOf(rs, id) \in here \cup {NoRow} /\ \A j \in here : RowOf(rs, id) >= j
  <2> HIDE DEF here
  <2>1. Max(here \cup {NoRow}) \in here \cup {NoRow}
    BY <1>1, GreatestOf
  <2>2. \A j \in here \cup {NoRow} : Max(here \cup {NoRow}) >= j
    BY <1>1, GreatestOf
  <2> QED
    BY <2>1, <2>2, Zenon DEF RowOf, here
<1>3. RowOf(rs, id) # NoRow => RowOf(rs, id) \in here
  BY <1>2
<1>4. ASSUME NEW k \in here PROVE RowOf(rs, id) # NoRow
  <2>1. k \in Nat /\ k >= 1
    BY MessagesInRows
  <2>2. RowOf(rs, id) >= k
    BY <1>2
  <2> QED
    BY <2>1, <2>2 DEF NoRow
<1> QED
  BY <1>3, <1>4

LEMMA LastMessageFacts ==
  ASSUME NEW rs \in Seq(Row)
  PROVE  /\ LastMessage(rs) \in MessagesIn(rs) \cup {NoRow}
         /\ \A j \in MessagesIn(rs) : LastMessage(rs) >= j
  BY MessagesInRows, GreatestOf DEF LastMessage

LEMMA FirstMessageFacts ==
  ASSUME NEW rs \in Seq(Row), NEW k
  PROVE  /\ FirstMessageFrom(rs, k) \in MessagesIn(rs) \cup {NoRow}
         /\ \A m \in MessagesIn(rs) : m >= k =>
              FirstMessageFrom(rs, k) >= k /\ FirstMessageFrom(rs, k) <= m
<1> DEFINE below == {j \in MessagesIn(rs) : j >= k}
<1>1. below \in SUBSET Nat
  BY MessagesInRows
<1>2. CASE below # {}
  <2>1. Min(below) \in below /\ \A j \in below : Min(below) <= j
    <3> HIDE DEF below
    <3> QED
      BY <1>1, <1>2, LeastOf
  <2>2. FirstMessageFrom(rs, k) = Min(below)
    BY <1>2 DEF FirstMessageFrom
  <2> QED
    BY <2>1, <2>2
<1>3. CASE below = {}
  <2>1. FirstMessageFrom(rs, k) = Max(MessagesIn(rs) \cup {NoRow})
    BY <1>3 DEF FirstMessageFrom
  <2> QED
    BY <1>3, <2>1, MessagesInRows, GreatestOf
<1> QED
  BY <1>2, <1>3

\* The row a line of the list belongs to.
LEMMA RowAtFacts ==
  ASSUME NEW rs \in Seq(Row), NEW y \in Nat, y < Lines(rs)
  PROVE  /\ RowAt(rs, y) \in DOMAIN rs
         /\ FirstLine(rs, RowAt(rs, y)) <= y /\ y < FirstLine(rs, RowAt(rs, y) + 1)
<1> DEFINE S == {k \in DOMAIN rs : FirstLine(rs, k) <= y}
           k == RowAt(rs, y)
<1>1. Len(rs) \in Nat /\ DOMAIN rs = 1 .. Len(rs)
  OBVIOUS
<1>2. rs # <<>>
  BY LinesStart DEF Lines
<1>3. 1 \in S
  <2>1. 1 \in DOMAIN rs
    BY <1>1, <1>2
  <2> QED
    BY <2>1, LinesStart
<1>4. S \in SUBSET (0 .. Len(rs))
  BY <1>1
<1>5. k \in S /\ \A j \in S : k >= j
  <2>1. Max(S) \in S /\ \A j \in S : Max(S) >= j
    <3> HIDE DEF S
    <3> QED
      BY <1>1, <1>3, <1>4, GreatestOf
  <2> QED
    BY <2>1, Zenon DEF RowAt
<1> HIDE DEF k
<1>6. k \in DOMAIN rs /\ FirstLine(rs, k) <= y
  BY <1>5
<1>7. y < FirstLine(rs, k + 1)
  <2>1. CASE k = Len(rs)
    BY <2>1 DEF Lines
  <2>2. CASE k # Len(rs)
    <3>1. k + 1 \in DOMAIN rs /\ k + 1 \notin S
      BY <1>1, <1>5, <1>6, <2>2
    <3>2. FirstLine(rs, k + 1) \in Nat
      BY <1>6, LinesWithin
    <3> QED
      BY <3>1, <3>2
  <2> QED
    BY <2>1, <2>2
<1> QED
  BY <1>6, <1>7 DEF k

--------------------------------------------------------------------------------
(* What every state of the log satisfies.                                      *)

LogTypeOK ==
  /\ today \in 1 .. LastDay /\ messages \in SUBSET Id /\ marker \in {NoId} \cup Id
  /\ rows \in Seq(Row) /\ highlighted \in Nat /\ scroll \in Nat /\ click \in Nat

\* As many messages newer than this one are kept as the cap allows.
PushedOut(id) == Cardinality({j \in messages : j > id}) >= Cap

\* The list shows the messages of some earlier time: those that are gone were pushed
\* out by newer ones.
Shown ==
  \E ids \in SUBSET Id, mark \in {NoId} \cup Id, date \in 1 .. LastDay :
     /\ rows = Rows(ids, mark, date)
     /\ \A x \in ids : x \in messages \/ PushedOut(x)

\* No more messages are kept than the cap allows.
Capped == messages \subseteq Trim(messages)

LogInv == LogTypeOK /\ Capped /\ Shown /\ CursorOnMessage

--------------------------------------------------------------------------------
(* The retention cap.                                                          *)

Newer(ids, x) == {j \in ids : j > x}

LEMMA NewerFinite ==
  ASSUME NEW ids \in SUBSET Id, NEW x
  PROVE  IsFiniteSet(Newer(ids, x)) /\ Cardinality(Newer(ids, x)) \in Nat
<1>1. IsFiniteSet(Id)
  <2>1. 1 \in Int /\ MaxId \in Int
    BY BoundsAssumption
  <2> QED
    BY <2>1, FS_Interval, Zenon DEF Id
<1>2. Newer(ids, x) \in SUBSET Id
  BY DEF Newer
<1> QED
  BY <1>1, <1>2, FS_Subset, FS_CardinalityType, Zenon

LEMMA NewerMonotone ==
  ASSUME NEW S \in SUBSET Id, NEW T \in SUBSET Id, NEW x \in Id, NEW y \in Id, y <= x,
         \A j \in S : j > x => j \in T
  PROVE  Cardinality(Newer(S, x)) <= Cardinality(Newer(T, y))
<1>1. x \in Nat /\ y \in Nat /\ \A j \in S : j \in Nat
  BY BoundsAssumption DEF Id
<1>2. ASSUME NEW j \in Newer(S, x) PROVE j \in Newer(T, y)
  <2>1. j \in S /\ j > x /\ j \in Nat
    BY <1>1 DEF Newer
  <2>2. j > y /\ j \in T
    BY <1>1, <2>1
  <2> QED
    BY <2>2 DEF Newer
<1>3. Newer(S, x) \in SUBSET Newer(T, y)
  BY <1>2
<1> QED
  BY <1>3, NewerFinite, FS_Subset, Zenon

\* What the cap keeps are the newest, and a message with Cap newer ones has Cap newer
\* ones that are kept.
LEMMA TrimFacts ==
  ASSUME NEW S \in SUBSET Id
  PROVE  /\ Trim(S) \in SUBSET S /\ Trim(S) \subseteq Trim(Trim(S))
         /\ \A x \in Id : Cardinality(Newer(S, x)) >= Cap =>
              x \notin Trim(S) /\ Cardinality(Newer(Trim(S), x)) >= Cap
<1> DEFINE T == Trim(S)
<1>0. Cap \in Nat /\ MaxId \in Nat /\ \A j \in Id : j \in Nat
  BY CapAssumption, BoundsAssumption DEF Id
<1>1. T \in SUBSET S /\ T \in SUBSET Id
  BY DEF Trim
<1>2. \A x \in S : x \in T <=> Cardinality(Newer(S, x)) < Cap
  BY DEF Trim, Newer
<1> HIDE DEF T
<1>3. \A x : Cardinality(Newer(S, x)) \in Nat /\ Cardinality(Newer(T, x)) \in Nat
  BY <1>1, NewerFinite
<1>4. T \subseteq Trim(T)
  <2> SUFFICES ASSUME NEW x \in T PROVE Cardinality(Newer(T, x)) < Cap
    BY DEF Trim, Newer
  <2>1. Cardinality(Newer(T, x)) <= Cardinality(Newer(S, x))
    <3>1. x \in Id /\ x <= x /\ \A j \in T : j > x => j \in S
      BY <1>0, <1>1
    <3> QED
      BY <1>1, <3>1, NewerMonotone
  <2> QED
    BY <1>0, <1>1, <1>2, <1>3, <2>1
<1>5. ASSUME NEW x \in Id, Cardinality(Newer(S, x)) >= Cap
      PROVE  x \notin T /\ Cardinality(Newer(T, x)) >= Cap
  <2>1. x \notin T
    BY <1>0, <1>1, <1>2, <1>3, <1>5
  <2>2. CASE S \subseteq T
    <3>1. T = S
      BY <1>1, <2>2
    <3> QED
      BY <1>5, <2>1, <3>1, Zenon
  <2>3. CASE ~(S \subseteq T)
    <3> DEFINE out == S \ T
               m   == Max(out)
    <3>1. m \in out /\ \A j \in out : m >= j
      <4>1. out \in SUBSET (0 .. MaxId) /\ out # {} /\ MaxId \in Nat
        <5>1. Id \subseteq 0 .. MaxId /\ MaxId \in Nat
          BY <1>0 DEF Id
        <5> QED
          BY <2>3, <5>1
      <4> HIDE DEF out
      <4> QED
        BY <4>1, GreatestOf
    <3> HIDE DEF m
    <3>2. m \in S /\ m \in Nat /\ x \in Nat /\ Cardinality(Newer(S, m)) >= Cap
      BY <1>0, <1>2, <1>3, <3>1
    <3>3. \A j \in S : j \in Nat /\ (j > m => j \in T)
      BY <1>0, <3>1
    <3>4. CASE x <= m
      <4>1. m \in Id /\ \A j \in S : j > m => j \in T
        BY <3>2, <3>3
      <4>2. Cardinality(Newer(S, m)) <= Cardinality(Newer(T, x))
        BY <1>1, <3>4, <4>1, NewerMonotone
      <4> QED
        BY <1>0, <1>3, <2>1, <3>2, <4>2
    <3>5. CASE ~(x <= m)
      <4>1. x <= x /\ \A j \in S : j > x => j \in T
        BY <3>2, <3>3, <3>5
      <4>2. Cardinality(Newer(S, x)) <= Cardinality(Newer(T, x))
        BY <1>1, <4>1, NewerMonotone
      <4> QED
        BY <1>0, <1>3, <1>5, <2>1, <4>2
    <3> QED
      BY <3>4, <3>5
  <2> QED
    BY <2>2, <2>3
<1> QED
  BY <1>1, <1>4, <1>5 DEF T

\* A message that was pushed out is older than all that are kept.
LEMMA PushedOutIsOlder ==
  ASSUME LogTypeOK, Capped, NEW x \in Id, PushedOut(x)
  PROVE  \A i \in messages : i > x
<1> SUFFICES ASSUME NEW i \in messages, ~(i > x) PROVE FALSE
  OBVIOUS
<1>1. messages \in SUBSET Id /\ i \in Nat /\ x \in Nat /\ Cap \in Nat
  BY CapAssumption, BoundsAssumption DEF LogTypeOK, Id
<1>2. i \in Id /\ i <= x
  BY <1>1
<1>3. Cardinality(Newer(messages, x)) <= Cardinality(Newer(messages, i))
  <2>1. \A j \in messages : j > x => j \in messages
    OBVIOUS
  <2> QED
    BY <1>1, <1>2, <2>1, NewerMonotone
<1>4. Cardinality(Newer(messages, x)) >= Cap
  BY DEF PushedOut, Newer
<1>5. Cardinality(Newer(messages, i)) < Cap
  BY DEF Capped, Trim, Newer
<1>6. Cardinality(Newer(messages, x)) \in Nat /\ Cardinality(Newer(messages, i)) \in Nat
  BY <1>1, NewerFinite
<1> QED
  BY <1>1, <1>3, <1>4, <1>5, <1>6

--------------------------------------------------------------------------------
(* The steps.                                                                  *)

\* A list without messages has no rows and no lines.
LEMMA EmptyList ==
  /\ <<>> \in Seq(Row) /\ MaxScroll(<<>>) = 0 /\ Lines(<<>>) = 0
  /\ \A mark, date : Rows({}, mark, date) = <<>>
<1>1. <<>> \in Seq(Row) /\ Len(<<>>) = 0
  OBVIOUS
<1>2. Lines(<<>>) = 0
  <2>1. Len(<<>>) + 1 = 1
    BY <1>1
  <2>2. FirstLine(<<>>, 1) = 0
    BY <1>1, LinesStart, Zenon
  <2> QED
    BY <2>1, <2>2, Zenon DEF Lines
<1>3. MaxScroll(<<>>) = 0
  <2>1. MaxScroll(<<>>) = IF Lines(<<>>) > View THEN Lines(<<>>) - View ELSE 0
    BY <1>1, MaxScrollFacts, Zenon
  <2>2. ~(0 > View)
    BY ViewAssumption
  <2> QED
    BY <1>2, <2>1, <2>2, Zenon
<1>4. ASSUME NEW mark, NEW date PROVE Rows({}, mark, date) = <<>>
  <2>1. RowSet({}, mark, date) = {}
    BY DEF RowSet
  <2>2. Cardinality(RowSet({}, mark, date)) = 0
    BY <2>1, FS_EmptySet, Zenon
  <2> QED
    BY <2>2 DEF Rows, InOrder
<1> QED
  BY <1>1, <1>2, <1>3, <1>4

\* The rows on show are laid out like any that _rebuild makes.
LEMMA ShownWellLaid ==
  ASSUME Shown
  PROVE  WellLaid(rows) /\ rows \in Seq(Row)
  BY RowsWellLaid DEF Shown, WellLaid

\* The log opens empty.
LEMMA LogInitInv == LogInit => LogInv
<1> SUFFICES ASSUME LogInit PROVE LogInv
  OBVIOUS
<1>1. LogTypeOK
  BY BoundsAssumption, EmptyList DEF LogInit, LogTypeOK, NoRow
<1>2. Shown
  <2>1. {} \in SUBSET Id /\ NoId \in {NoId} \cup Id /\ 1 \in 1 .. LastDay
    BY BoundsAssumption
  <2>2. rows = Rows({}, NoId, 1) /\ \A x \in {} : x \in messages \/ PushedOut(x)
    BY EmptyList DEF LogInit
  <2> QED
    BY <2>1, <2>2 DEF Shown
<1>3. Capped
  BY DEF LogInit, Capped
<1>4. CursorOnMessage
  BY EmptyList DEF LogInit, CursorOnMessage, NoRow
<1> QED
  BY <1>1, <1>2, <1>3, <1>4 DEF LogInv

\* Textual scrolls no further than the row needs, and stays on the list.
LEMMA MoveCursorFacts ==
  ASSUME rows \in Seq(Row), scroll \in 0 .. MaxScroll(rows), NEW k \in DOMAIN rows,
         MoveCursor(k)
  PROVE  /\ highlighted' = k /\ scroll' \in 0 .. MaxScroll(rows)
         /\ OnScreen(rows, k, scroll')
<1> DEFINE first == FirstLine(rows, k)
           next  == FirstLine(rows, k + 1)
           most  == MaxScroll(rows)
           all   == Lines(rows)
           h     == rows[k].height
           last  == first + h - 1
<1>1. k \in Nat /\ rows[k] \in Row /\ View \in Nat
  BY ViewAssumption
<1>2. h \in 1 .. View /\ next = first + h
  BY <1>1, LinesStep DEF Row
<1>3. first \in Nat /\ next \in Nat /\ all \in Nat /\ next <= all
  BY LinesWithin
<1>4. most \in Nat /\ most = IF all > View THEN all - View ELSE 0
  BY MaxScrollFacts
<1>5. /\ highlighted' = k
      /\ scroll' = IF first < scroll THEN first
                   ELSE IF last >= scroll + View THEN last - View + 1
                   ELSE scroll
  BY Zenon DEF MoveCursor
<1>6. scroll \in 0 .. most
  OBVIOUS
<1>7. OnScreen(rows, k, scroll') <=> first < scroll' + View /\ next > scroll'
  BY DEF OnScreen
<1> HIDE DEF first, next, most, all, h
<1>8. last \in Int /\ last = first + h - 1
  BY <1>2, <1>3
<1> HIDE DEF last
<1>9. scroll' \in 0 .. most /\ first < scroll' + View /\ next > scroll'
  <2>1. CASE first < scroll
    BY <1>1, <1>2, <1>3, <1>4, <1>5, <1>6, <1>8, <2>1
  <2>2. CASE ~(first < scroll) /\ last >= scroll + View
    BY <1>1, <1>2, <1>3, <1>4, <1>5, <1>6, <1>8, <2>2
  <2>3. CASE ~(first < scroll) /\ ~(last >= scroll + View)
    BY <1>1, <1>2, <1>3, <1>4, <1>5, <1>6, <1>8, <2>3
  <2> QED
    BY <2>1, <2>2, <2>3
<1> QED
  BY <1>5, <1>7, <1>9 DEF most

\* Restoring the anchor stays on the list.
LEMMA AnchorOnList ==
  ASSUME NEW rs \in Seq(Row), NEW now \in Seq(Row), NEW y \in Nat
  PROVE  RestoreAnchor(now, Anchor(rs, y)) \in 0 .. MaxScroll(now)
<1> DEFINE top  == TopMessage(rs, y)
           k    == RowOf(now, rs[top].id)
           back == FirstLine(now, k) + (y - FirstLine(rs, top))
           most == MaxScroll(now)
<1>1. top \in Nat
  <2>1. top \in MessagesIn(rs) \cup {NoRow}
    BY FirstMessageFacts DEF TopMessage
  <2> QED
    BY <2>1, MessagesInRows DEF NoRow
<1>2. k \in Nat
  <2> HIDE DEF top
  <2>1. k # NoRow => k \in MessagesIn(now)
    BY RowOfFacts
  <2> QED
    BY <2>1, MessagesInRows DEF NoRow
<1>3. FirstLine(now, k) \in Nat /\ FirstLine(rs, top) \in Nat /\ most \in Nat
  <2> HIDE DEF k, top
  <2> QED
    BY <1>1, <1>2, LinesFinite, MaxScrollFacts DEF most
<1>4. RestoreAnchor(now, Anchor(rs, y)) =
        IF k = NoRow THEN 0 ELSE Min({most, Max({0, back})})
  BY DEF RestoreAnchor, Anchor
<1>5. back \in Int
  <2> HIDE DEF k, top
  <2> QED
    BY <1>3
<1> HIDE DEF back, most, k, top
<1> DEFINE least == Max({0, back})
<1>6. least \in Int /\ least >= 0
  <2>1. 0 \in Int
    OBVIOUS
  <2>2. least \in {0, back} /\ least >= 0
    BY <1>5, <2>1, MaxOfTwo, Zenon
  <2> QED
    BY <1>5, <2>2
<1> HIDE DEF least
<1>7. Min({most, least}) \in {most, least} /\ Min({most, least}) <= most
  <2>1. most \in Int
    BY <1>3
  <2> QED
    BY <1>6, <2>1, MaxOfTwo, Zenon
<1>8. Min({most, least}) \in 0 .. most
  BY <1>3, <1>6, <1>7
<1> QED
  BY <1>3, <1>4, <1>8 DEF most, least

\* A list just built shows what is kept.
LEMMA RebuiltShown ==
  ASSUME messages' \in SUBSET Id, marker' \in {NoId} \cup Id, today \in 1 .. LastDay, Rebuild
  PROVE  Shown' /\ rows' \in Seq(Row)
<1>1. rows' = Rows(messages', marker', today)
  BY DEF Rebuild
<1>2. \A x \in messages' : x \in messages' \/ PushedOut(x)'
  OBVIOUS
<1>3. Shown'
  BY <1>1, <1>2 DEF Shown
<1>4. rows' \in Seq(Row)
  BY <1>1, RowsWellLaid DEF WellLaid
<1> QED
  BY <1>3, <1>4

LEMMA KnownIds == Known \in SUBSET Id /\ \A ids \in SUBSET Id : Trim(ids) \in SUBSET Id
  BY DEF Known, Trim

\* A message that a larger history drops has Cap newer ones in what is kept.
LEMMA HistoryGrowsInv ==
  ASSUME LogInv, NEW ids \in SUBSET Known, HistoryGrows(ids)
  PROVE  LogInv'
<1> DEFINE S == messages \cup ids
<1>1. S \in SUBSET Id /\ messages \in SUBSET Id
  BY KnownIds DEF LogInv, LogTypeOK
<1>2. /\ messages' = Trim(S)
      /\ UNCHANGED <<today, marker, rows, highlighted, scroll, click>>
  BY DEF HistoryGrows
<1> HIDE DEF S
<1>3. /\ Trim(S) \in SUBSET S /\ Trim(S) \subseteq Trim(Trim(S))
      /\ \A x \in Id : Cardinality(Newer(S, x)) >= Cap =>
           x \notin Trim(S) /\ Cardinality(Newer(Trim(S), x)) >= Cap
  BY <1>1, TrimFacts
<1>4. LogTypeOK'
  BY <1>1, <1>2, <1>3 DEF LogInv, LogTypeOK
<1>5. Capped'
  BY <1>2, <1>3 DEF Capped
<1>6. \A x \in Id : PushedOut(x)' <=> Cardinality(Newer(Trim(S), x)) >= Cap
  BY <1>2 DEF PushedOut, Newer
<1>7. ASSUME NEW x \in Id, x \in messages \/ PushedOut(x)
      PROVE  x \in messages' \/ PushedOut(x)'
  <2>1. CASE PushedOut(x)
    <3>1. Cardinality(Newer(messages, x)) >= Cap
      BY <2>1 DEF PushedOut, Newer
    <3>2. Cardinality(Newer(messages, x)) <= Cardinality(Newer(S, x))
      <4>1. x <= x /\ \A j \in messages : j > x => j \in S
        BY BoundsAssumption DEF S, Id
      <4> QED
        BY <1>1, <4>1, NewerMonotone
    <3>3. Cardinality(Newer(messages, x)) \in Nat /\ Cardinality(Newer(S, x)) \in Nat
      BY <1>1, NewerFinite
    <3>4. Cardinality(Newer(S, x)) >= Cap
      BY <3>1, <3>2, <3>3, CapAssumption
    <3> QED
      BY <1>3, <1>6, <3>4
  <2>2. CASE x \in messages /\ x \notin Trim(S)
    <3>1. x \in S /\ Cardinality(Newer(S, x)) \in Nat
      BY <1>1, <2>2, NewerFinite DEF S
    <3>2. ~(Cardinality(Newer(S, x)) < Cap)
      BY <2>2, <3>1 DEF Trim, Newer
    <3>3. Cardinality(Newer(S, x)) >= Cap
      BY <3>1, <3>2, CapAssumption
    <3> QED
      BY <1>3, <1>6, <3>3
  <2>3. CASE x \in Trim(S)
    BY <1>2, <2>3
  <2> QED
    BY <1>7, <2>1, <2>2, <2>3
<1>8. Shown'
  <2>1. PICK old \in SUBSET Id, mark \in {NoId} \cup Id, date \in 1 .. LastDay :
          rows = Rows(old, mark, date) /\ \A x \in old : x \in messages \/ PushedOut(x)
    BY DEF LogInv, Shown
  <2>2. rows' = Rows(old, mark, date)
    BY <1>2, <2>1
  <2>3. \A x \in old : x \in messages' \/ PushedOut(x)'
    BY <1>7, <2>1
  <2> QED
    BY <2>2, <2>3 DEF Shown
<1>9. CursorOnMessage'
  BY <1>2 DEF LogInv, CursorOnMessage
<1> QED
  BY <1>4, <1>5, <1>8, <1>9 DEF LogInv

\* A switch starts from a new list.
LEMMA SwitchInv ==
  ASSUME LogInv, NEW ids \in SUBSET Known, NEW mark \in {NoId} \cup Known, Switch(ids, mark)
  PROVE  LogInv'
<1>1. ids \in SUBSET Id /\ mark \in {NoId} \cup Id /\ today \in 1 .. LastDay /\ click \in Nat
  BY KnownIds DEF LogInv, LogTypeOK
<1>2. /\ messages' = Trim(ids) /\ marker' = mark /\ Rebuild
      /\ highlighted' = NoRow /\ scroll' = MaxScroll(rows') /\ UNCHANGED <<today, click>>
  BY DEF Switch
<1>3. messages' \in SUBSET Id /\ messages' \subseteq Trim(messages')
  BY <1>1, <1>2, TrimFacts
<1>4. Shown' /\ rows' \in Seq(Row)
  BY <1>1, <1>2, <1>3, RebuiltShown
<1>5. scroll' \in Nat /\ MaxScroll(rows') \in Nat
  BY <1>2, <1>4, MaxScrollFacts
<1>6. LogTypeOK'
  BY <1>1, <1>2, <1>3, <1>4, <1>5 DEF LogTypeOK, NoRow
<1>7. CursorOnMessage'
  BY <1>2, <1>5 DEF CursorOnMessage
<1> QED
  BY <1>3, <1>4, <1>6, <1>7 DEF LogInv, Capped

LEMMA RefreshInv ==
  ASSUME LogInv, Refresh
  PROVE  LogInv'
<1>1. /\ messages \in SUBSET Id /\ marker \in {NoId} \cup Id /\ today \in 1 .. LastDay
      /\ rows \in Seq(Row) /\ scroll \in Nat /\ click \in Nat
  BY DEF LogInv, LogTypeOK
<1>2. /\ UNCHANGED <<today, messages, marker, click>> /\ Rebuild
      /\ highlighted' = IF highlighted = NoRow THEN NoRow
                        ELSE RowOf(rows', rows[highlighted].id)
      /\ scroll' = IF AtTail THEN MaxScroll(rows')
                   ELSE RestoreAnchor(rows', Anchor(rows, scroll))
  BY DEF Refresh
<1>3. Shown' /\ rows' \in Seq(Row)
  BY <1>1, <1>2, RebuiltShown
<1>4. MaxScroll(rows') \in Nat
  BY <1>3, MaxScrollFacts
<1>5. scroll' \in 0 .. MaxScroll(rows')
  <2>1. CASE AtTail
    BY <1>2, <1>4, <2>1
  <2>2. CASE ~AtTail
    BY <1>1, <1>2, <1>3, <2>2, AnchorOnList
  <2> QED
    BY <2>1, <2>2
<1>6. highlighted' # NoRow => highlighted' \in MessagesIn(rows')
  <2>1. ASSUME NEW id, RowOf(rows', id) # NoRow PROVE RowOf(rows', id) \in MessagesIn(rows')
    BY <1>3, <2>1, RowOfFacts
  <2> QED
    BY <1>2, <2>1
<1>7. highlighted' \in Nat
  <2>1. MessagesIn(rows') \in SUBSET (1 .. Len(rows')) /\ Len(rows') \in Nat
    BY <1>3, MessagesInRows
  <2> QED
    BY <1>6, <2>1 DEF NoRow
<1>8. LogTypeOK'
  BY <1>1, <1>2, <1>3, <1>4, <1>5, <1>7 DEF LogTypeOK
<1>9. CursorOnMessage'
  BY <1>5, <1>6 DEF CursorOnMessage, MessagesIn
<1>10. Capped'
  BY <1>2 DEF LogInv, Capped
<1> QED
  BY <1>3, <1>8, <1>9, <1>10 DEF LogInv

LEMMA FocusRowFacts ==
  ASSUME LogInv
  PROVE  FocusRow \in MessagesIn(rows) \cup {NoRow}
<1>1. rows \in Seq(Row)
  BY DEF LogInv, LogTypeOK
<1>2. LastMessage(rows) \in MessagesIn(rows) \cup {NoRow}
  BY <1>1, LastMessageFacts
<1>3. TopMessage(rows, scroll) \in MessagesIn(rows) \cup {NoRow}
  BY <1>1, FirstMessageFacts DEF TopMessage
<1> QED
  BY <1>2, <1>3 DEF FocusRow

\* What the reader does leaves the list alone.
LEMMA ReaderInv ==
  ASSUME LogInv, UNCHANGED <<today, messages, marker, rows>>, click' \in Nat,
         highlighted' # NoRow => highlighted' \in MessagesIn(rows),
         scroll' \in 0 .. MaxScroll(rows)
  PROVE  LogInv'
<1>1. rows \in Seq(Row) /\ MaxScroll(rows) \in Nat
  BY MaxScrollFacts DEF LogInv, LogTypeOK
<1>2. highlighted' \in Nat /\ scroll' \in Nat
  BY <1>1, MessagesInRows DEF NoRow
<1>3. LogTypeOK'
  BY <1>2 DEF LogInv, LogTypeOK
<1>4. Shown' /\ Capped'
  BY DEF LogInv, Shown, PushedOut, Capped
<1>5. CursorOnMessage'
  BY DEF CursorOnMessage, MessagesIn
<1> QED
  BY <1>3, <1>4, <1>5 DEF LogInv

\* Every step keeps what LogInv says.
LEMMA LogStepInv == LogInv /\ [LogNext]_logVars => LogInv'
<1> SUFFICES ASSUME LogInv, [LogNext]_logVars PROVE LogInv'
  OBVIOUS
<1>1. /\ messages \in SUBSET Id /\ marker \in {NoId} \cup Id /\ today \in 1 .. LastDay
      /\ rows \in Seq(Row) /\ scroll \in Nat /\ click \in Nat /\ highlighted \in Nat
  BY DEF LogInv, LogTypeOK
<1>2. /\ scroll \in 0 .. MaxScroll(rows)
      /\ highlighted # NoRow => highlighted \in MessagesIn(rows)
  BY DEF LogInv, CursorOnMessage, MessagesIn
<1>3. ASSUME NEW ids \in SUBSET Known, HistoryGrows(ids) PROVE LogInv'
  BY <1>3, HistoryGrowsInv
<1>4. ASSUME NEW ids \in SUBSET Known, NEW mark \in {NoId} \cup Known, Switch(ids, mark)
      PROVE  LogInv'
  BY <1>4, SwitchInv
<1>5. ASSUME NEW id \in Known, MarkerMoves(id) PROVE LogInv'
  <2>1. id \in Id
    BY KnownIds
  <2>2. LogTypeOK' /\ Capped' /\ Shown' /\ CursorOnMessage'
    BY <1>1, <1>5, <2>1
    DEF LogInv, MarkerMoves, LogTypeOK, Capped, Shown, PushedOut, CursorOnMessage
  <2> QED
    BY <2>2 DEF LogInv
<1>6. ASSUME NEW k \in DOMAIN rows, PressKey(k) PROVE LogInv'
  <2>1. k \in MessagesIn(rows) /\ MoveCursor(k) /\ UNCHANGED <<today, messages, marker, rows, click>>
    BY <1>6 DEF PressKey, MessagesIn
  <2>2. highlighted' = k /\ scroll' \in 0 .. MaxScroll(rows)
    BY <1>1, <1>2, <2>1, MoveCursorFacts
  <2> QED
    BY <1>1, <2>1, <2>2, ReaderInv
<1>7. ASSUME NEW k \in DOMAIN rows, Click(k) PROVE LogInv'
  <2>1. /\ click' = k /\ k \in Nat
        /\ UNCHANGED <<today, messages, marker, rows, highlighted, scroll>>
    BY <1>1, <1>7 DEF Click
  <2> QED
    BY <1>2, <2>1, ReaderInv
<1>8. ASSUME NEW y \in 0 .. MaxScroll(rows), ScrollTo(y) PROVE LogInv'
  <2>1. scroll' = y /\ UNCHANGED <<today, messages, marker, rows, highlighted, click>>
    BY <1>8 DEF ScrollTo
  <2> QED
    BY <1>1, <1>2, <2>1, ReaderInv
<1>9. CASE Midnight
  <2>1. today' \in 1 .. LastDay
    BY <1>1, <1>9, BoundsAssumption DEF Midnight
  <2>2. LogTypeOK' /\ Capped' /\ Shown' /\ CursorOnMessage'
    BY <1>1, <1>9, <2>1
    DEF LogInv, Midnight, LogTypeOK, Capped, Shown, PushedOut, CursorOnMessage
  <2> QED
    BY <2>2 DEF LogInv
<1>10. CASE Refresh
  BY <1>10, RefreshInv
<1>11. CASE Clear
  <2>1. /\ rows' = <<>> /\ highlighted' = NoRow /\ scroll' = 0
        /\ UNCHANGED <<today, messages, marker, click>>
    BY <1>11 DEF Clear
  <2>2. LogTypeOK'
    BY <1>1, <2>1, EmptyList DEF LogTypeOK, NoRow
  <2>3. Shown'
    <3>1. rows' = Rows({}, marker, today) /\ \A x \in {} : x \in messages' \/ PushedOut(x)'
      BY <2>1, EmptyList
    <3> QED
      BY <1>1, <3>1 DEF Shown
  <2>4. CursorOnMessage' /\ Capped'
    BY <2>1, EmptyList DEF LogInv, CursorOnMessage, Capped
  <2> QED
    BY <2>2, <2>3, <2>4 DEF LogInv
<1>12. CASE Focus
  <2>1. highlighted' = FocusRow /\ UNCHANGED <<today, messages, marker, rows, scroll, click>>
    BY <1>12 DEF Focus
  <2> QED
    BY <1>1, <1>2, <2>1, FocusRowFacts, ReaderInv
<1>13. CASE HandleClick
  <2>1. click' = NoRow /\ UNCHANGED <<today, messages, marker, rows>>
    BY <1>13 DEF HandleClick
  <2>2. CASE LandsOn(click)
    <3>1. click \in MessagesIn(rows) /\ click \in DOMAIN rows /\ MoveCursor(click)
      BY <1>13, <2>2 DEF HandleClick, LandsOn, MessagesIn
    <3>2. highlighted' = click /\ scroll' \in 0 .. MaxScroll(rows)
      BY <1>1, <1>2, <3>1, MoveCursorFacts
    <3> QED
      BY <2>1, <3>1, <3>2, ReaderInv DEF NoRow
  <2>3. CASE ~LandsOn(click)
    <3>1. UNCHANGED <<highlighted, scroll>>
      BY <1>13, <2>3 DEF HandleClick
    <3> QED
      BY <1>2, <2>1, <3>1, ReaderInv DEF NoRow
  <2> QED
    BY <2>2, <2>3
<1>14. CASE UNCHANGED logVars
  BY <1>1, <1>2, <1>14, ReaderInv DEF logVars
<1> QED
  BY <1>3, <1>4, <1>5, <1>6, <1>7, <1>8, <1>9, <1>10, <1>11, <1>12, <1>13, <1>14 DEF LogNext

\* The cursor and the view stay on the list as it is (message_log.py:121-236): for
\* any rows, heights, dates and cap, and any order of rebuilds, keys and late clicks.
THEOREM LogStaysOnMessages == LogSpec => []CursorOnMessage
<1>1. LogInit => LogInv
  BY LogInitInv
<1>2. LogInv /\ [LogNext]_logVars => LogInv'
  BY LogStepInv
<1>3. LogInv => CursorOnMessage
  BY DEF LogInv
<1> QED
  BY <1>1, <1>2, <1>3, PTL DEF LogSpec

--------------------------------------------------------------------------------
(* Where the messages are among the rows.                                      *)

\* A row that is no message is a separator above one or the marker.
LEMMA OtherRows ==
  ASSUME NEW rs, WellLaid(rs), NEW k \in DOMAIN rs, k \notin MessagesIn(rs)
  PROVE  /\ rs[k].kind = "marker" \/ k + 1 \in MessagesIn(rs)
         /\ FirstLine(rs, k + 1) = FirstLine(rs, k) + 1
<1>1. rs \in Seq(Row) /\ rs[k] \in Row
  BY DEF WellLaid
<1>2. rs[k].kind \in {"date", "message", "marker"} /\ ~IsMessage(rs[k])
  BY <1>1 DEF Row, MessagesIn
<1>3. rs[k].height = 1
  BY <1>2 DEF WellLaid
<1>4. rs[k].kind = "date" => k + 1 \in MessagesIn(rs)
  BY DEF WellLaid
<1> QED
  BY <1>1, <1>2, <1>3, <1>4, LinesStep DEF IsMessage

\* Below the last message there is nothing but its marker.
LEMMA BelowLastMessage ==
  ASSUME NEW rs, WellLaid(rs), LastMessage(rs) # NoRow
  PROVE  /\ LastMessage(rs) \in MessagesIn(rs)
         /\ Lines(rs) <= FirstLine(rs, LastMessage(rs) + 1) + 1
<1> DEFINE n == LastMessage(rs)
<1>1. rs \in Seq(Row) /\ Len(rs) \in Nat /\ DOMAIN rs = 1 .. Len(rs)
  BY DEF WellLaid
<1>2. n \in MessagesIn(rs) /\ \A j \in MessagesIn(rs) : n >= j
  BY <1>1, LastMessageFacts
<1>3. n \in 1 .. Len(rs)
  BY <1>1, <1>2, MessagesInRows
<1> HIDE DEF n
<1>4. ASSUME NEW k \in DOMAIN rs, k > n
      PROVE  rs[k].kind = "marker" /\ FirstLine(rs, k + 1) = FirstLine(rs, k) + 1
  <2>1. k \notin MessagesIn(rs) /\ k + 1 \notin MessagesIn(rs)
    BY <1>1, <1>2, <1>3, <1>4
  <2> QED
    BY <2>1, OtherRows
<1>5. FirstLine(rs, n + 1) \in Nat
  <2>1. n + 1 \in Nat
    BY <1>1, <1>3
  <2> QED
    BY <1>1, <2>1, LinesFinite, Zenon
<1>6. CASE Len(rs) = n
  <2>1. Lines(rs) = FirstLine(rs, n + 1)
    BY <1>6 DEF Lines
  <2> QED
    BY <1>2, <1>5, <2>1 DEF n
<1>7. CASE Len(rs) = n + 1
  <2>1. n + 1 \in DOMAIN rs /\ n + 1 > n
    BY <1>1, <1>3, <1>7
  <2>2. FirstLine(rs, (n + 1) + 1) = FirstLine(rs, n + 1) + 1
    BY <1>4, <2>1
  <2>3. Lines(rs) = FirstLine(rs, (n + 1) + 1)
    BY <1>7, Zenon DEF Lines
  <2> QED
    BY <1>2, <1>5, <2>2, <2>3 DEF n
<1>8. CASE Len(rs) > n + 1
  <2>1. n + 1 \in DOMAIN rs /\ n + 2 \in DOMAIN rs /\ n + 1 > n /\ n + 2 > n
    BY <1>1, <1>3, <1>8
  <2>2. n + 1 = n + 2
    BY <1>4, <2>1 DEF WellLaid
  <2> QED
    BY <1>3, <2>2
<1>9. Len(rs) = n \/ Len(rs) = n + 1 \/ Len(rs) > n + 1
  <2> DEFINE size == Len(rs)
  <2>1. size \in Nat /\ n \in 1 .. size
    BY <1>1, <1>3
  <2> HIDE DEF size
  <2>2. size = n \/ size = n + 1 \/ size > n + 1
    BY <2>1
  <2> QED
    BY <2>2 DEF size
<1> QED
  BY <1>6, <1>7, <1>8, <1>9

\* Above the tail there is a message at the top of the view.
LEMMA TopMessageFacts ==
  ASSUME NEW rs, WellLaid(rs), NEW y \in Nat, y < MaxScroll(rs)
  PROVE  /\ TopMessage(rs, y) \in MessagesIn(rs)
         /\ FirstLine(rs, TopMessage(rs, y)) < y + View
         /\ y < FirstLine(rs, TopMessage(rs, y) + 1)
<1> DEFINE k == RowAt(rs, y)
           n == TopMessage(rs, y)
<1>1. rs \in Seq(Row) /\ Len(rs) \in Nat /\ DOMAIN rs = 1 .. Len(rs)
  BY DEF WellLaid
<1>2. y + View < Lines(rs) /\ Lines(rs) \in Nat /\ View \in Nat /\ View >= 3
  BY <1>1, MaxScrollFacts, ViewAssumption
<1>3. k \in DOMAIN rs /\ FirstLine(rs, k) <= y /\ y < FirstLine(rs, k + 1)
  <2>1. y < Lines(rs)
    BY <1>2
  <2> QED
    BY <1>1, <2>1, RowAtFacts
<1>4. n = FirstMessageFrom(rs, k)
  <2>1. rs # <<>>
    BY <1>1, <1>3
  <2> QED
    BY <2>1 DEF TopMessage
<1> HIDE DEF k
<1>5. k \in Nat /\ k >= 1 /\ k <= Len(rs)
  BY <1>1, <1>3
<1>6. FirstLine(rs, k) \in Nat /\ FirstLine(rs, k + 1) \in Nat
  BY <1>1, <1>3, LinesWithin
<1>7. \E m \in MessagesIn(rs) : m >= k
  <2> SUFFICES ASSUME \A m \in MessagesIn(rs) : ~(m >= k) PROVE FALSE
    OBVIOUS
  <2>1. /\ k \notin MessagesIn(rs) /\ k + 1 \notin MessagesIn(rs)
        /\ (k + 1) + 1 \notin MessagesIn(rs)
    BY <1>5
  <2>2. rs[k].kind = "marker" /\ FirstLine(rs, k + 1) = FirstLine(rs, k) + 1
    BY <1>3, <2>1, OtherRows
  <2>3. CASE k = Len(rs)
    <3>1. Lines(rs) = FirstLine(rs, k + 1)
      BY <2>3 DEF Lines
    <3> QED
      BY <1>2, <1>3, <1>6, <2>2, <3>1
  <2>4. CASE k # Len(rs)
    <3>1. k + 1 \in DOMAIN rs
      <4> DEFINE size == Len(rs)
      <4>1. size \in Nat /\ k <= size /\ k # size
        BY <1>1, <1>5, <2>4
      <4> HIDE DEF size
      <4>2. k + 1 \in 1 .. size
        BY <1>5, <4>1
      <4>3. k + 1 \in 1 .. Len(rs)
        BY <4>2 DEF size
      <4> QED
        BY <1>1, <4>3, Zenon
    <3>2. rs[k + 1].kind = "marker"
      BY <2>1, <3>1, OtherRows
    <3>3. k = k + 1
      BY <1>3, <2>2, <3>1, <3>2 DEF WellLaid
    <3> QED
      BY <1>5, <3>3
  <2> QED
    BY <2>3, <2>4
<1> HIDE DEF n
<1>8. n \in MessagesIn(rs) /\ n >= k /\ \A m \in MessagesIn(rs) : m >= k => n <= m
  <2>1. n \in MessagesIn(rs) \cup {NoRow}
    BY <1>1, <1>4, FirstMessageFacts
  <2>2. \A m \in MessagesIn(rs) : m >= k => n >= k /\ n <= m
    BY <1>1, <1>4, FirstMessageFacts
  <2>3. n >= k
    BY <1>7, <2>2
  <2>4. n # NoRow
    BY <1>5, <2>3 DEF NoRow
  <2> QED
    BY <2>1, <2>2, <2>3, <2>4
<1>9. n \in Nat /\ n <= Len(rs) /\ n \in DOMAIN rs
  BY <1>1, <1>8, MessagesInRows
<1>10. FirstLine(rs, n) <= FirstLine(rs, k) + 2 /\ FirstLine(rs, n) \in Nat
  <2>1. \A j \in DOMAIN rs : j >= k /\ j < n => j \notin MessagesIn(rs)
    BY <1>1, <1>5, <1>8, <1>9
  <2>2. CASE n = k
    BY <1>6, <2>2
  <2>3. CASE n = k + 1
    <3>1. k \notin MessagesIn(rs)
      BY <1>3, <1>5, <2>1, <2>3
    <3>2. FirstLine(rs, k + 1) = FirstLine(rs, k) + 1
      BY <1>3, <3>1, OtherRows
    <3> QED
      BY <1>6, <2>3, <3>2
  <2>4. CASE n > k + 1
    <3>1. k + 1 \in DOMAIN rs /\ k \notin MessagesIn(rs) /\ k + 1 \notin MessagesIn(rs)
      BY <1>1, <1>3, <1>5, <1>9, <2>1, <2>4
    <3>2. rs[k].kind = "marker" /\ FirstLine(rs, k + 1) = FirstLine(rs, k) + 1
      BY <1>3, <3>1, OtherRows
    <3>3. /\ rs[k + 1].kind = "marker" \/ (k + 1) + 1 \in MessagesIn(rs)
          /\ FirstLine(rs, (k + 1) + 1) = FirstLine(rs, k + 1) + 1
      BY <3>1, OtherRows
    <3>4. (k + 1) + 1 \in MessagesIn(rs)
      <4>1. rs[k + 1].kind # "marker"
        BY <1>3, <1>5, <3>1, <3>2 DEF WellLaid
      <4> QED
        BY <3>3, <4>1
    <3>5. n = (k + 1) + 1
      BY <1>5, <1>8, <1>9, <2>4, <3>4
    <3> QED
      BY <1>6, <3>2, <3>3, <3>5
  <2> QED
    BY <1>5, <1>8, <1>9, <2>2, <2>3, <2>4
<1>11. FirstLine(rs, k + 1) <= FirstLine(rs, n + 1) /\ FirstLine(rs, n + 1) \in Nat
  <2>1. k + 1 \in Nat /\ n + 1 \in Nat /\ k + 1 <= n + 1
    BY <1>5, <1>8, <1>9
  <2> QED
    BY <1>1, <2>1, LinesMonotone, LinesFinite
<1>12. FirstLine(rs, n) < y + View /\ y < FirstLine(rs, n + 1)
  BY <1>2, <1>3, <1>6, <1>10, <1>11
<1> QED
  BY <1>8, <1>12 DEF n

\* A reader above the tail, and only there, is above the last place to scroll to.
LEMMA AboveTail ==
  ASSUME LogInv
  PROVE  ~AtTail <=> scroll < MaxScroll(rows)
<1>1. scroll \in 0 .. MaxScroll(rows) /\ MaxScroll(rows) \in Nat
  BY MaxScrollFacts DEF LogInv, LogTypeOK, CursorOnMessage
<1> QED
  BY <1>1 DEF AtTail

LEMMA FocusOnScreen ==
  ASSUME LogInv, FocusRow # NoRow
  PROVE  OnScreen(rows, FocusRow, scroll)
<1>1. WellLaid(rows) /\ rows \in Seq(Row) /\ scroll \in Nat
  BY ShownWellLaid DEF LogInv, LogTypeOK
<1>2. CASE ~AtTail
  <2>1. scroll < MaxScroll(rows)
    BY <1>2, AboveTail
  <2>2. FocusRow = TopMessage(rows, scroll)
    BY <1>2 DEF FocusRow
  <2> QED
    BY <1>1, <2>1, <2>2, TopMessageFacts DEF OnScreen
<1>3. CASE AtTail
  <2> DEFINE n == LastMessage(rows)
  <2>1. FocusRow = n
    BY <1>3 DEF FocusRow
  <2> HIDE DEF n
  <2>2. n \in MessagesIn(rows) /\ Lines(rows) <= FirstLine(rows, n + 1) + 1
    BY <1>1, <2>1, BelowLastMessage DEF n
  <2>3. n \in DOMAIN rows
    BY <2>2 DEF MessagesIn
  <2>4. /\ FirstLine(rows, n) \in Nat /\ FirstLine(rows, n + 1) \in Nat /\ Lines(rows) \in Nat
        /\ FirstLine(rows, n) < FirstLine(rows, n + 1) /\ FirstLine(rows, n + 1) <= Lines(rows)
    BY <1>1, <2>3, LinesWithin
  <2>5. scroll = IF Lines(rows) > View THEN Lines(rows) - View ELSE 0
    BY <1>1, <1>3, MaxScrollFacts DEF AtTail
  <2>6. FirstLine(rows, n) < scroll + View /\ FirstLine(rows, n + 1) > scroll
    BY <2>2, <2>4, <2>5, ViewAssumption
  <2> QED
    BY <2>1, <2>6 DEF OnScreen
<1> QED
  BY <1>2, <1>3

CursorAppearsStep ==
  highlighted = NoRow /\ highlighted' # NoRow => OnScreen(rows, highlighted', scroll')

\* A cursor comes to rest on the screen, whichever way it came.
LEMMA CursorAppears == LogInv /\ [LogNext]_logVars => CursorAppearsStep
<1> SUFFICES ASSUME LogInv, [LogNext]_logVars, highlighted = NoRow, highlighted' # NoRow
             PROVE  OnScreen(rows, highlighted', scroll')
  BY DEF CursorAppearsStep
<1>1. rows \in Seq(Row) /\ scroll \in 0 .. MaxScroll(rows)
  BY DEF LogInv, LogTypeOK, CursorOnMessage
<1>2. ASSUME NEW k \in DOMAIN rows, PressKey(k) PROVE OnScreen(rows, highlighted', scroll')
  BY <1>1, <1>2, MoveCursorFacts DEF PressKey
<1>3. CASE Focus
  <2>1. highlighted' = FocusRow /\ scroll' = scroll
    BY <1>3 DEF Focus
  <2> QED
    BY <2>1, FocusOnScreen
<1>4. CASE HandleClick
  <2>1. LandsOn(click)
    BY <1>4 DEF HandleClick
  <2>2. click \in DOMAIN rows /\ MoveCursor(click)
    BY <1>4, <2>1 DEF HandleClick, LandsOn
  <2> QED
    BY <1>1, <2>2, MoveCursorFacts
<1>5. ASSUME NEW ids \in SUBSET Known, HistoryGrows(ids) PROVE FALSE
  BY <1>5 DEF HistoryGrows
<1>6. ASSUME NEW ids, NEW mark, Switch(ids, mark) PROVE FALSE
  BY <1>6 DEF Switch
<1>7. ASSUME NEW id, MarkerMoves(id) PROVE FALSE
  BY <1>7 DEF MarkerMoves
<1>8. ASSUME NEW k, Click(k) PROVE FALSE
  BY <1>8 DEF Click
<1>9. ASSUME NEW y, ScrollTo(y) PROVE FALSE
  BY <1>9 DEF ScrollTo
<1>10. CASE Midnight \/ Refresh \/ Clear \/ UNCHANGED logVars
  BY <1>10 DEF Midnight, Refresh, Clear, logVars
<1> QED
  BY <1>2, <1>3, <1>4, <1>5, <1>6, <1>7, <1>8, <1>9, <1>10 DEF LogNext

\* The row on which a cursor appears, by Tab, key or click, is on the screen
\* (message_log.py:177-236), on any screen of three lines or more.
THEOREM CursorIsSeen == LogSpec => CursorAppearsOnScreen
<1>1. LogInit => LogInv
  BY LogInitInv
<1>2. LogInv /\ [LogNext]_logVars => LogInv'
  BY LogStepInv
<1>3. LogInv /\ [LogNext]_logVars => [CursorAppearsStep]_logVars
  BY CursorAppears
<1>4. [][CursorAppearsStep]_logVars => CursorAppearsOnScreen
  <2>1. CursorAppearsStep =>
          (highlighted = NoRow /\ highlighted' # NoRow => OnScreen(rows, highlighted', scroll'))
    BY DEF CursorAppearsStep
  <2> QED
    BY <2>1, PTL DEF CursorAppearsOnScreen
<1> QED
  BY <1>1, <1>2, <1>3, <1>4, PTL DEF LogSpec

--------------------------------------------------------------------------------
(* Days.                                                                       *)

\* Ids and days are numbers, and no message is of an earlier day than one before it.
LEMMA DayFacts ==
  /\ Id \subseteq Nat /\ \A i \in Id : Day[i] \in Nat
  /\ \A i, j \in Id : i <= j => Day[i] <= Day[j]
<1>1. Id \subseteq Nat
  BY IdsAreNumbers
<1>2. \A i \in Id : Day[i] \in 1 .. LastDay
  BY DayAssumption
<1>3. \A i, j \in Id : i < j => Day[i] <= Day[j]
  BY DayAssumption
<1>4. ASSUME NEW i \in Id, NEW j \in Id, i <= j PROVE Day[i] <= Day[j]
  <2>1. i \in Nat /\ j \in Nat /\ Day[i] \in Nat /\ Day[j] \in Nat
    BY <1>1, <1>2, BoundsAssumption
  <2> QED
    BY <1>3, <1>4, <2>1
<1>5. \A i \in Id : Day[i] \in Nat
  BY <1>2, BoundsAssumption
<1> QED
  BY <1>1, <1>4, <1>5

\* A separator stands where a day begins.
LEMMA SeparatorAfter ==
  ASSUME NEW ids \in SUBSET Id, NEW date, NEW i \in ids, NEW j \in ids, j < i,
         NewDay(ids, i, date)
  PROVE  Day[j] < Day[i]
<1> DEFINE E == Earlier(ids, i)
           p == Max(E)
<1>1. i \in Id /\ j \in Id /\ i \in Nat /\ j \in Nat /\ MaxId \in Nat
  BY DayFacts, BoundsAssumption
<1>2. j \in E /\ E \in SUBSET ids
  BY DEF Earlier
<1>3. E \in SUBSET (0 .. MaxId)
  <2>1. Id \subseteq 0 .. MaxId
    BY <1>1 DEF Id
  <2> QED
    BY <1>2, <2>1
<1>4. p \in E /\ p >= j
  <2> HIDE DEF E
  <2> QED
    BY <1>1, <1>2, <1>3, GreatestOf
<1>5. Day[i] # Day[p]
  BY <1>2 DEF NewDay
<1>6. p \in Id /\ p < i
  BY <1>4 DEF Earlier
<1> HIDE DEF p
<1>7. p \in Nat /\ j <= p /\ p <= i
  BY <1>1, <1>4, <1>6, DayFacts
<1>8. Day[j] <= Day[p] /\ Day[p] <= Day[i]
  BY <1>1, <1>6, <1>7, DayFacts
<1>9. Day[j] \in Nat /\ Day[p] \in Nat /\ Day[i] \in Nat
  BY <1>1, <1>6, DayFacts
<1> QED
  BY <1>5, <1>8, <1>9

FirstOfDay(ids, day) == Min({j \in ids : Day[j] = day})

\* The day that begins after message x in one list begins after it in any other that
\* holds x and a message of that day.
LEMMA SeparatorMoves ==
  ASSUME NEW J \in SUBSET Id, NEW x \in J, NEW i \in J, NEW date, Day[x] < Day[i]
  PROVE  LET z == FirstOfDay(J, Day[i])
         IN z \in J /\ z > x /\ Day[z] = Day[i] /\ NewDay(J, z, date)
<1> DEFINE S == {j \in J : Day[j] = Day[i]}
           z == FirstOfDay(J, Day[i])
           E == Earlier(J, z)
           p == Max(E)
<1>1. S \in SUBSET Nat /\ S # {}
  BY DayFacts
<1>2. z \in S /\ \A j \in S : z <= j
  <2>1. Min(S) \in S /\ \A j \in S : Min(S) <= j
    <3> HIDE DEF S
    <3> QED
      BY <1>1, LeastOf
  <2> QED
    BY <2>1, Zenon DEF FirstOfDay
<1>3. z \in J /\ z \in Id /\ Day[z] = Day[i] /\ x \in Id /\ z \in Nat /\ x \in Nat
  BY <1>2, DayFacts
<1> HIDE DEF z
<1>4. z > x
  <2>1. Day[z] \in Nat /\ Day[x] \in Nat /\ (z <= x => Day[z] <= Day[x])
    BY <1>3, DayFacts
  <2> QED
    BY <1>3, <2>1
<1>5. x \in E /\ E \in SUBSET J
  BY <1>3, <1>4 DEF Earlier
<1>6. p \in E
  <2>1. E \in SUBSET (0 .. MaxId) /\ MaxId \in Nat
    <3>1. Id \subseteq 0 .. MaxId /\ MaxId \in Nat
      BY BoundsAssumption DEF Id
    <3> QED
      BY <1>5, <3>1
  <2> HIDE DEF E
  <2> QED
    BY <1>5, <2>1, GreatestOf
<1>7. p \in J /\ p < z /\ p \in Nat
  BY <1>6, DayFacts DEF Earlier
<1>8. Day[p] # Day[z]
  <2>1. p \notin S
    BY <1>2, <1>3, <1>7
  <2> QED
    BY <1>3, <1>7, <2>1
<1>9. NewDay(J, z, date)
  BY <1>5, <1>8 DEF NewDay
<1> QED
  BY <1>3, <1>4, <1>9 DEF z

--------------------------------------------------------------------------------
(* The lines from a row to the end.                                            *)

\* The rows of a list are those of its set, in the order of their slots.
LEMMA RowsFacts ==
  ASSUME NEW ids \in SUBSET Id, NEW mark, NEW date
  PROVE  LET q == Rows(ids, mark, date)
             R == RowSet(ids, mark, date)
         IN /\ q \in Seq(Row) /\ q \in Seq(R)
            /\ \A r \in R : \E k \in DOMAIN q : q[k] = r
            /\ \A i, j \in DOMAIN q : i < j <=> Slot(q[i]) < Slot(q[j])
  BY RowSetFacts, InOrderFacts DEF Rows

\* Which messages the list has.
LEMMA RowsMessages ==
  ASSUME NEW ids \in SUBSET Id, NEW mark, NEW date
  PROVE  LET q == Rows(ids, mark, date)
         IN /\ \A k \in MessagesIn(q) : q[k].id \in ids /\ q[k] = MessageRow(q[k].id)
            /\ \A i \in ids : \E k \in MessagesIn(q) : q[k].id = i
<1> DEFINE q == Rows(ids, mark, date)
           R == RowSet(ids, mark, date)
<1>1. q \in Seq(R) /\ \A r \in R : \E k \in DOMAIN q : q[k] = r
  BY RowsFacts
<1>2. /\ \A r \in R : IsMessage(r) => r.id \in ids /\ r = MessageRow(r.id)
      /\ \A i \in ids : MessageRow(i) \in R /\ IsMessage(MessageRow(i)) /\ MessageRow(i).id = i
  BY DEF RowSet, MessageRow, Separator, Marker, IsMessage
<1> HIDE DEF q, R
<1>3. \A k \in DOMAIN q : q[k] \in R
  BY <1>1
<1>4. \A k \in MessagesIn(q) : q[k].id \in ids /\ q[k] = MessageRow(q[k].id)
  BY <1>2, <1>3 DEF MessagesIn
<1>5. ASSUME NEW i \in ids PROVE \E k \in MessagesIn(q) : q[k].id = i
  <2>1. PICK k \in DOMAIN q : q[k] = MessageRow(i)
    BY <1>1, <1>2
  <2> QED
    BY <1>2, <2>1 DEF MessagesIn
<1> QED
  BY <1>4, <1>5 DEF q

RowLines(R, slot) ==
  {place \in R \X (1 .. View) : Slot(place[1]) >= slot /\ place[2] <= place[1].height}

\* The lines below the top of row k are the lines of the rows from its slot on.
LEMMA LinesBelow ==
  ASSUME NEW ids \in SUBSET Id, NEW mark, NEW date, NEW k \in DOMAIN Rows(ids, mark, date)
  PROVE  LET q == Rows(ids, mark, date)
             L == RowLines(RowSet(ids, mark, date), Slot(q[k]))
         IN /\ IsFiniteSet(L) /\ Cardinality(L) \in Nat
            /\ Lines(q) = FirstLine(q, k) + Cardinality(L)
<1> DEFINE q == Rows(ids, mark, date)
           R == RowSet(ids, mark, date)
           L == RowLines(R, Slot(q[k]))
<1>1. /\ q \in Seq(Row) /\ q \in Seq(R)
      /\ \A r \in R : \E j \in DOMAIN q : q[j] = r
      /\ \A i, j \in DOMAIN q : i < j <=> Slot(q[i]) < Slot(q[j])
  BY RowsFacts
<1>2. R \in SUBSET Row /\ IsFiniteSet(R) /\ k \in DOMAIN q
  BY RowSetFacts
<1> HIDE DEF q, R
<1> DEFINE n     == Len(q)
           all   == LinesOf(q, 1 .. n)
           above == LinesOf(q, 1 .. k - 1)
           below == LinesOf(q, k .. n)
           g     == [place \in below |-> <<q[place[1]], place[2]>>]
<1>3. n \in Nat /\ DOMAIN q = 1 .. n /\ k \in Nat /\ k >= 1 /\ k <= n
  BY <1>1, <1>2
<1>4. /\ IsFiniteSet(all) /\ IsFiniteSet(above)
      /\ Lines(q) = Cardinality(all) /\ FirstLine(q, k) = Cardinality(above)
  <2>1. (n + 1) - 1 = n /\ n + 1 \in Nat
    BY <1>3
  <2>2. IsFiniteSet(LinesOf(q, 1 .. (n + 1) - 1)) /\ IsFiniteSet(above)
    BY <1>1, <1>3, <2>1, LinesFinite, Zenon
  <2>3. Lines(q) = Cardinality(LinesOf(q, 1 .. (n + 1) - 1))
    BY Zenon DEF Lines, FirstLine
  <2>4. FirstLine(q, k) = Cardinality(above)
    BY Zenon DEF FirstLine
  <2> HIDE DEF n, above
  <2> QED
    BY <2>1, <2>2, <2>3, <2>4, Zenon
<1> HIDE DEF n
<1>5. below \in SUBSET all /\ above \in SUBSET all /\ all = above \cup below /\ above \cap below = {}
  <2>1. 1 .. n = (1 .. k - 1) \cup (k .. n)
    BY <1>3
  <2>2. (1 .. k - 1) \cap (k .. n) = {}
    BY <1>3
  <2>3. all = above \cup below
    <3>1. LinesOf(q, (1 .. k - 1) \cup (k .. n)) = above \cup below
      BY DEF LinesOf
    <3> QED
      BY <2>1, <3>1, Zenon
  <2>4. above \cap below = {}
    BY <2>2 DEF LinesOf
  <2> QED
    BY <2>3, <2>4
<1>6. IsFiniteSet(below) /\ Cardinality(all) = Cardinality(above) + Cardinality(below)
  <2> HIDE DEF all, above, below
  <2>1. IsFiniteSet(below)
    BY <1>4, <1>5, FS_Subset, Zenon
  <2>2. Cardinality(above \cup below)
          = Cardinality(above) + Cardinality(below) - Cardinality(above \cap below)
    BY <1>4, <2>1, FS_Union, Zenon
  <2>3. Cardinality(above \cap below) = 0
    BY <1>5, FS_EmptySet, Zenon
  <2>4. Cardinality(above) \in Nat /\ Cardinality(below) \in Nat
    BY <1>4, <2>1, FS_CardinalityType, Zenon
  <2>5. Cardinality(above \cup below) = Cardinality(above) + Cardinality(below)
    BY <2>2, <2>3, <2>4
  <2> QED
    BY <1>5, <2>1, <2>5, Zenon
<1>7. IsFiniteSet(L)
  <2>1. IsFiniteSet(1 .. View)
    BY ViewAssumption, FS_Interval
  <2>2. IsFiniteSet(R \X (1 .. View))
    BY <1>2, <2>1, FS_Product, Zenon
  <2>3. L \in SUBSET (R \X (1 .. View))
    BY DEF RowLines
  <2> QED
    BY <2>2, <2>3, FS_Subset, Zenon
<1>8. \A j \in 1 .. n : q[j] \in R /\ Slot(q[j]) \in Nat /\ (j >= k <=> Slot(q[j]) >= Slot(q[k]))
  <2> SUFFICES ASSUME NEW j \in 1 .. n
               PROVE  q[j] \in R /\ Slot(q[j]) \in Nat /\ (j >= k <=> Slot(q[j]) >= Slot(q[k]))
    OBVIOUS
  <2>1. q[j] \in R /\ q[j] \in Row /\ q[k] \in Row /\ j \in Nat
    BY <1>1, <1>3
  <2>2. Slot(q[j]) \in Nat /\ Slot(q[k]) \in Nat
    BY <2>1, SlotIsNumber
  <2>3. j < k <=> Slot(q[j]) < Slot(q[k])
    BY <1>1, <1>3
  <2> QED
    BY <1>3, <2>1, <2>2, <2>3
<1>9. \A i, j \in 1 .. n : q[i] = q[j] => i = j
  <2> SUFFICES ASSUME NEW i \in 1 .. n, NEW j \in 1 .. n, q[i] = q[j] PROVE i = j
    OBVIOUS
  <2>1. Slot(q[i]) = Slot(q[j]) /\ Slot(q[i]) \in Nat
    BY <1>8
  <2>2. i < j <=> Slot(q[i]) < Slot(q[j])
    BY <1>1, <1>3
  <2>3. j < i <=> Slot(q[j]) < Slot(q[i])
    BY <1>1, <1>3
  <2>4. ~(i < j) /\ ~(j < i)
    BY <2>1, <2>2, <2>3
  <2> QED
    BY <1>3, <2>4
<1>10. g \in [below -> L]
  <2> SUFFICES ASSUME NEW place \in below PROVE <<q[place[1]], place[2]>> \in L
    OBVIOUS
  <2>1. place[1] \in k .. n /\ place[2] \in 1 .. View /\ place[2] <= q[place[1]].height
    BY DEF LinesOf
  <2>2. place[1] \in 1 .. n /\ place[1] >= k
    BY <1>3, <2>1
  <2> QED
    BY <1>8, <2>1, <2>2 DEF RowLines
<1>11. \A a, b \in below : g[a] = g[b] => a = b
  <2> SUFFICES ASSUME NEW a \in below, NEW b \in below, g[a] = g[b] PROVE a = b
    OBVIOUS
  <2>1. /\ a = <<a[1], a[2]>> /\ a[1] \in k .. n
        /\ b = <<b[1], b[2]>> /\ b[1] \in k .. n
    BY DEF LinesOf
  <2>2. q[a[1]] = q[b[1]] /\ a[2] = b[2]
    OBVIOUS
  <2>3. a[1] \in 1 .. n /\ b[1] \in 1 .. n
    BY <1>3, <2>1
  <2> QED
    BY <1>9, <2>1, <2>2, <2>3
<1>12. \A place \in L : \E a \in below : g[a] = place
  <2> SUFFICES ASSUME NEW place \in L PROVE \E a \in below : g[a] = place
    OBVIOUS
  <2>1. /\ place = <<place[1], place[2]>> /\ place[1] \in R /\ place[2] \in 1 .. View
        /\ Slot(place[1]) >= Slot(q[k]) /\ place[2] <= place[1].height
    BY DEF RowLines
  <2>2. PICK j \in 1 .. n : q[j] = place[1]
    BY <1>1, <1>3, <2>1
  <2>3. j \in k .. n
    BY <1>3, <1>8, <2>1, <2>2
  <2>4. <<j, place[2]>> \in below
    BY <2>1, <2>2, <2>3 DEF LinesOf
  <2>5. g[<<j, place[2]>>] = place
    BY <2>1, <2>2, <2>4
  <2> QED
    BY <2>4, <2>5
<1>13. Cardinality(L) = Cardinality(below)
  <2>1. g \in Injection(below, L) /\ g \in Surjection(below, L)
    BY <1>10, <1>11, <1>12 DEF Injection, IsInjective, Surjection
  <2> HIDE DEF g, below, L
  <2> QED
    BY <1>7, <2>1, FS_Injection
<1> HIDE DEF L, all, above, below
<1>14. Cardinality(L) \in Nat
  BY <1>7, FS_CardinalityType
<1> QED
  BY <1>4, <1>6, <1>7, <1>13, <1>14 DEF L, q, R

--------------------------------------------------------------------------------
(* A rebuild under a reader.                                                   *)

\* Below a message that stays, the list loses one line at most: the messages there
\* stay, each day that begins there still does, and there was one marker.
LEMMA OneLineLost ==
  ASSUME NEW I \in SUBSET Id, NEW J \in SUBSET Id, NEW x \in I, x \in J,
         \A i \in I : i >= x => i \in J,
         NEW m, NEW d, NEW n, NEW e
  PROVE  LET was == RowLines(RowSet(I, m, d), 3 * x + 1)
             is  == RowLines(RowSet(J, n, e), 3 * x + 1)
         IN IsFiniteSet(was) /\ IsFiniteSet(is) => Cardinality(was) <= Cardinality(is) + 1
<1> DEFINE Q == RowSet(I, m, d)
           R == RowSet(J, n, e)
           was == RowLines(Q, 3 * x + 1)
           is  == RowLines(R, 3 * x + 1)
           gone == <<Marker(m), 1>>
           rest == was \ {gone}
           Move(row) == IF IsMessage(row) THEN row ELSE Separator(FirstOfDay(J, Day[row.id]))
           h == [place \in rest |-> <<Move(place[1]), place[2]>>]
<1> SUFFICES ASSUME IsFiniteSet(was), IsFiniteSet(is)
             PROVE  Cardinality(was) <= Cardinality(is) + 1
  OBVIOUS
<1>1. x \in Nat /\ View \in Nat /\ View >= 3 /\ I \subseteq Nat /\ J \subseteq Nat
  BY DayFacts, ViewAssumption
<1>2. Q \in SUBSET Row /\ R \in SUBSET Row
  BY RowSetFacts
<1>3. ASSUME NEW row \in Q
      PROVE  \/ IsMessage(row) /\ row.id \in I /\ row = MessageRow(row.id)
             \/ /\ ~IsMessage(row) /\ row.kind = "date" /\ row.height = 1
                /\ row.id \in I /\ row = Separator(row.id) /\ NewDay(I, row.id, d)
             \/ row = Marker(m) /\ row.height = 1
  BY DEF RowSet, MessageRow, Separator, Marker, IsMessage
<1>4. /\ \A i \in J : MessageRow(i) \in R
      /\ \A i \in J : NewDay(J, i, e) => Separator(i) \in R
  BY DEF RowSet
<1> HIDE DEF Q, R
\* The row of a line that is not lost.
<1>5. ASSUME NEW place \in rest
      PROVE  /\ place = <<place[1], place[2]>> /\ place[1] \in Q /\ place[2] \in 1 .. View
             /\ place[2] <= place[1].height
             /\ \/ /\ IsMessage(place[1]) /\ place[1].id \in I /\ place[1].id >= x
                   /\ place[1] = MessageRow(place[1].id)
                \/ /\ ~IsMessage(place[1]) /\ place[1].height = 1 /\ place[2] = 1
                   /\ place[1].id \in I /\ place[1].id > x
                   /\ place[1] = Separator(place[1].id) /\ NewDay(I, place[1].id, d)
  <2> DEFINE row == place[1]
  <2>1. /\ place = <<place[1], place[2]>> /\ row \in Q /\ place[2] \in 1 .. View
        /\ place[2] <= row.height /\ Slot(row) >= 3 * x + 1 /\ place # gone
    BY DEF RowLines
  <2>2. row \in Row
    BY <1>2, <2>1
  <2>3. row.height = 1 => place[2] = 1
    BY <2>1
  <2>4. row # Marker(m)
    <3>1. Marker(m).height = 1
      BY DEF Marker
    <3> SUFFICES ASSUME row = Marker(m) PROVE FALSE
      OBVIOUS
    <3>2. place[2] = 1 /\ place = <<Marker(m), 1>>
      BY <2>1, <2>3, <3>1
    <3> QED
      BY <2>1, <3>2
  <2>5. IsMessage(row) /\ row.id \in I => row.id >= x
    <3> SUFFICES ASSUME IsMessage(row), row.id \in I PROVE row.id >= x
      OBVIOUS
    <3>1. Slot(row) = 3 * row.id + 1
      BY <2>2, SlotIsNumber DEF IsMessage
    <3> QED
      BY <1>1, <2>1, <3>1
  <2>6. row.kind = "date" /\ row.id \in I => row.id > x
    <3> SUFFICES ASSUME row.kind = "date", row.id \in I PROVE row.id > x
      OBVIOUS
    <3>1. Slot(row) = 3 * row.id
      BY <2>2, SlotIsNumber
    <3> QED
      BY <1>1, <2>1, <3>1
  <2> QED
    BY <1>3, <2>1, <2>3, <2>4, <2>5, <2>6
\* Where that line is afterwards.
<1>6. ASSUME NEW place \in rest, ~IsMessage(place[1])
      PROVE  LET i == place[1].id
                 z == FirstOfDay(J, Day[i])
             IN /\ i \in J /\ i \in Id /\ Day[x] < Day[i]
                /\ z \in J /\ z > x /\ Day[z] = Day[i] /\ NewDay(J, z, e)
  <2> DEFINE i == place[1].id
  <2>1. i \in I /\ i > x /\ NewDay(I, i, d)
    BY <1>5, <1>6
  <2> HIDE DEF i
  <2>2. i \in J /\ i \in Id
    BY <1>1, <2>1
  <2>3. Day[x] < Day[i]
    BY <1>1, <2>1, SeparatorAfter
  <2> QED
    BY <2>2, <2>3, SeparatorMoves DEF i
<1>7. ASSUME NEW place \in rest PROVE <<Move(place[1]), place[2]>> \in is
  <2>1. CASE IsMessage(place[1])
    <3> DEFINE i == place[1].id
    <3>1. i \in I /\ i >= x /\ place[1] = MessageRow(i) /\ place[2] \in 1 .. View
      BY <1>5, <2>1 DEF MessageRow
    <3>2. place[1] \in R
      BY <1>4, <3>1
    <3>3. Slot(place[1]) >= 3 * x + 1
      BY DEF RowLines
    <3>4. place[2] <= place[1].height
      BY <1>5
    <3> QED
      BY <2>1, <3>1, <3>2, <3>3, <3>4 DEF RowLines
  <2>2. CASE ~IsMessage(place[1])
    <3> DEFINE z == FirstOfDay(J, Day[place[1].id])
    <3>1. z \in J /\ z > x /\ NewDay(J, z, e)
      BY <1>6, <2>2
    <3> HIDE DEF z
    <3>2. Separator(z) \in R /\ Separator(z) \in Row
      BY <1>2, <1>4, <3>1
    <3>3. Separator(z).kind = "date" /\ Separator(z).id = z /\ Separator(z).height = 1
      BY DEF Separator
    <3>4. Slot(Separator(z)) = 3 * z
      BY <3>2, <3>3, SlotIsNumber
    <3>5. Slot(Separator(z)) >= 3 * x + 1
      BY <1>1, <3>1, <3>4
    <3>6. place[2] = 1
      BY <1>5, <2>2
    <3>7. <<Separator(z), place[2]>> \in is
      BY <1>1, <3>2, <3>3, <3>5, <3>6 DEF RowLines
    <3> QED
      BY <2>2, <3>7 DEF z
  <2> QED
    BY <2>1, <2>2
<1>8. \A s \in J : ~IsMessage(Separator(s)) /\ Separator(s).id = s
  BY DEF Separator, IsMessage
<1>9. ASSUME NEW a \in rest, NEW b \in rest, h[a] = h[b] PROVE a = b
  <2>1. Move(a[1]) = Move(b[1]) /\ a[2] = b[2]
    BY <1>9
  <2>2. a[1] = b[1]
    <3>1. CASE IsMessage(a[1]) /\ IsMessage(b[1])
      BY <2>1, <3>1
    <3>2. CASE ~IsMessage(a[1]) /\ ~IsMessage(b[1])
      <4> DEFINE i == a[1].id
                 j == b[1].id
      <4>1. FirstOfDay(J, Day[i]) = FirstOfDay(J, Day[j])
        <5>1. FirstOfDay(J, Day[i]) \in J /\ FirstOfDay(J, Day[j]) \in J
          BY <1>6, <3>2
        <5>2. Separator(FirstOfDay(J, Day[i])) = Separator(FirstOfDay(J, Day[j]))
          BY <2>1, <3>2
        <5> QED
          BY <1>8, <5>1, <5>2, Zenon
      <4>2. Day[i] = Day[j]
        <5>1. Day[FirstOfDay(J, Day[i])] = Day[i] /\ Day[FirstOfDay(J, Day[j])] = Day[j]
          BY <1>6, <3>2
        <5> QED
          BY <4>1, <5>1, Zenon
      <4>3. /\ i \in I /\ NewDay(I, i, d) /\ a[1] = Separator(i)
            /\ j \in I /\ NewDay(I, j, d) /\ b[1] = Separator(j)
        BY <1>5, <3>2
      <4> HIDE DEF i, j
      <4>4. i \in Nat /\ j \in Nat /\ Day[i] \in Nat
        BY <4>3, DayFacts
      <4>5. ~(i < j) /\ ~(j < i)
        BY <4>2, <4>3, <4>4, SeparatorAfter
      <4> QED
        BY <4>3, <4>4, <4>5
    <3>3. CASE IsMessage(a[1]) /\ ~IsMessage(b[1])
      <4>1. FirstOfDay(J, Day[b[1].id]) \in J
        BY <1>6, <3>3
      <4>2. ~IsMessage(Move(b[1])) /\ IsMessage(Move(a[1]))
        BY <1>8, <3>3, <4>1
      <4> QED
        BY <2>1, <4>2, Zenon
    <3>4. CASE ~IsMessage(a[1]) /\ IsMessage(b[1])
      <4>1. FirstOfDay(J, Day[a[1].id]) \in J
        BY <1>6, <3>4
      <4>2. ~IsMessage(Move(a[1])) /\ IsMessage(Move(b[1]))
        BY <1>8, <3>4, <4>1
      <4> QED
        BY <2>1, <4>2, Zenon
    <3> QED
      BY <3>1, <3>2, <3>3, <3>4
  <2>3. a = <<a[1], a[2]>> /\ b = <<b[1], b[2]>>
    BY <1>5
  <2> QED
    BY <2>1, <2>2, <2>3
<1>10. h \in Injection(rest, is)
  <2>1. h \in [rest -> is]
    BY <1>7
  <2> QED
    BY <1>9, <2>1 DEF Injection, IsInjective
<1> HIDE DEF h, was, is, gone
<1>11. IsFiniteSet(rest) /\ Cardinality(rest) <= Cardinality(is)
  BY <1>10, FS_Injection
<1>12. Cardinality(was) <= Cardinality(rest) + 1
  <2>1. Cardinality(rest) = IF gone \in was THEN Cardinality(was) - 1 ELSE Cardinality(was)
    BY FS_RemoveElement, Zenon
  <2>2. Cardinality(was) \in Nat
    BY FS_CardinalityType, Zenon
  <2> QED
    BY <2>1, <2>2
<1>13. Cardinality(was) \in Nat /\ Cardinality(rest) \in Nat /\ Cardinality(is) \in Nat
  BY <1>11, FS_CardinalityType, Zenon
<1> QED
  BY <1>11, <1>12, <1>13

\* The reader's place, when the message at the top is still there.
LEMMA PlaceIsKept ==
  ASSUME LogInv, Refresh, ~AtTail,
         RowOf(rows', rows[TopMessage(rows, scroll)].id) # NoRow
  PROVE  LET top == TopMessage(rows, scroll)
             now == RowOf(rows', rows[top].id)
             was == FirstLine(rows, top) - scroll
             is  == FirstLine(rows', now) - scroll'
         IN is = was \/ (scroll' = 0 /\ is < was)
<1> DEFINE top == TopMessage(rows, scroll)
           x   == rows[top].id
           now == RowOf(rows', x)
<1>1. PICK I \in SUBSET Id, mark \in {NoId} \cup Id, date \in 1 .. LastDay :
        rows = Rows(I, mark, date) /\ \A i \in I : i \in messages \/ PushedOut(i)
  BY DEF LogInv, Shown
<1>2. /\ messages \in SUBSET Id /\ messages' = messages /\ scroll \in Nat
      /\ rows' = Rows(messages', marker', today)
  BY DEF LogInv, LogTypeOK, Refresh, Rebuild
<1>3. WellLaid(rows) /\ rows \in Seq(Row) /\ rows' \in Seq(Row) /\ scroll < MaxScroll(rows)
  <2>1. rows' \in Seq(Row)
    BY <1>2, RowsFacts
  <2> QED
    BY <2>1, ShownWellLaid, AboveTail DEF LogInv
<1>4. top \in MessagesIn(rows)
  BY <1>2, <1>3, TopMessageFacts
<1>5. now \in MessagesIn(rows') /\ rows'[now].id = x
  BY <1>3, RowOfFacts
<1>6. scroll' = RestoreAnchor(rows', Anchor(rows, scroll))
  BY DEF Refresh
<1>7. Anchor(rows, scroll) = [id |-> x, delta |-> scroll - FirstLine(rows, top)]
  BY DEF Anchor
<1> HIDE DEF top, now
<1>8. x \in I /\ x \in messages /\ x \in Id
  <2>1. x \in I
    BY <1>1, <1>4, RowsMessages
  <2>2. x \in messages
    BY <1>2, <1>5, RowsMessages
  <2> QED
    BY <2>1, <2>2
<1>9. \A i \in I : i >= x => i \in messages
  <2> SUFFICES ASSUME NEW i \in I, i >= x, i \notin messages PROVE FALSE
    OBVIOUS
  <2>1. i \in Id /\ i \in Nat /\ x \in Nat
    BY <1>8, DayFacts
  <2>2. PushedOut(i)
    BY <1>1
  <2>3. x > i
    BY <1>8, <2>1, <2>2, PushedOutIsOlder DEF LogInv
  <2> QED
    BY <2>1, <2>3
<1>10. top \in DOMAIN rows /\ now \in DOMAIN rows'
  BY <1>4, <1>5 DEF MessagesIn
<1>11. Slot(rows[top]) = 3 * x + 1 /\ Slot(rows'[now]) = 3 * x + 1
  <2>1. rows[top] \in Row /\ rows'[now] \in Row
    BY <1>3, <1>10
  <2>2. rows[top].kind = "message" /\ rows'[now].kind = "message"
    BY <1>4, <1>5 DEF MessagesIn, IsMessage
  <2> QED
    BY <1>5, <2>1, <2>2, SlotIsNumber
<1> DEFINE before == RowLines(RowSet(I, mark, date), 3 * x + 1)
           after  == RowLines(RowSet(messages, marker', today), 3 * x + 1)
<1>12. /\ IsFiniteSet(before) /\ Cardinality(before) \in Nat
       /\ Lines(rows) = FirstLine(rows, top) + Cardinality(before)
  <2>1. top \in DOMAIN Rows(I, mark, date)
    BY <1>1, <1>10
  <2> QED
    BY <1>1, <1>11, <2>1, LinesBelow
<1>13. /\ IsFiniteSet(after) /\ Cardinality(after) \in Nat
       /\ Lines(rows') = FirstLine(rows', now) + Cardinality(after)
  <2>1. rows' = Rows(messages, marker', today) /\ now \in DOMAIN Rows(messages, marker', today)
    BY <1>2, <1>10
  <2>2. /\ IsFiniteSet(RowLines(RowSet(messages, marker', today), Slot(rows'[now])))
        /\ Cardinality(RowLines(RowSet(messages, marker', today), Slot(rows'[now]))) \in Nat
        /\ Lines(rows') = FirstLine(rows', now)
             + Cardinality(RowLines(RowSet(messages, marker', today), Slot(rows'[now])))
    BY <1>2, <2>1, LinesBelow
  <2> QED
    BY <1>11, <2>2
<1>14. Cardinality(before) <= Cardinality(after) + 1
  BY <1>2, <1>8, <1>9, <1>12, <1>13, OneLineLost
<1> HIDE DEF before, after, x
<1> DEFINE was   == FirstLine(rows, top)
           is    == FirstLine(rows', now)
           most  == MaxScroll(rows')
           back  == is + (scroll - was)
           least == Max({0, back})
<1>15. was \in Nat /\ is \in Nat /\ View \in Nat
  BY <1>3, <1>10, LinesWithin, ViewAssumption
<1>16. scroll' = Min({most, least})
  <2>1. Anchor(rows, scroll).id = x /\ Anchor(rows, scroll).delta = scroll - was
    BY <1>7
  <2>2. now = RowOf(rows', x) /\ now # NoRow
    BY DEF now, x, top
  <2> QED
    BY <1>6, <2>1, <2>2 DEF RestoreAnchor
<1>17. /\ Lines(rows) \in Nat /\ MaxScroll(rows) \in Nat
       /\ MaxScroll(rows) = IF Lines(rows) > View THEN Lines(rows) - View ELSE 0
       /\ Lines(rows') \in Nat /\ most \in Nat
       /\ most = IF Lines(rows') > View THEN Lines(rows') - View ELSE 0
  BY <1>3, MaxScrollFacts
<1> HIDE DEF was, is, most
<1>18. Lines(rows) = was + Cardinality(before) /\ Lines(rows') = is + Cardinality(after)
  BY <1>12, <1>13 DEF was, is
<1>19. back \in Int /\ back <= most
  <2>1. back \in Int
    BY <1>2, <1>15
  <2>2. scroll + View + 1 <= Lines(rows)
    BY <1>2, <1>3, <1>15, <1>17
  <2>3. back + View <= Lines(rows')
    BY <1>2, <1>12, <1>13, <1>14, <1>15, <1>17, <1>18, <2>2
  <2> QED
    BY <1>15, <1>17, <2>1, <2>3
<1> HIDE DEF back
<1>20. least = IF back >= 0 THEN back ELSE 0
  <2>1. 0 \in Int
    OBVIOUS
  <2>2. least \in {0, back} /\ least >= 0 /\ least >= back
    BY <1>19, <2>1, MaxOfTwo, Zenon
  <2> QED
    BY <1>19, <2>2
<1> HIDE DEF least
<1>21. scroll' = least
  <2>1. most \in Int /\ least \in Int /\ least <= most
    BY <1>17, <1>19, <1>20
  <2>2. Min({most, least}) \in {most, least} /\ Min({most, least}) <= most /\ Min({most, least}) <= least
    BY <2>1, MaxOfTwo, Zenon
  <2> QED
    BY <1>16, <2>1, <2>2
<1>22. is - scroll' = was - scroll \/ (scroll' = 0 /\ is - scroll' < was - scroll)
  <2>1. back = is + (scroll - was)
    BY DEF back
  <2> QED
    BY <1>2, <1>15, <1>19, <1>20, <1>21, <2>1
<1> QED
  BY <1>22 DEF is, was, now, top, x

ReaderStaysStep ==
  Refresh =>
    /\ AtTail => scroll' = MaxScroll(rows')
    /\ ~AtTail =>
         LET top == TopMessage(rows, scroll)
             now == RowOf(rows', rows[top].id)
             was == FirstLine(rows, top) - scroll
             is  == FirstLine(rows', now) - scroll'
         IN IF now = NoRow THEN scroll' = 0 /\ \A i \in messages : i > rows[top].id
            ELSE is = was \/ (scroll' = 0 /\ is < was)
    /\ highlighted # NoRow /\ rows[highlighted].id \in messages =>
         highlighted' # NoRow /\ rows'[highlighted'].id = rows[highlighted].id

\* A rebuild keeps place, tail and cursor.
LEMMA RefreshKeepsReader == LogInv /\ [LogNext]_logVars => ReaderStaysStep
<1> SUFFICES ASSUME LogInv, Refresh
             PROVE  /\ AtTail => scroll' = MaxScroll(rows')
                    /\ ~AtTail =>
                         LET top == TopMessage(rows, scroll)
                             now == RowOf(rows', rows[top].id)
                             was == FirstLine(rows, top) - scroll
                             is  == FirstLine(rows', now) - scroll'
                         IN IF now = NoRow
                            THEN scroll' = 0 /\ \A i \in messages : i > rows[top].id
                            ELSE is = was \/ (scroll' = 0 /\ is < was)
                    /\ highlighted # NoRow /\ rows[highlighted].id \in messages =>
                         highlighted' # NoRow /\ rows'[highlighted'].id = rows[highlighted].id
  BY DEF ReaderStaysStep
<1>1. PICK I \in SUBSET Id, mark \in {NoId} \cup Id, date \in 1 .. LastDay :
        rows = Rows(I, mark, date) /\ \A i \in I : i \in messages \/ PushedOut(i)
  BY DEF LogInv, Shown
<1>2. /\ messages \in SUBSET Id /\ messages' = messages /\ scroll \in Nat
      /\ rows' = Rows(messages, marker', today)
  BY DEF LogInv, LogTypeOK, Refresh, Rebuild
<1>3. rows' \in Seq(Row)
  BY <1>2, RowsFacts
<1>4. \A i \in messages : RowOf(rows', i) # NoRow /\ rows'[RowOf(rows', i)].id = i
  <2> SUFFICES ASSUME NEW i \in messages
               PROVE  RowOf(rows', i) # NoRow /\ rows'[RowOf(rows', i)].id = i
    OBVIOUS
  <2>1. \E k \in MessagesIn(rows') : rows'[k].id = i
    BY <1>2, RowsMessages
  <2> QED
    BY <1>3, <2>1, RowOfFacts
<1>5. AtTail => scroll' = MaxScroll(rows')
  BY DEF Refresh
<1>6. ASSUME ~AtTail, RowOf(rows', rows[TopMessage(rows, scroll)].id) = NoRow
      PROVE  scroll' = 0 /\ \A i \in messages : i > rows[TopMessage(rows, scroll)].id
  <2> DEFINE x == rows[TopMessage(rows, scroll)].id
  <2>1. TopMessage(rows, scroll) \in MessagesIn(rows)
    BY <1>2, <1>6, ShownWellLaid, AboveTail, TopMessageFacts DEF LogInv
  <2>2. x \in I /\ x \in Id
    BY <1>1, <2>1, RowsMessages
  <2>3. PushedOut(x)
    BY <1>1, <1>4, <1>6, <2>2
  <2>4. \A i \in messages : i > x
    BY <2>2, <2>3, PushedOutIsOlder DEF LogInv
  <2>5. scroll' = RestoreAnchor(rows', Anchor(rows, scroll)) /\ Anchor(rows, scroll).id = x
    BY <1>6 DEF Refresh, Anchor
  <2>6. scroll' = 0
    BY <1>6, <2>5 DEF RestoreAnchor
  <2> QED
    BY <2>4, <2>6
<1>7. ASSUME highlighted # NoRow, rows[highlighted].id \in messages
      PROVE  highlighted' # NoRow /\ rows'[highlighted'].id = rows[highlighted].id
  <2>1. highlighted' = RowOf(rows', rows[highlighted].id)
    BY <1>7 DEF Refresh
  <2> QED
    BY <1>4, <1>7, <2>1
<1>8. ASSUME ~AtTail
      PROVE  LET top == TopMessage(rows, scroll)
                 now == RowOf(rows', rows[top].id)
                 was == FirstLine(rows, top) - scroll
                 is  == FirstLine(rows', now) - scroll'
             IN IF now = NoRow THEN scroll' = 0 /\ \A i \in messages : i > rows[top].id
                ELSE is = was \/ (scroll' = 0 /\ is < was)
  <2>1. CASE RowOf(rows', rows[TopMessage(rows, scroll)].id) = NoRow
    BY <1>6, <1>8, <2>1
  <2>2. CASE RowOf(rows', rows[TopMessage(rows, scroll)].id) # NoRow
    BY <1>8, <2>2, PlaceIsKept
  <2> QED
    BY <2>1, <2>2
<1> QED
  BY <1>5, <1>7, <1>8

\* A rebuild leaves the reader's place, and the cursor on its message
\* (message_log.py:144-175, 399-442), whatever arrived, aged or was evicted since the
\* list was last built.
THEOREM ReaderStaysThere == LogSpec => ReaderStays
<1>1. LogInit => LogInv
  BY LogInitInv
<1>2. LogInv /\ [LogNext]_logVars => LogInv'
  BY LogStepInv
<1>3. LogInv /\ [LogNext]_logVars => [ReaderStaysStep]_logVars
  BY RefreshKeepsReader
<1>4. [][ReaderStaysStep]_logVars => ReaderStays
  BY DEF ReaderStaysStep, ReaderStays
<1> QED
  BY <1>1, <1>2, <1>3, <1>4, PTL DEF LogSpec

================================================================================

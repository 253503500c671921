--------------------------------- MODULE LogView ---------------------------------
(***************************************************************************)
(* The message log, a list that is torn down and rebuilt on every change   *)
(* while somebody reads it (app/widgets/message_log.py).  A row is a       *)
(* message, a date separator or the marker; a message wraps over one or    *)
(* more lines of the screen, so that the scroll position counts lines and  *)
(* the cursor counts rows.                                                 *)
(*                                                                         *)
(* Only the buffer shown is kept: another one may hold anything when the   *)
(* log is switched to it.  When the app redraws is AppUi's subject; here   *)
(* it may be at any time, late or for nothing.  The width of the screen    *)
(* does not change.                                                        *)
(***************************************************************************)
EXTENDS Integers, Sequences, FiniteSets, FiniteSetsExt

CONSTANTS
  MaxId,    \* bound: message ids are 1 .. MaxId
  Height,   \* the lines each message takes on the screen
  Day,      \* the local date of each message
  LastDay,  \* bound: the date does not advance past it
  View,     \* the lines of the log on the screen
  Cap       \* max_messages_per_buffer

Id    == 1 .. MaxId
NoId  == 0
NoRow == 0

ASSUME BoundsAssumption == MaxId \in Nat /\ LastDay \in Nat \ {0}
ASSUME HeightAssumption == Height \in [Id -> 1 .. View]
\* The core numbers messages in the order of their times.
ASSUME DayAssumption ==
  Day \in [Id -> 1 .. LastDay] /\ \A i, j \in Id : i < j => Day[i] <= Day[j]
\* A marker and a date separator fit above a message.
ASSUME ViewAssumption == View \in Nat /\ View >= 3
ASSUME CapAssumption == Cap \in Nat \ {0}

VARIABLES
  today,        \* the local date
  messages,     \* state.messages of the buffer, as ids
  marker,       \* state.read_markers of the buffer
  rows,         \* the options of the list, as last built
  highlighted,  \* the row of the cursor; NoRow is None
  scroll,       \* scroll_y
  click         \* the row a click waiting in the log's queue carries

logVars == <<today, messages, marker, rows, highlighted, scroll, click>>

--------------------------------------------------------------------------------
(* Rows and lines.                                                             *)

\* A separator and the marker are filed under the message they stand above or below;
\* in the code only the options of messages carry its id.
MessageRow(i) == [kind |-> "message", id |-> i, height |-> Height[i]]
Separator(i)  == [kind |-> "date", id |-> i, height |-> 1]
Marker(i)     == [kind |-> "marker", id |-> i, height |-> 1]

Part == [date |-> 0, message |-> 1, marker |-> 2]
Slot(row) == 3 * row.id + Part[row.kind]

\* _rebuild: a separator where the date changes, the first one against today.
Earlier(ids, i) == {j \in ids : j < i}
NewDay(ids, i, date) ==
  Day[i] # IF Earlier(ids, i) = {} THEN date ELSE Day[Max(Earlier(ids, i))]

RowSet(ids, mark, date) ==
  {MessageRow(i) : i \in ids} \cup {Marker(i) : i \in ids \cap {mark}}
    \cup {Separator(i) : i \in {j \in ids : NewDay(ids, j, date)}}

\* The loop appends them in this order.
Above(R, row) == {s \in R : Slot(s) < Slot(row)}
InOrder(R) ==
  [k \in 1 .. Cardinality(R) |-> CHOOSE row \in R : Cardinality(Above(R, row)) = k - 1]

Rows(ids, mark, date) == InOrder(RowSet(ids, mark, date))

IsMessage(row)  == row.kind = "message"
MessagesIn(rs)  == {k \in DOMAIN rs : IsMessage(rs[k])}

\* Textual's _lines, of some rows: each line is a row and a number within the row.
LinesOf(rs, ks) == {line \in ks \X (1 .. View) : line[2] <= rs[line[1]].height}

\* Textual's _index_to_line, counted from 0 and defined for the row after the last
\* too, and max_scroll_y.
FirstLine(rs, k) == Cardinality(LinesOf(rs, 1 .. k - 1))
RowAt(rs, y)     == Max({k \in DOMAIN rs : FirstLine(rs, k) <= y})
Lines(rs)        == FirstLine(rs, Len(rs) + 1)
MaxScroll(rs)    == Max({0, Lines(rs) - View})

\* get_option_index; NoRow when there is no such row.
RowOf(rs, id) == Max({k \in MessagesIn(rs) : rs[k].id = id} \cup {NoRow})

\* _first_message_index_from: at or below row k, else above it.
FirstMessageFrom(rs, k) ==
  LET below == {j \in MessagesIn(rs) : j >= k}
  IN IF below # {} THEN Min(below) ELSE Max(MessagesIn(rs) \cup {NoRow})

\* _top_visible_message_index
TopMessage(rs, y) ==
  IF rs = <<>> THEN NoRow ELSE FirstMessageFrom(rs, RowAt(rs, y))

\* _last_message_index
LastMessage(rs) == Max(MessagesIn(rs) \cup {NoRow})

AtTail == scroll = MaxScroll(rows)

\* Part of row k is on the screen.
OnScreen(rs, k, y) == FirstLine(rs, k) < y + View /\ FirstLine(rs, k + 1) > y

--------------------------------------------------------------------------------
(* What the log shows.                                                         *)

LogInit ==
  /\ today = 1 /\ messages = {} /\ marker = NoId
  /\ rows = <<>> /\ highlighted = NoRow /\ scroll = 0 /\ click = NoRow

Known    == {i \in Id : Day[i] <= today}
Trim(ids) == {i \in ids : Cardinality({j \in ids : j > i}) < Cap}

\* A live line or a reply of backlog, old or new, and the retention cap.
HistoryGrows(ids) ==
  /\ ids # {} /\ messages' = Trim(messages \cup ids)
  /\ UNCHANGED <<today, marker, rows, highlighted, scroll, click>>

\* Enter on a row, an empty line, or the core's marker line.
MarkerMoves(id) ==
  /\ marker' = id
  /\ UNCHANGED <<today, messages, rows, highlighted, scroll, click>>

Midnight ==
  /\ today < LastDay /\ today' = today + 1
  /\ UNCHANGED <<messages, marker, rows, highlighted, scroll, click>>

Rebuild == rows' = Rows(messages', marker', today)

\* set_active_buffer for another buffer.
Switch(ids, mark) ==
  /\ messages' = Trim(ids) /\ marker' = mark /\ Rebuild
  /\ highlighted' = NoRow
  /\ scroll' = MaxScroll(rows')
  /\ UNCHANGED <<today, click>>

\* _capture_scroll_anchor.  Above the tail there is always a message to anchor on.
Anchor(rs, y) ==
  LET k == TopMessage(rs, y) IN [id |-> rs[k].id, delta |-> y - FirstLine(rs, k)]

\* Mutant of RestoreAnchor: forgets how far the top was from the message.
RestoreMessage(rs, anchor) ==
  LET k == RowOf(rs, anchor.id)
  IN IF k = NoRow THEN 0 ELSE Min({MaxScroll(rs), FirstLine(rs, k)})

\* _restore_scroll_anchor.  clear_options has scrolled to the top: that is where
\* the reader of an evicted message stays.
RestoreAnchor(rs, anchor) ==
  LET k == RowOf(rs, anchor.id)
  IN IF k = NoRow THEN 0
     ELSE Min({MaxScroll(rs), Max({0, FirstLine(rs, k) + anchor.delta})})

\* set_active_buffer for the buffer shown: cursor and view are taken before the
\* rebuild and restored after it.
Refresh ==
  /\ UNCHANGED <<today, messages, marker, click>> /\ Rebuild
  /\ highlighted' = IF highlighted = NoRow THEN NoRow
                    ELSE RowOf(rows', rows[highlighted].id)
  /\ scroll' = IF AtTail THEN MaxScroll(rows')
               ELSE RestoreAnchor(rows', Anchor(rows, scroll))

\* ActiveBufferUpdated(None): clear_options, while _active_buffer stays.
Clear ==
  /\ rows' = <<>> /\ highlighted' = NoRow /\ scroll' = 0
  /\ UNCHANGED <<today, messages, marker, click>>

--------------------------------------------------------------------------------
(* The reader.                                                                 *)

\* Mutant of FocusRow: always the newest message.
FocusNewest == LastMessage(rows)

FocusRow == IF AtTail THEN LastMessage(rows) ELSE TopMessage(rows, scroll)

\* on_focus: the view does not move.
Focus ==
  /\ highlighted = NoRow /\ highlighted' = FocusRow
  /\ UNCHANGED <<today, messages, marker, rows, scroll, click>>

\* Textual's watcher of highlighted: just as far as the row needs to be on screen.
MoveCursor(k) ==
  LET first == FirstLine(rows, k)
      last  == first + rows[k].height - 1
  IN /\ highlighted' = k
     /\ scroll' = IF first < scroll THEN first
                  ELSE IF last >= scroll + View THEN last - View + 1
                  ELSE scroll

\* Arrows, Home, End and the page keys: they only stop at enabled rows.
PressKey(k) ==
  /\ IsMessage(rows[k]) /\ MoveCursor(k)
  /\ UNCHANGED <<today, messages, marker, rows, click>>

ScrollTo(y) ==
  /\ scroll' = y
  /\ UNCHANGED <<today, messages, marker, rows, highlighted, click>>

Click(k) ==
  /\ click = NoRow /\ OnScreen(rows, k, scroll) /\ click' = k
  /\ UNCHANGED <<today, messages, marker, rows, highlighted, scroll>>

\* Mutant of LandsOn: a click on any row takes the cursor.
LandsOnAny(k) == k \in DOMAIN rows

\* The rows may have been rebuilt since the click.
LandsOn(k) == k \in DOMAIN rows /\ IsMessage(rows[k])

\* _on_click: moves the cursor and selects nothing.
HandleClick ==
  /\ click # NoRow /\ click' = NoRow
  /\ IF LandsOn(click) THEN MoveCursor(click) ELSE UNCHANGED <<highlighted, scroll>>
  /\ UNCHANGED <<today, messages, marker, rows>>

--------------------------------------------------------------------------------

LogNext ==
  \/ \E ids \in SUBSET Known : HistoryGrows(ids)
  \/ \E ids \in SUBSET Known, mark \in {NoId} \cup Known : Switch(ids, mark)
  \/ \E id \in Known : MarkerMoves(id)
  \/ \E k \in DOMAIN rows : PressKey(k) \/ Click(k)
  \/ \E y \in 0 .. MaxScroll(rows) : ScrollTo(y)
  \/ Midnight \/ Refresh \/ Clear \/ Focus \/ HandleClick

LogSpec == LogInit /\ [][LogNext]_logVars

\* The cursor is on a message of the list as it is now, and the view is a place of
\* that list, whatever was rebuilt between a click and its handling: Enter always
\* has a message to mark, never a separator, the marker or a row that is gone.
CursorOnMessage ==
  /\ highlighted # NoRow => highlighted \in DOMAIN rows /\ IsMessage(rows[highlighted])
  /\ scroll \in 0 .. MaxScroll(rows)

\* A rebuild under a reader who has scrolled up leaves the message at the top of
\* the view on the same line of the screen, unless too little is left above it;
\* evicted, it leaves the oldest message kept there.  A reader at the tail stays at
\* the tail, and a cursor on a message that is still there stays on it.
ReaderStays ==
  [][Refresh =>
       /\ AtTail => scroll' = MaxScroll(rows')
       /\ ~AtTail =>
            LET top == TopMessage(rows, scroll)
                now == RowOf(rows', rows[top].id)
                was == FirstLine(rows, top) - scroll
                is  == FirstLine(rows', now) - scroll'
            IN IF now = NoRow THEN scroll' = 0 /\ \A i \in messages : i > rows[top].id
               ELSE is = was \/ (scroll' = 0 /\ is < was)
       /\ highlighted # NoRow /\ rows[highlighted].id \in messages =>
            highlighted' # NoRow /\ rows'[highlighted'].id = rows[highlighted].id
    ]_logVars

\* When a cursor appears, by Tab, key or click, part of its row is on the screen: the
\* reader sees which message Enter would mark.
CursorAppearsOnScreen ==
  [][highlighted = NoRow /\ highlighted' # NoRow =>
       OnScreen(rows, highlighted', scroll')]_logVars

================================================================================

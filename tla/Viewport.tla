------------------------------- MODULE Viewport -------------------------------
(***************************************************************************)
(* Which targets are on the screen, which one is selected, and how many     *)
(* history columns fit: bottom, scroll, resize and newsel of app.rs, driven *)
(* by the keys of handle_key, the GPIO switches and the resize events of    *)
(* run_loop (main.rs), against the rows that ping_screen (ui.rs) draws.     *)
(*                                                                         *)
(* One handler is one critical section of the App mutex and one step,       *)
(* except newsel: its loop is a step per iteration, with the mutex held.    *)
(***************************************************************************)
EXTENDS Integers, FiniteSets, FiniteSetsExt

CONSTANTS
  NTAR,      \* number of targets
  Headed,    \* targets that have a header line above them
  NHDR,      \* App.nhdr: header lines of the configuration file
  TALL,      \* a screen taller than this always has a title line; 20
  NWID,      \* width of the name column
  AWID,      \* width of the address column
  NSEC,      \* slots of a ring; 3600
  Sizes,     \* the sizes <<wid, hgt>> the terminal takes
  Starts,    \* the toggles <<hop, showip, stat>> the options may set
  Pressed    \* the keys the user presses

Keys == {"PageUp", "PageDown", "Up", "Down", "Enter", "Esc", "h", "n", "a", "t"}

Rows == 0 .. NTAR - 1

ASSUME TargetsAssumption == NTAR \in Nat \ {0} /\ Headed \subseteq Rows
\* A header replaced by the next header line is counted all the same.
ASSUME HeaderAssumption == NHDR \in Nat /\ NHDR >= Cardinality(Headed)
ASSUME LayoutAssumption == {TALL, NWID, AWID, NSEC} \subseteq Nat
ASSUME SizesAssumption == Sizes # {} /\ Sizes \subseteq Nat \X Nat
ASSUME StartsAssumption == Starts \subseteq BOOLEAN \X BOOLEAN \X BOOLEAN
ASSUME KeysAssumption == Pressed \subseteq Keys

VARIABLES
  mode,               \* App.mode: "ping" (0), "trace" (1) or "help" (-1)
  sel, top,           \* App.sel, App.top
  wid, hgt, nping,    \* App.wid, App.hgt, App.nping
  hop, showip, stat,  \* the display toggles that take columns
  pc,       \* "loop": between events; "select": in the loop of newsel
  dir, new  \* newsel: its argument and the target it is to select

layout == <<wid, hgt, nping, hop, showip, stat>>
view == <<mode, sel, top, layout, pc, dir, new>>

-------------------------------------------------------------------------------
AtLeastZero(x) == IF x < 0 THEN 0 ELSE x

\* The whole list fits on a screen of h lines.
Fits(h) == NTAR + NHDR + 1 < h

\* Screen lines down to and including target k when the list starts at `from`.
LinesTo(from, k, h) ==
  (IF Fits(h) \/ h > TALL THEN 2 ELSE 1)
    + (k - from + 1) + Cardinality(Headed \cap (from .. k))

\* App::bottom
Bottom(from, h) ==
  LET full == {k \in from .. NTAR - 1 : LinesTo(from, k, h) >= h}
      last == Min(full)
  IN  IF full = {} THEN NTAR - 1
      ELSE IF LinesTo(from, last, h) = h THEN last
      ELSE AtLeastZero(last - 1)

\* ping_screen: the targets it draws.
Drawn(from, h) == {k \in from .. NTAR - 1 : LinesTo(from, k, h) <= h}

\* Mutant: the lower edge is not looked at.
IntoWindowTop(s, first, last) == IF s < first THEN first ELSE s

\* The selection, moved into the window.
IntoWindow(s, first, last) ==
  LET s1 == IF s < first THEN first ELSE s
  IN  IF s1 > last THEN last ELSE s1

\* Mutant: scrolling down stops one target early.
ScrollPingsShort(d, h) ==
  /\ top' = IF d = 1 /\ Bottom(top, h) < NTAR - 2 THEN top + 1
            ELSE IF d = -1 THEN AtLeastZero(top - 1)
            ELSE top
  /\ sel' = IntoWindow(sel, top', Bottom(top', h))

\* App::scroll in ping mode.  d is 1 (down), -1 (up) or 0 (a resize).
ScrollPings(d, h) ==
  /\ top' = IF d = 1 /\ Bottom(top, h) < NTAR - 1 THEN top + 1
            ELSE IF d = -1 THEN AtLeastZero(top - 1)
            ELSE top
  /\ sel' = IntoWindow(sel, top', Bottom(top', h))

\* App::scroll elsewhere: only a resize has an effect.
ScrollOther(d, h) ==
  /\ top' = LET t == IF sel < top THEN sel ELSE top
            IN  IF d # 0 THEN top
                ELSE IF sel > Bottom(top, h) THEN AtLeastZero(t - (sel - Bottom(top, h)))
                ELSE t
  /\ UNCHANGED sel

Scroll(d, h) ==
  \/ Fits(h) /\ top' = 0 /\ UNCHANGED sel
  \/ ~Fits(h) /\ mode = "ping" /\ ScrollPings(d, h)
  \/ ~Fits(h) /\ mode # "ping" /\ ScrollOther(d, h)

\* Columns of a row that are not history: name, time, hop count, address and,
\* in the second, the statistics.
Fixed(hc, ip) == NWID + (IF hc THEN 9 ELSE 6) + (IF ip THEN AWID + 1 ELSE 0)
StatColumns(st) == IF st THEN 23 ELSE 0

Columns(w, hc, ip, st) ==
  LET n == w - Fixed(hc, ip)
      m == n - StatColumns(st)
  IN  IF m > NSEC THEN NSEC ELSE m

\* App::resize, with the toggles as they are after the step.
Resize(w, h) ==
  /\ wid' = w /\ hgt' = h
  /\ Scroll(0, h)
  /\ nping' = Columns(w, hop', showip', stat')

-------------------------------------------------------------------------------
\* run() up to the main loop: the options, then a first resize.
Init ==
  /\ mode = "ping" /\ sel = 0 /\ top = 0
  /\ \E start \in Starts : hop = start[1] /\ showip = start[2] /\ stat = start[3]
  /\ \E size \in Sizes : wid = size[1] /\ hgt = size[2]
  /\ nping = Columns(wid, hop, showip, stat)
  /\ pc = "loop" /\ dir = 0 /\ new = 0

Idle(key) == pc = "loop" /\ key \in Pressed

\* PgUp and PgDn
Page(key, d) ==
  /\ Idle(key)
  /\ Scroll(d, hgt)
  /\ UNCHANGED <<mode, layout, pc, dir, new>>

\* Mutant: the new selection is not clamped.
SelectUnclamped(key, d) ==
  /\ Idle(key)
  /\ new' = sel + d /\ dir' = d
  /\ pc' = "select"
  /\ UNCHANGED <<mode, sel, top, layout>>

\* The up and down keys, and the GPIO switches 2 and 3: newsel begins.
Select(key, d) ==
  /\ Idle(key)
  /\ new' = IF sel + d < 0 THEN 0 ELSE IF sel + d > NTAR - 1 THEN NTAR - 1 ELSE sel + d
  /\ dir' = d
  /\ pc' = "select"
  /\ UNCHANGED <<mode, sel, top, layout>>

OutOfView == IF dir < 0 THEN new < top ELSE new > Bottom(top, hgt)

\* One iteration of newsel's loop.
ScrollIntoView ==
  /\ pc = "select" /\ OutOfView
  /\ Scroll(dir, hgt)
  /\ UNCHANGED <<mode, layout, pc, dir, new>>

\* The end of newsel: the selection moves.  (PathTrace adds what it does to the
\* trace buffers.)
Selected ==
  /\ pc = "select" /\ ~OutOfView
  /\ sel' = new
  /\ pc' = "loop"
  /\ UNCHANGED <<mode, top, layout, dir, new>>

\* Enter (and GPIO switch 1), Esc and h
ChangeMode(key) ==
  /\ Idle(key)
  /\ mode' = CASE key = "Enter" -> IF mode = "ping" THEN "trace" ELSE "ping"
               [] key = "Esc"   -> "ping"
               [] key = "h"     -> "help"
  /\ UNCHANGED <<sel, top, layout, pc, dir, new>>

\* Mutant: a toggle does not recompute the layout.
ToggleOnly(key) ==
  /\ Idle(key)
  /\ hop'    = (hop # (key = "n"))
  /\ showip' = (showip # (key = "a"))
  /\ stat'   = (stat # (key = "t"))
  /\ UNCHANGED <<mode, sel, top, wid, hgt, nping, pc, dir, new>>

\* n, a (and GPIO switch 4) and t: a toggle, then a resize to the same size.
Toggle(key) ==
  /\ Idle(key)
  /\ hop'    = (hop # (key = "n"))
  /\ showip' = (showip # (key = "a"))
  /\ stat'   = (stat # (key = "t"))
  /\ Resize(wid, hgt)
  /\ UNCHANGED <<mode, pc, dir, new>>

\* A resize event of the terminal.
ResizeEvent ==
  /\ pc = "loop"
  /\ UNCHANGED <<mode, hop, showip, stat, pc, dir, new>>
  /\ \E size \in Sizes : Resize(size[1], size[2])

\* What the main thread does to the view, but for the end of newsel.
Handlers ==
  \/ Page("PageUp", -1) \/ Page("PageDown", 1)
  \/ Select("Up", -1) \/ Select("Down", 1)
  \/ ScrollIntoView
  \/ \E key \in {"Enter", "Esc", "h"} : ChangeMode(key)
  \/ \E key \in {"n", "a", "t"} : Toggle(key)
  \/ ResizeEvent

Next == Handlers \/ Selected

Spec == Init /\ [][Next]_view

\* Once begun, newsel runs on: nothing else can happen before it returns.
FairSpec == Spec /\ WF_view(ScrollIntoView \/ Selected)

-------------------------------------------------------------------------------
\* Every variable keeps its type.  In particular `sel` indexes a target, which
\* the s key and the sender thread rely on.
TypeOK ==
  /\ mode \in {"ping", "trace", "help"}
  /\ sel \in Rows /\ top \in 0 .. NTAR
  /\ <<wid, hgt>> \in Sizes /\ nping \in Int
  /\ {hop, showip, stat} \subseteq BOOLEAN
  /\ pc \in {"loop", "select"}
  /\ dir \in {-1, 0, 1} /\ new \in Rows

\* The selected target is on the ping screen: what scroll, resize and newsel
\* keep track of with `bottom` agrees with the rows ping_screen draws.  (For a
\* screen that has room for the column header, a header and a target.)
SelectionIsDrawn ==
  mode = "ping" /\ pc = "loop" /\ hgt >= 3 => sel \in Drawn(top, hgt)

\* However the toggles and the terminal change, the history takes exactly the
\* columns the rest of the row leaves free, up to the size of the ring.
RowFillsTheLine ==
  LET row == NWID + 6 + nping + (IF hop THEN 3 ELSE 0)
               + (IF showip THEN 1 + AWID ELSE 0) + (IF stat THEN 23 ELSE 0)
  IN  nping >= 0 => row <= wid /\ (nping < NSEC => row = wid)

\* A selection key always ends with the new target selected: newsel returns.
SelectionReturns == pc = "select" ~> pc = "loop"

===============================================================================

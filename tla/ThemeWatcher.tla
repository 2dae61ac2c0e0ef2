---------------------------- MODULE ThemeWatcher ----------------------------
(***************************************************************************)
(* The live theme: WatchDir and ReadThemeFrom of internal/omarchy, the     *)
(* goroutine of main.go that emits what they find, GetTheme of app.go, and *)
(* initTheme of frontend/src/lib/theme.ts, which shows it.                 *)
(*                                                                         *)
(* The theme is in two files, the colours and the name, which omarchy      *)
(* changes one after the other while they are read one after the other.    *)
(* 0 stands for a file that is missing or cannot be parsed.  An event of   *)
(* the window reaches only a listener that is there when it arrives.       *)
(***************************************************************************)
EXTENDS Integers, Sequences

CONSTANTS
  Version,   \* contents of a file, 0 among them
  MaxWrites  \* bound: changes of a file

VARIABLES
  colors, name,  \* theme/colors.toml and theme.name
  writes,
  watcher,       \* where WatchDir is
  dirty,         \* a file event waits in watcher.Events
  half,          \* the colours a read in WatchDir has found
  last,          \* last
  sent,          \* theme changes emitted and not yet at the window
  page,          \* where initTheme is
  pageHalf,      \* the colours GetTheme has found
  shown,         \* the theme applied
  missed         \* why the window may be behind: see Change

watchVars == <<watcher, dirty, half, last>>
pageVars  == <<page, pageHalf, shown>>
vars == <<colors, name, writes, watchVars, sent, pageVars, missed>>

KanagawaFallback == <<0, 0>>

(* ReadThemeFrom, and what ReadTheme and read() make of an error. *)
ThemeOf(c, n) == IF c = 0 THEN KanagawaFallback ELSE <<c, n>>
Theme == ThemeOf(colors, name)

Init ==
  /\ colors \in Version /\ name \in Version /\ writes = 0
  /\ watcher \in {"start", "off"}            \* Watch: off if the directory is absent
  /\ watcher = "off" => Theme = KanagawaFallback
  /\ dirty = FALSE /\ half = 0 /\ last = KanagawaFallback /\ sent = <<>>
  /\ page = "load" /\ pageHalf = 0 /\ shown = KanagawaFallback /\ missed = FALSE

(* The kernel tells of a change once watcher.Add is done. *)
WatchedLate == watcher \notin {"start", "first", "firstName"}
Watched     == watcher \notin {"start", "off"}

(* omarchy writes a file.  The window will not hear of it (`missed') if    *)
(* the window has begun to read and does not listen yet, or the watcher    *)
(* has not read for the first time, or the watcher finds what it found     *)
(* before while the window was told another theme by GetTheme.             *)
Change ==
  /\ writes < MaxWrites
  /\ writes' = writes + 1
  /\ \/ colors' \in Version \ {colors} /\ UNCHANGED name
     \/ name' \in Version \ {name} /\ UNCHANGED colors
  /\ dirty' = (dirty \/ Watched)
  /\ missed' = (missed \/ /\ page # "load"
                          /\ \/ page # "listening"
                             \/ watcher \in {"start", "first", "firstName", "off"}
                             \/ ThemeOf(colors', name') = last /\ shown # last)
  /\ UNCHANGED <<watcher, half, last, sent, pageVars>>

-----------------------------------------------------------------------------
(* WatchDir: watcher.Add, then the first read, then the loop. *)
Add ==
  /\ watcher = "start"
  /\ watcher' = "first"
  /\ UNCHANGED <<colors, name, writes, dirty, half, last, sent, pageVars, missed>>

ReadColors ==
  /\ \/ watcher = "first" /\ watcher' = "firstName"
     \/ watcher = "again" /\ watcher' = "againName"
  /\ half' = colors
  /\ UNCHANGED <<colors, name, writes, dirty, last, sent, pageVars, missed>>

ReadFirst ==
  /\ watcher = "firstName"
  /\ watcher' = "wait"
  /\ last' = ThemeOf(half, name)
  /\ UNCHANGED <<colors, name, writes, dirty, half, sent, pageVars, missed>>

(* An event: the drain begins, or goes on with its timer set again. *)
TakeEvent ==
  /\ dirty /\ watcher \in {"wait", "drain"}
  /\ dirty' = FALSE /\ watcher' = "drain"
  /\ UNCHANGED <<colors, name, writes, half, last, sent, pageVars, missed>>

(* The timer fires; select may prefer it to an event that is there too. *)
Settle ==
  /\ watcher = "drain"
  /\ watcher' = "again"
  /\ UNCHANGED <<colors, name, writes, dirty, half, last, sent, pageVars, missed>>

(* Equal(theme, last), or emit. *)
ReadAgain ==
  /\ watcher = "againName"
  /\ watcher' = "wait"
  /\ LET theme == ThemeOf(half, name)
     IN /\ last' = theme
        /\ sent' = IF theme = last THEN sent ELSE Append(sent, theme)
  /\ UNCHANGED <<colors, name, writes, dirty, half, pageVars, missed>>

-----------------------------------------------------------------------------
(* initTheme: getTheme, apply, subscribe. *)
PageReadsColors ==
  /\ page = "load"
  /\ page' = "reading" /\ pageHalf' = colors
  /\ UNCHANGED <<colors, name, writes, watchVars, sent, shown, missed>>

PageApplies ==
  /\ page = "reading"
  /\ page' = "applied" /\ shown' = ThemeOf(pageHalf, name)
  /\ UNCHANGED <<colors, name, writes, watchVars, sent, pageHalf, missed>>

PageListens ==
  /\ page = "applied"
  /\ page' = "listening"
  /\ UNCHANGED <<colors, name, writes, watchVars, sent, pageHalf, shown, missed>>

Deliver ==
  /\ sent # <<>>
  /\ sent' = Tail(sent)
  /\ IF page = "listening"
       THEN shown' = Head(sent) /\ missed' = FALSE
       ELSE UNCHANGED <<shown, missed>>
  /\ UNCHANGED <<colors, name, writes, watchVars, page, pageHalf>>

Next ==
  \/ Change
  \/ Add \/ ReadColors \/ ReadFirst \/ TakeEvent \/ Settle \/ ReadAgain
  \/ PageReadsColors \/ PageApplies \/ PageListens \/ Deliver

Spec == Init /\ [][Next]_vars

-----------------------------------------------------------------------------
TypeOK ==
  /\ {colors, name, half, pageHalf} \subseteq Version
  /\ writes \in 0..MaxWrites
  /\ watcher \in {"off", "start", "first", "firstName", "wait", "drain", "again", "againName"}
  /\ page \in {"load", "reading", "applied", "listening"}
  /\ {last, shown} \subseteq Version \X Version /\ sent \in Seq(Version \X Version)
  /\ dirty \in BOOLEAN /\ missed \in BOOLEAN

(* Once the watcher waits with no event left it knows the theme of the     *)
(* files, whenever they were changed while it started, read or drained;    *)
(* and a window that has been told everything shows that theme -- save     *)
(* after a change that is missed in one of the ways Change names.          *)
ThemeSettles ==
  watcher = "wait" /\ ~dirty =>
    /\ last = Theme
    /\ page = "listening" /\ sent = <<>> /\ ~missed => shown = Theme
=============================================================================

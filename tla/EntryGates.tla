----------------------------- MODULE EntryGates -----------------------------
(***************************************************************************)
(* The gates between an entry signal and _open_position that look at the   *)
(* world outside the account: news/calendar.py, news/live_calendar.py,     *)
(* news/boj_calendar.py, data/cross_asset.py, regime/detector.py and       *)
(* engine/runner.py, _process_pair.  The gates on the account itself       *)
(* (circuit breaker, drawdown, pending orders, status) are in RiskGates    *)
(* and TradingRunner.                                                      *)
(*                                                                         *)
(* Time is counted in slots, DaySlots of them in a day.  An event of the   *)
(* file or of the feed has a name and a slot; the feed may name an event   *)
(* of the file at another time, leave it out, or be empty or unreachable.  *)
(***************************************************************************)
EXTENDS Regimes

CONSTANTS StaticEvents,     \* events_2026.json: [name, at]
          FeedEvents,       \* high-impact events the feed may carry
          BojEvents,        \* names that match a BOJ keyword, in JPY
          Meetings,         \* centres of the days of BOJ_MEETINGS
          EventWindow,      \* blackout_hours of the calendar
          BojWindow,        \* _BLACKOUT_HOURS of the BOJ calendar
          DaySlots,
          LastSlot

ASSUME EntryGatesAssumption ==
    /\ {EventWindow, BojWindow, LastSlot} \subseteq Nat /\ DaySlots \in Nat \ {0}
    /\ Meetings \subseteq 0..LastSlot
    /\ \A e \in StaticEvents \cup FeedEvents : e.at \in Nat

VARIABLES slot,        \* now
          events,      \* self.calendar.events
          refreshedAt, \* slot of the start of this process
          lastFeed,    \* history: what the feed answered at that start
          macro,       \* cached cross-asset data, or NoMacro
          tookEntry    \* the last signal reached _open_position

entryGatesVars == <<slot, events, refreshedAt, lastFeed, macro, tookEntry>>

NoMacro == [vix |-> "none", dxyFell |-> FALSE, isDefault |-> TRUE]

-----------------------------------------------------------------------------
(* Calendars.                                                              *)

DateOf(e) == e.at \div DaySlots

\* Mutant: the events of the feed replace those of the file.
FeedOnly(feed, now) == IF feed = {} THEN StaticEvents ELSE feed

\* refresh: the feed, and the events of the file that are still to come and
\* that the feed does not name on the same date.  A feed that fails or carries
\* nothing relevant leaves the file's events.
Refreshed(feed, now) ==
    IF feed = {} THEN StaticEvents
    ELSE feed \cup {e \in StaticEvents :
                       /\ e.at > now
                       /\ ~\E f \in feed : f.name = e.name /\ DateOf(f) = DateOf(e)}

Within(window, at, now) == at - window <= now /\ now <= at + window

IsBlackoutPeriod(now) == \E e \in events : Within(EventWindow, e.at, now)

\* is_boj_blackout: the hard-coded schedule, then the feed's own BOJ events.
IsBojBlackout(now) ==
    \/ \E m \in Meetings : Within(BojWindow, m, now)
    \/ \E e \in events : e.name \in BojEvents /\ Within(BojWindow, e.at, now)

-----------------------------------------------------------------------------
(* Cross-asset data.                                                       *)

\* _fetch_all: every symbol is fetched or takes its default (a VIX of 20, no
\* change of the dollar index); only when all of them failed is the result
\* marked as a default.
FetchAll(vix, dxy, others) ==
    [vix |-> IF vix = "failed" THEN "low" ELSE vix, dxyFell |-> dxy = "fell",
     isDefault |-> vix = "failed" /\ dxy = "failed" /\ ~others]

MacroBlocks(data, usdJpy) ==
    ~data.isDefault /\ (data.vix = "high" \/ (usdJpy /\ data.dxyFell))

\* _detect_regime_safe answers "unknown" when the detection raises.
RegimeBlocks(state) == state \in {"range_low_vol", "range_high_vol"}

-----------------------------------------------------------------------------
EntryGatesInit ==
    /\ slot = 0 /\ refreshedAt = 0
    /\ lastFeed \in SUBSET FeedEvents
    /\ events = Refreshed(lastFeed, 0)
    /\ macro = NoMacro /\ tookEntry = FALSE

SlotPasses ==
    /\ slot < LastSlot
    /\ slot' = slot + 1
    /\ macro' = NoMacro     \* older than the cache's five minutes
    /\ tookEntry' = FALSE
    /\ UNCHANGED <<events, refreshedAt, lastFeed>>

\* _init_calendar in a new process, the only place that refreshes.
CalendarRestart ==
    /\ \E feed \in SUBSET FeedEvents :
           lastFeed' = feed /\ events' = Refreshed(feed, slot)
    /\ refreshedAt' = slot
    /\ macro' = NoMacro /\ tookEntry' = FALSE
    /\ UNCHANGED slot

\* The gates in the order of _process_pair.  The macro data are fetched only
\* behind the calendars.  An exception of the macro gate opens it; a missing
\* regime or correlation opens theirs.
Fetches ==
    {FetchAll(vix, dxy, others) : vix \in {"high", "low", "failed"},
                                  dxy \in {"fell", "steady", "failed"}, others \in BOOLEAN}

RegimeStates ==
    {"unknown"} \cup {Detect(adx, TRUE, ratio).composite : adx \in {Missing, 20, 30},
                                                           ratio \in {Missing, 10, 20}}

EntrySignal ==
    LET calm == ~IsBlackoutPeriod(slot) /\ ~IsBojBlackout(slot)
    IN  \E data \in IF calm /\ macro = NoMacro THEN Fetches ELSE {macro},
           usdJpy, correlated, skip \in BOOLEAN, regime \in RegimeStates :
           /\ macro' = data
           /\ tookEntry' = /\ calm
                           /\ ~MacroBlocks(data, usdJpy)
                           /\ ~RegimeBlocks(regime)
                           /\ ~correlated
                           /\ ~skip
           /\ UNCHANGED <<slot, events, refreshedAt, lastFeed>>

EntryGatesNext ==
    \/ SlotPasses
    \/ CalendarRestart
    \/ EntrySignal

EntryGatesSpec == EntryGatesInit /\ [][EntryGatesNext]_entryGatesVars

-----------------------------------------------------------------------------
(* Properties.                                                             *)

EntryGatesTypeOK ==
    /\ slot \in 0..LastSlot /\ refreshedAt \in 0..slot
    /\ events \subseteq StaticEvents \cup FeedEvents
    /\ lastFeed \subseteq FeedEvents
    /\ macro \in [vix : {"none", "high", "low"}, dxyFell : BOOLEAN, isDefault : BOOLEAN]
    /\ tookEntry \in BOOLEAN

\* No position is entered around an event, whatever the feed answered and
\* whenever the process started: neither around a BOJ meeting, nor around an
\* event the feed named, nor around one of the file -- except one the feed
\* moved within its day, and one that had begun when the process started with a
\* feed, which the refresh drops although its window still runs.
EntryAvoidsEvents ==
    tookEntry =>
        /\ \A m \in Meetings : ~Within(BojWindow, m, slot)
        /\ \A f \in lastFeed : ~Within(EventWindow, f.at, slot)
        /\ \A e \in StaticEvents :
              Within(EventWindow, e.at, slot) =>
                  \/ e.at <= refreshedAt /\ lastFeed # {}
                  \/ \E f \in lastFeed : f.name = e.name /\ DateOf(f) = DateOf(e)

=============================================================================

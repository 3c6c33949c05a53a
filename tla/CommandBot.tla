----------------------------- MODULE CommandBot -----------------------------
(***************************************************************************)
(* ops/telegram_bot.py: the thread that long-polls Telegram for commands   *)
(* and answers them with the state of the runner.                          *)
(*                                                                         *)
(* Telegram keeps every update until a getUpdates call names a higher      *)
(* offset, and hands all kept updates from the offset on to each call.     *)
(* The bot keeps only _last_update_id, in memory.  A reply is the decision *)
(* its handler takes on the runner's state; the wording is left out.       *)
(***************************************************************************)
EXTENDS Integers, Sequences, SequencesExt

CONSTANTS MaxUpdates,       \* updates sent in a behaviour
          MaxBotRestarts

ASSUME BotAssumption == {MaxUpdates, MaxBotRestarts} \subseteq Nat

VARIABLES inbox,        \* the updates sent so far, their index is update_id
          confirmed,    \* updates up to this id are deleted at Telegram
          lastUpdateId, \* _last_update_id
          batch,        \* ids _poll_loop has fetched and not yet processed
          running,      \* the polling thread is alive
          botRestarts,
          reply,        \* what the last processed update was answered
          handled       \* history: how often each update was processed

botVars == <<inbox, confirmed, lastUpdateId, batch, running, botRestarts,
             reply, handled>>

Commands == {"status", "health", "positions", "trends", "help"}
Updates  == {[kind |-> "command", name |-> c] : c \in Commands \cup {"unknown"}}
                \cup [kind : {"stranger", "chat", "edit"}, name : {"help"}]

\* account: the broker answered; held: positions it reported; pending: limit
\* orders; candles: the cache holds none, too few or enough rows; rank: the
\* order of price, MA50 and MA200 (up: price > MA50 > MA200).
SystemStates ==
    [account : BOOLEAN, held : 0..1, pending : {0}, candles : {"none", "few"},
     rank : {"down"}]
    \cup [account : {TRUE}, held : {1}, pending : 0..1, candles : {"enough"},
          rank : {"up", "pullback", "recovering", "down"}]

-----------------------------------------------------------------------------
(* The handlers.                                                           *)

\* get_system_state: positions and prices come from the broker, an unanswered
\* request leaves an empty account and no positions.
GetSystemState(s) == IF s.account THEN s ELSE [s EXCEPT !.held = 0]

\* _handle_status: the profit of the day is measured against an equity of 0
\* when the account is unknown.
HandleStatus(s) == IF s.account THEN "status" ELSE "status of an empty account"

HandleHealth(s) == IF s.account THEN "connected" ELSE "disconnected"

HandlePositions(s) ==
    IF s.held = 0 /\ s.pending = 0 THEN "no open positions" ELSE "positions"

\* _handle_trends: a pair is ready only in an uptrend.
HandleTrends(s) ==
    CASE s.candles = "none" -> "no candle data"
      [] s.candles = "few"  -> "insufficient data"
      [] s.candles = "enough" /\ s.rank = "up" -> "ready to trade"
      [] OTHER              -> "no uptrend"

HandleHelp(s) == "commands"

Answer(update, s) ==
    IF update.kind # "command" THEN "ignored"
    ELSE CASE update.name = "status"    -> HandleStatus(s)
           [] update.name = "health"    -> HandleHealth(s)
           [] update.name = "positions" -> HandlePositions(s)
           [] update.name = "trends"    -> HandleTrends(s)
           [] update.name = "help"      -> HandleHelp(s)
           [] OTHER                     -> "unknown command"

-----------------------------------------------------------------------------
BotInit ==
    /\ inbox = <<>> /\ confirmed = 0 /\ lastUpdateId = 0 /\ batch = <<>>
    /\ running = TRUE /\ botRestarts = 0
    /\ reply = "none" /\ handled = <<>>

UserWrites ==
    /\ Len(inbox) < MaxUpdates
    /\ \E u \in Updates : inbox' = Append(inbox, u)
    /\ handled' = Append(handled, 0)
    /\ UNCHANGED <<confirmed, lastUpdateId, batch, running, botRestarts, reply>>

\* Mutant: one more than the next id.
OffsetTooHigh(last) == last + 2

Offset(last) == last + 1

\* _get_updates: the call deletes everything below its offset, whether or not
\* its answer arrives; a failed call yields an empty batch.
GetUpdates ==
    /\ running /\ batch = <<>>
    /\ LET kept == IF Offset(lastUpdateId) - 1 > confirmed
                   THEN Offset(lastUpdateId) - 1 ELSE confirmed
           ids  == [i \in 1..(Len(inbox) - kept) |-> kept + i]
       IN  \/ confirmed' = kept /\ batch' \in {ids, <<>>}
           \/ UNCHANGED <<confirmed, batch>>
    /\ UNCHANGED <<inbox, lastUpdateId, running, botRestarts, reply, handled>>

\* _process_update: the id is noted first, then the update is answered; the
\* result of _send_message is ignored, so a reply that fails is not repeated.
ProcessUpdate ==
    /\ running /\ batch # <<>>
    /\ LET id == Head(batch)
       IN  /\ lastUpdateId' = IF id > lastUpdateId THEN id ELSE lastUpdateId
           /\ reply' \in {"lost" : c \in {inbox[id].kind} \cap {"command"}} \cup
                        {Answer(inbox[id], GetSystemState(s)) : s \in SystemStates}
           /\ handled' = [handled EXCEPT ![id] = @ + 1]
    /\ batch' = Tail(batch)
    /\ UNCHANGED <<inbox, confirmed, running, botRestarts>>

\* stop() lets the thread finish its batch for 40 seconds; a crash does not.
BotStops ==
    /\ running /\ botRestarts < MaxBotRestarts
    /\ running' = FALSE /\ batch' = <<>>
    /\ UNCHANGED <<inbox, confirmed, lastUpdateId, botRestarts, reply,
                   handled>>

\* start() in a new process.
BotStarts ==
    /\ ~running
    /\ running' = TRUE /\ lastUpdateId' = 0 /\ botRestarts' = botRestarts + 1
    /\ UNCHANGED <<inbox, confirmed, batch, reply, handled>>

BotNext ==
    \/ UserWrites
    \/ GetUpdates
    \/ ProcessUpdate
    \/ BotStops
    \/ BotStarts

BotSpec == BotInit /\ [][BotNext]_botVars

-----------------------------------------------------------------------------
(* Properties.                                                             *)

BotTypeOK ==
    /\ inbox \in Seq(Updates) /\ Len(handled) = Len(inbox)
    /\ {confirmed, lastUpdateId} \subseteq Nat
    /\ \A i \in DOMAIN batch : batch[i] \in Nat
    /\ running \in BOOLEAN /\ botRestarts \in 0..MaxBotRestarts

\* Telegram and the bot together deliver every update at least once, in order
\* (module Delivery): no command is lost in a stop, a crash or a failed call,
\* since whatever Telegram has deleted was processed.
Delivered == INSTANCE Delivery WITH
    sent    <- Len(inbox),
    deleted <- confirmed,
    done    <- {id \in DOMAIN handled : handled[id] >= 1}

DeliveryRefined == Delivered!DeliverySpec

=============================================================================

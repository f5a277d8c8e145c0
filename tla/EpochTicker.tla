------------------------------ MODULE EpochTicker -------------------------------
(***************************************************************************)
(* The thread that advances the engine's epoch and the guard that stops it *)
(* (jadepaw-wasm/src/epoch.rs).  The thread has a weak reference to the    *)
(* engine only, and a strong one for as long as it advances the epoch.     *)
(***************************************************************************)

VARIABLES
  ticker,   \* where the thread is
  stop,     \* a stop message is in its channel
  guard     \* "held", "joining" in its drop, or "dropped"

tickerVars == <<ticker, stop, guard>>

TickerInit == ticker = "check" /\ stop = FALSE /\ guard = "held"

(* The thread lets go of everything when it ends.                          *)
HoldsEngine == ticker = "tick"

(* Mutant: an empty channel is taken for the end of the thread's work.     *)
CheckStopOnEmpty ==
  /\ ticker = "check"
  /\ ticker' = IF stop THEN "upgrade" ELSE "gone"
  /\ stop' = FALSE
  /\ UNCHANGED guard

(* try_recv takes the message, if there is one.                            *)
CheckStop ==
  /\ ticker = "check"
  /\ ticker' = IF stop THEN "gone" ELSE "upgrade"
  /\ stop' = FALSE
  /\ UNCHANGED guard

Upgrade(alive) ==
  /\ ticker = "upgrade"
  /\ ticker' = IF alive THEN "tick" ELSE "gone"
  /\ UNCHANGED <<stop, guard>>

(* It advances the epoch, lets go of the engine and sleeps for a tick.     *)
Tick ==
  /\ ticker = "tick"
  /\ ticker' = "check"
  /\ UNCHANGED <<stop, guard>>

(* Mutant: Drop closes the channel, which try_recv does not take for a     *)
(* message.                                                                *)
DropGuardSilently ==
  /\ guard = "held"
  /\ guard' = "joining"
  /\ UNCHANGED <<stop, ticker>>

(* Drop sends the message, which nobody may be there to take, and joins.   *)
DropGuard ==
  /\ guard = "held"
  /\ guard' = "joining"
  /\ stop' = (ticker # "gone")
  /\ UNCHANGED ticker

Joined ==
  /\ guard = "joining"
  /\ ticker = "gone"
  /\ guard' = "dropped"
  /\ UNCHANGED <<ticker, stop>>
================================================================================

--------------------------- MODULE TrackedUniverse ---------------------------
(***************************************************************************)
(* How a ticker comes into the tracked universe and leaves the database    *)
(* (data/tracked_universe.py, data/universe_membership.py) while the wipe  *)
(* of untouched tickers (pipeline/wipe_untouched_tickers.py) runs in       *)
(* another process.  A page view, an Add and a wipe pass each take several *)
(* transactions; anything else may happen in between.  Time is in days.    *)
(***************************************************************************)
EXTENDS Naturals, FiniteSets

CONSTANTS
    Tickers,
    Kinds,         \* kinds of protection: index, watchlist, manual data, opportunity list, ...
    IdleDays,      \* TRACKED_VIEW_WINDOW_DAYS = WIPE_IDLE_DAYS
    LastDay        \* days in a behaviour

ASSUME UniverseAssumption == IdleDays \in Nat /\ LastDay \in Nat

VARIABLES
    day,
    stored,        \* tickers with a row in some per-ticker table
    delisted,      \* tickers whose score row carries delisted_at
    protections,   \* [Tickers -> SUBSET Kinds]
    viewed,        \* TickerView.last_viewed_at, day + 1 (0: no row)
    added,         \* tickers with TickerView.added_at
    opening,       \* tickers whose summary page is being computed
    adding,        \* tickers whose Add has passed its checks
    pass           \* the wipe pass

uvars == <<day, stored, delisted, protections, viewed, added, opening, adding, pass>>

Today == day + 1
NoView == 0
NoPass == [on |-> FALSE, today |-> 0, added |-> {}, todo |-> {}]

-----------------------------------------------------------------------------
(***************************************************************************)
(* The classification and the wipe's decision.                             *)
(***************************************************************************)
\* _reason_for, first match wins; the protections share one answer here.
Reason(t) ==
    CASE t \in delisted -> "delisted"
      [] t \notin delisted /\ protections[t] # {} -> "protected"
      [] t \notin delisted /\ protections[t] = {} /\ t \in added -> "added"
      [] t \notin delisted /\ protections[t] = {} /\ t \notin added /\ viewed[t] = NoView -> "untracked"
      [] OTHER -> IF viewed[t] + IdleDays < Today THEN "expired" ELSE "browsed"

OutOfUniverse == {"delisted", "untracked", "expired", "browsed"}

\* classify_wipe_candidates for one ticker, with the set of added tickers and
\* the day the caller gives it.
Decision(t, addedSet, today) ==
    CASE protections[t] # {} \/ t \in addedSet -> "protected"
      [] protections[t] = {} /\ t \notin addedSet /\ viewed[t] = NoView ->
            IF t \in stored THEN "adopt" ELSE "ignored"
      [] OTHER -> IF viewed[t] + IdleDays < today THEN "wipe" ELSE "not due"

Candidates == {t \in Tickers : Decision(t, added, Today) \in {"wipe", "adopt"}}

-----------------------------------------------------------------------------
(***************************************************************************)
(* Opening a ticker's page (ticker_summary).                               *)
(***************************************************************************)
\* touch_existing_ticker_view: only a row from an earlier day is moved; a
\* database error is swallowed and the page opens all the same.
Touched(t) == IF viewed[t] = NoView THEN {viewed[t]} ELSE {viewed[t], Today}

OpenPage(t) ==
    /\ t \notin opening
    /\ opening' = opening \cup {t}
    /\ \E v \in Touched(t) : viewed' = [viewed EXCEPT ![t] = v]
    /\ UNCHANGED <<day, stored, delisted, protections, added, adding, pass>>

\* The summary stores what it fetched; record_ticker_view then creates the
\* row of a first view (best effort).  An unknown ticker stores nothing.
PageShown(t) ==
    /\ t \in opening
    /\ opening' = opening \ {t}
    /\ \/ UNCHANGED <<stored, viewed>>
       \/ /\ stored' = stored \cup {t}
          /\ \E v \in {viewed[t], Today} : viewed' = [viewed EXCEPT ![t] = v]
    /\ UNCHANGED <<day, delisted, protections, added, adding, pass>>

(***************************************************************************)
(* The Add and Remove buttons.                                             *)
(***************************************************************************)
\* add_to_universe up to its write: the profile is fetched and cached, a
\* delisted, protected or added ticker goes no further.
AddChecked(t) ==
    /\ t \notin adding
    /\ stored' = stored \cup {t}
    /\ adding' = IF Reason(t) \in {"untracked", "browsed", "expired"} THEN adding \cup {t} ELSE adding
    /\ UNCHANGED <<day, delisted, protections, viewed, added, opening, pass>>

\* One transaction: the view row if there is none (an existing one keeps its
\* date), then added_at.  The score or ETF row is computed after the commit
\* and may fail: the add stands.
AddCommitted(t) ==
    /\ t \in adding
    /\ viewed' = [viewed EXCEPT ![t] = IF @ = NoView THEN Today ELSE @]
    /\ added' = added \cup {t}
    /\ adding' = adding \ {t}
    /\ stored' \in {stored, stored \cup {t}}
    /\ UNCHANGED <<day, delisted, protections, opening, pass>>

\* remove_from_universe: refused while a protection applies.
RemoveAdded(t) ==
    /\ t \in added /\ protections[t] = {}
    /\ added' = added \ {t}
    /\ UNCHANGED <<day, stored, delisted, protections, viewed, opening, adding, pass>>

(***************************************************************************)
(* The wipe.                                                               *)
(***************************************************************************)
\* run: the added set and the decisions are read once; --limit and --tickers
\* leave some of the candidates out.
PassBegins ==
    /\ ~pass.on
    /\ \E todo \in SUBSET Candidates :
          /\ todo # {}
          /\ pass' = [on |-> TRUE, today |-> Today, added |-> added, todo |-> todo]
    /\ UNCHANGED <<day, stored, delisted, protections, viewed, added, opening, adding>>

\* Mutant: what the pass decided is applied without looking again.
NotRechecked(t) == IF viewed[t] # NoView THEN "wipe" ELSE "adopt"

\* apply_one, one transaction: the decision again, from the tables as they
\* are, with the pass's own added set and clock; then the rows, view last.
Rechecked(t) == Decision(t, pass.added, pass.today)

Wipes(t) == pass.on /\ t \in pass.todo /\ Rechecked(t) = "wipe"

Done(t) == [pass EXCEPT !.todo = @ \ {t}, !.on = pass.todo # {t}]

\* Mutant: the row that carries delisted_at is not among the deleted ones.
WipeKeepsDelisted(t) ==
    /\ Wipes(t)
    /\ stored' = stored \ {t}
    /\ viewed' = [viewed EXCEPT ![t] = NoView]
    /\ added' = added \ {t}
    /\ pass' = Done(t)
    /\ UNCHANGED <<day, delisted, protections, opening, adding>>

ApplyWipe(t) ==
    /\ Wipes(t)
    /\ stored' = stored \ {t}
    /\ delisted' = delisted \ {t}
    /\ viewed' = [viewed EXCEPT ![t] = NoView]
    /\ added' = added \ {t}
    /\ pass' = Done(t)
    /\ UNCHANGED <<day, protections, opening, adding>>

ApplyAdopt(t) ==
    /\ pass.on /\ t \in pass.todo /\ Rechecked(t) = "adopt"
    /\ viewed' = [viewed EXCEPT ![t] = pass.today]
    /\ pass' = Done(t)
    /\ UNCHANGED <<day, stored, delisted, protections, added, opening, adding>>

\* The re-check no longer agrees, or the transaction fails and is rolled back.
ApplySkipped(t) ==
    /\ pass.on /\ t \in pass.todo
    /\ pass' = Done(t)
    /\ UNCHANGED <<day, stored, delisted, protections, viewed, added, opening, adding>>

(***************************************************************************)
(* Everything else that moves a ticker: the owner's lists and notes, the   *)
(* index and opportunity jobs, the delisted sync, the calendar.            *)
(***************************************************************************)
Protect(t) ==
    /\ \E k \in Kinds \ protections[t] : protections' = [protections EXCEPT ![t] = @ \cup {k}]
    /\ UNCHANGED <<day, stored, delisted, viewed, added, opening, adding, pass>>

Unprotect(t) ==
    /\ \E k \in protections[t] : protections' = [protections EXCEPT ![t] = @ \ {k}]
    /\ UNCHANGED <<day, stored, delisted, viewed, added, opening, adding, pass>>

Delisted(t) ==
    /\ t \in stored \ delisted
    /\ delisted' = delisted \cup {t}
    /\ UNCHANGED <<day, stored, protections, viewed, added, opening, adding, pass>>

Tomorrow ==
    /\ day < LastDay
    /\ day' = day + 1
    /\ UNCHANGED <<stored, delisted, protections, viewed, added, opening, adding, pass>>

-----------------------------------------------------------------------------
InitUniverse ==
    /\ day = 0
    /\ stored = {} /\ delisted = {} /\ added = {}
    /\ opening = {} /\ adding = {}
    /\ protections = [t \in Tickers |-> {}]
    /\ viewed = [t \in Tickers |-> NoView]
    /\ pass = NoPass

NextUniverse ==
    \/ PassBegins
    \/ Tomorrow
    \/ \E t \in Tickers :
          \/ OpenPage(t) \/ PageShown(t)
          \/ AddChecked(t) \/ AddCommitted(t) \/ RemoveAdded(t)
          \/ ApplyWipe(t) \/ ApplyAdopt(t) \/ ApplySkipped(t)
          \/ Protect(t) \/ Unprotect(t) \/ Delisted(t)

UniverseSpec == InitUniverse /\ [][NextUniverse]_uvars

-----------------------------------------------------------------------------
UniverseTypeOK ==
    /\ day \in 0 .. LastDay
    /\ stored \subseteq Tickers /\ delisted \subseteq stored /\ added \subseteq Tickers
    /\ protections \in [Tickers -> SUBSET Kinds]
    /\ viewed \in [Tickers -> 0 .. LastDay + 1]
    /\ opening \subseteq Tickers /\ adding \subseteq Tickers
    /\ pass \in [on : BOOLEAN, today : 0 .. LastDay + 1, added : SUBSET Tickers, todo : SUBSET Tickers]

(***************************************************************************)
(* A ticker that loses its rows was last opened more than the idle window  *)
(* ago and nothing protects it at that moment, however long ago the pass   *)
(* decided on it: a page opened, a watchlist add or a new opportunity list *)
(* between the decision and the delete saves the ticker.                   *)
(***************************************************************************)
Lost(t) == viewed[t] # NoView /\ viewed'[t] = NoView

WipeSparesTouched ==
    [][\A t \in Tickers : Lost(t) => viewed[t] + IdleDays < Today /\ protections[t] = {}]_uvars

(***************************************************************************)
(* "a ticker the classification calls `expired` is exactly a wipe          *)
(* candidate, `added` is never one" (data/tracked_universe.py:424-425): no *)
(* ticker that is in the universe is wiped.                                *)
(***************************************************************************)
UniverseNeverWiped ==
    [][\A t \in Tickers : Lost(t) => Reason(t) \in OutOfUniverse]_uvars
=============================================================================
